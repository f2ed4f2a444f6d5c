-------------------------------- MODULE Wire --------------------------------
(***************************************************************************)
(* What the two broadcast threads of stream.cpp put on the wire: the split *)
(* of a video frame into FEC blocks and shards (videoBroadcastThread,      *)
(* fec::encode), and the blocks of audio packets with their parity         *)
(* (audioBroadcastThread).  One session; the sizes, the FEC percentage of  *)
(* the configuration and the minimum of the client are inputs.             *)
(*                                                                         *)
(* Bytes are counted in units of which a shard has BlockSize, so that a    *)
(* frame may end inside a shard.  The Reed-Solomon code is external.       *)
(***************************************************************************)
EXTENDS Integers, FiniteSets

CONSTANTS BlockSize,    \* blocksize, in units
          FrameSize,    \* sizes of a frame with its headers, in units
          FecPercent,   \* config::stream.fec_percentage
          MinParity,    \* minRequiredFecPackets of the client
          SeqNumbers        \* sequence numbers, 2^16 in the code

\* A block is longer than the header of a packet, 16 bytes of RTP and more
\* (stream.cpp:1179-1181).
ASSUME WireAssumption ==
  /\ BlockSize \in Nat /\ BlockSize >= 3 /\ FrameSize \subseteq Nat \ {0}
  /\ FecPercent \subseteq 1..255 /\ MinParity \subseteq Nat
  /\ SeqNumbers \in Nat \ {0} /\ SeqNumbers % 4 = 0

VARIABLES
  lowseq,     \* session->video.lowseq
  frame,      \* the frame on its way: its size and what was computed for it
  blockNr,    \* blockIndex
  sentVideo,  \* units of the frame in blocks that were sent
  shards,     \* fec_t of the block sent last
  seqAudio,   \* session->audio.sequenceNumber
  slots,      \* shards_p: the sequence number of the packet in each data shard
  header,     \* baseSequenceNumber of fec_packet
  parity      \* what the parity shards sent last were made of

wireVideoVars == <<lowseq, frame, blockNr, sentVideo, shards>>
wireAudioVars == <<seqAudio, slots, header, parity>>
wireVars == <<wireVideoVars, wireAudioVars>>

DataShards == 4      \* RTPA_DATA_SHARDS
MaxBlocks  == 4      \* MAX_FEC_BLOCKS
MaxShards  == 255    \* DATA_SHARDS_MAX
NoFrame  == [size |-> 0, percent |-> 0, min |-> 0, blocks |-> 0, aligned |-> 0]
NoShards == [data |-> 0, all |-> 0, percent |-> 0]
NoParity == [base |-> 0, of |-> [x \in 0..DataShards - 1 |-> x]]

WireInit ==
  /\ lowseq = 0 /\ frame = NoFrame /\ blockNr = 0 /\ sentVideo = 0
  /\ shards = NoShards
  /\ seqAudio = 0 /\ slots = [x \in 0..DataShards - 1 |-> x] /\ header = 0
  /\ parity = NoParity

Ceil(a, b) == (a + b - 1) \div b

----------------------------------------------------------------------------
(* videoBroadcastThread                                                    *)

\* Altered form: the parity shards are not counted.
MaxDataShardsAlone(percent) == MaxShards

\* max_data_shards_per_fec_block
MaxDataShards(percent) == (MaxShards * 100) \div (100 + percent)

\* A frame that needs too many blocks goes without FEC.
Blocked(size, percent, min) ==
  LET needed == Ceil(size, MaxDataShards(percent) * BlockSize)
      blocks == IF needed > MaxBlocks THEN MaxBlocks ELSE needed
  IN  [size |-> size, percent |-> IF needed > MaxBlocks THEN 0 ELSE percent,
       min |-> min, blocks |-> blocks,
       aligned |-> Ceil(size \div blocks, BlockSize) * BlockSize]

TakeFrame ==
  /\ frame = NoFrame
  /\ \E size \in FrameSize, percent \in FecPercent, min \in MinParity:
       frame' = Blocked(size, percent, min)
  /\ blockNr' = 0 /\ sentVideo' = 0
  /\ UNCHANGED <<lowseq, shards, wireAudioVars>>

\* The part of the frame in block n: substr, which throws when it starts behind
\* the end.  The last block goes to the end of the frame.
StartsInside(n) == n * frame.aligned <= frame.size
BlockUnits(n) ==
  IF n = frame.blocks - 1 THEN frame.size - n * frame.aligned ELSE frame.aligned

\* The parity shards of a percentage: what fec::encode makes, and what the client
\* makes of the percentage in the header.
ParityShards(data, percent) == (data * percent + 99) \div 100

\* fec::encode: a minimum of parity shards, which the client names, raises the
\* percentage.
Raised(data) == frame.percent # 0 /\ ParityShards(data, frame.percent) < frame.min
FecEncode(units) ==
  LET data == Ceil(units, BlockSize)
      made == IF Raised(data) THEN frame.min ELSE ParityShards(data, frame.percent)
  IN  [data |-> data, all |-> data + made,
       percent |-> IF Raised(data) THEN (100 * made) \div data ELSE frame.percent]

\* Every shard takes a sequence number.
SendBlock ==
  /\ frame # NoFrame /\ blockNr < frame.blocks
  /\ shards' = FecEncode(BlockUnits(blockNr))
  /\ sentVideo' = sentVideo + BlockUnits(blockNr)
  /\ lowseq' = (lowseq + shards'.all) % SeqNumbers
  /\ blockNr' = blockNr + 1
  /\ UNCHANGED <<frame, wireAudioVars>>

FrameSent ==
  /\ frame # NoFrame /\ blockNr = frame.blocks
  /\ frame' = NoFrame /\ blockNr' = 0 /\ sentVideo' = 0 /\ shards' = NoShards
  /\ UNCHANGED <<lowseq, wireAudioVars>>

----------------------------------------------------------------------------
(* audioBroadcastThread                                                    *)

BlockStarts(seq) == seq % DataShards = 0

\* The packet goes into its slot, and the last of a block is followed by the
\* parity of all slots.  A datagram may be lost: the results of send are not
\* looked at.
SendAudio ==
  /\ slots' = [slots EXCEPT ![seqAudio % DataShards] = seqAudio]
  /\ header' = IF BlockStarts(seqAudio) THEN seqAudio ELSE header
  /\ parity' = IF (seqAudio + 1) % DataShards = 0
                 THEN [base |-> header', of |-> slots'] ELSE parity
  /\ seqAudio' = (seqAudio + 1) % SeqNumbers
  /\ UNCHANGED wireVideoVars

WireNext == TakeFrame \/ SendBlock \/ FrameSent \/ SendAudio

WireSpec == WireInit /\ [][WireNext]_wireVars

----------------------------------------------------------------------------
(* Properties.                                                             *)

\* The variables keep their types.
WireTypeOK ==
  /\ lowseq \in 0..SeqNumbers - 1
  /\ frame.blocks \in 0..MaxBlocks /\ blockNr \in 0..MaxBlocks
  /\ sentVideo \in 0..frame.size
  /\ shards.data \in Nat /\ shards.all \in Nat /\ shards.percent \in Nat
  /\ seqAudio \in 0..SeqNumbers - 1 /\ header \in 0..SeqNumbers - 1
  /\ slots \in [0..DataShards - 1 -> 0..SeqNumbers - 1]

\* Every block of a frame starts inside the frame, so that substr does not throw,
\* and the blocks are the whole frame (videoBroadcastThread).
FrameInBlocks ==
  frame # NoFrame =>
    /\ \A n \in 0..frame.blocks - 1: StartsInside(n)
    /\ blockNr = frame.blocks => sentVideo = frame.size

\* With FEC a block has at most the 255 shards of the code, its percentage fits
\* the 8 bits of fecInfo, and the parity that the client computes from the
\* percentage is the parity that was made (fec::encode).  Excepted is a block whose
\* parity the minimum of the client raised, which nothing bounds: one of more than
\* two may go beyond both limits, and in a block of more than 100 data shards the
\* percentage is rounded down to fewer shards than were made.
ParityOfPercentage ==
  shards.percent # 0 =>
    /\ frame.min <= 2 \/ ~Raised(shards.data) =>
         shards.all <= MaxShards /\ shards.percent < 256
    /\ shards.data <= 100 \/ ~Raised(shards.data) =>
         ParityShards(shards.data, shards.percent) = shards.all - shards.data

\* The parity of audio is that of the four packets its header names
\* (audioBroadcastThread).
ParityOfItsBlock ==
  \A x \in 0..DataShards - 1: parity.of[x] = (parity.base + x) % SeqNumbers

\* A client can rebuild what it gets, with the exceptions of ParityOfPercentage.
ClientCanRecover == FrameInBlocks /\ ParityOfPercentage /\ ParityOfItsBlock
=============================================================================
