------------------------------ MODULE Snapshot ------------------------------
(***************************************************************************)
(* One frame from desktop duplication to the encoder: snapshot of          *)
(* platform/windows/display_vram.cpp, the pool of images that captureThread *)
(* lends it, and convert of the encoding device that reads the images.     *)
(*                                                                         *)
(* A picture is the version of the desktop and the version of the mouse    *)
(* cursor drawn onto it, 0 for a black desktop and for no cursor.  The     *)
(* last desktop is kept as an image that was sent, or, while a cursor has  *)
(* to be drawn, as a surface that is copied for every frame; snapshot moves *)
(* between the two.  An image is written by the capture thread and read by *)
(* the encoding thread; it is free when only the pool holds it.            *)
(***************************************************************************)
EXTENDS Integers, FiniteSets

CONSTANTS Image,     \* the slots of imgs in captureThread
          Texture,   \* capture textures, each the address of one
          MaxDesk,   \* versions of the desktop: bounds the presents
          MaxCursor  \* versions of the cursor: bounds its moves

NoImage == "none"

\* With every image at an address of its own there are two for a new texture.
ASSUME SnapshotAssumption ==
  /\ MaxDesk \in Nat \ {0} /\ MaxCursor \in Nat \ {0}
  /\ NoImage \notin Image /\ 0 \notin Texture
  /\ IsFiniteSet(Image) /\ IsFiniteSet(Texture)
  /\ Cardinality(Texture) > Cardinality(Image)

VARIABLES
  desk,      \* version of the desktop
  cursor,    \* version and visibility of the cursor
  drawing,   \* display_cursor: the user wants the cursor drawn
  pending,   \* what AcquireNextFrame will report: a present, a mouse update
  format,    \* capture_format is known
  last,      \* last_frame_variant
  surface,   \* desktop version on the intermediate surface
  img,       \* the images
  out,       \* img_out
  seen,      \* desktop, cursor and blend_mouse_cursor_flag of this snapshot
  snapPc,    \* label of the capture thread in snapshot
  todo,      \* last_frame_action, out_frame_action
  slot,      \* the image event of the encoding thread
  held,      \* the image it converts
  opened,    \* img_ctx_map: the address of the texture the encoder opened for each
             \* image, whether the image has that texture still, what it showed if not
  shown,     \* the picture it encoded last
  newest     \* the newest desktop it encoded of this pool

deskVars == <<desk, cursor, drawing, pending>>
lastVars == <<format, last, surface>>
callVars == <<out, seen, snapPc, todo>>
readVars == <<slot, held, opened, shown, newest>>
snapVars == <<deskVars, lastVars, img, callVars, readVars>>

Black   == [desk |-> 0, cursor |-> 0]
Absent  == [alloc |-> FALSE, texture |-> 0, dummy |-> FALSE, blank |-> TRUE,
            picture |-> Black]
Closed  == [texture |-> 0, own |-> FALSE, picture |-> Black]
Empty   == [kind |-> "none", image |-> NoImage]
Nothing == [desk |-> 0, cursor |-> 0, src |-> FALSE, blend |-> FALSE]

SnapInit ==
  /\ desk = 0 /\ cursor = [version |-> 0, visible |-> FALSE] /\ drawing = TRUE
  /\ pending = [frame |-> FALSE, mouse |-> FALSE]
  /\ format = FALSE /\ last = Empty /\ surface = 0
  /\ img = [i \in Image |-> Absent]
  /\ out = NoImage /\ seen = Nothing /\ snapPc = "next"
  /\ todo = [last |-> "nothing", out |-> "dummy"]
  /\ slot = NoImage /\ held = NoImage /\ opened = [i \in Image |-> Closed]
  /\ shown = Black /\ newest = 0

----------------------------------------------------------------------------
(* The desktop.                                                            *)

Present ==
  /\ desk < MaxDesk
  /\ desk' = desk + 1 /\ pending' = [pending EXCEPT !.frame = TRUE]
  /\ UNCHANGED <<cursor, drawing, lastVars, img, callVars, readVars>>

MoveCursor ==
  /\ cursor.version < MaxCursor
  /\ \E visible \in BOOLEAN:
       cursor' = [version |-> cursor.version + 1, visible |-> visible]
  /\ pending' = [pending EXCEPT !.mouse = TRUE]
  /\ UNCHANGED <<desk, drawing, lastVars, img, callVars, readVars>>

\* The shortcut of the client that shows or hides the cursor.
ToggleCursor ==
  /\ drawing' = ~drawing
  /\ UNCHANGED <<desk, cursor, pending, lastVars, img, callVars, readVars>>

----------------------------------------------------------------------------
(* snapshot: the decision.                                                 *)

\* Altered form: a surface is left in place when the cursor disappears.
ActionsKeepSurface(src, blend, known) ==
  IF ~known THEN [last |-> "nothing", out |-> "dummy"]
  ELSE IF src
    THEN IF blend THEN [last |-> "srcToSurface", out |-> "blend"]
                  ELSE [last |-> "srcToImage", out |-> "forward"]
  ELSE IF last.kind = "none" THEN [last |-> "nothing", out |-> "dummy"]
  ELSE IF blend
    THEN [last |-> IF last.kind = "image" THEN "imageToSurface" ELSE "nothing",
          out |-> "blend"]
    ELSE [last |-> "nothing", out |-> "forward"]

Actions(src, blend, known) ==
  IF ~known THEN [last |-> "nothing", out |-> "dummy"]
  ELSE IF src
    THEN IF blend THEN [last |-> "srcToSurface", out |-> "blend"]
                  ELSE [last |-> "srcToImage", out |-> "forward"]
  ELSE IF last.kind = "none" THEN [last |-> "nothing", out |-> "dummy"]
  ELSE IF blend
    THEN [last |-> IF last.kind = "image" THEN "imageToSurface" ELSE "nothing",
          out |-> "blend"]
    ELSE [last |-> IF last.kind = "surface" THEN "surfaceToImage" ELSE "nothing",
          out |-> "forward"]

\* A frame of desktop duplication: a cursor that is visible and wanted is blended.
NextFrame ==
  /\ snapPc = "next" /\ (pending.frame \/ pending.mouse)
  /\ seen' = [desk   |-> IF pending.frame THEN desk ELSE seen.desk,
              cursor |-> cursor.version,
              src    |-> pending.frame,
              blend  |-> cursor.visible /\ drawing]
  /\ pending' = [frame |-> FALSE, mouse |-> FALSE]
  /\ format' = (format \/ pending.frame)
  /\ todo' = Actions(seen'.src, seen'.blend, format')
  /\ snapPc' = "last"
  /\ UNCHANGED <<desk, cursor, drawing, last, surface, img, out, readVars>>

\* The size or the format of the desktop changed: captureThread drops the pool,
\* waits for the encoder to let go, and starts with a new display and pool.
Reinit ==
  /\ snapPc = "next" /\ pending.frame /\ held = NoImage
  /\ format' = FALSE /\ last' = Empty /\ surface' = 0
  /\ img' = [i \in Image |-> Absent] /\ slot' = NoImage
  /\ opened' = [i \in Image |-> Closed] /\ shown' = Black /\ newest' = 0
  /\ seen' = Nothing
  /\ UNCHANGED <<deskVars, out, snapPc, todo, held>>

----------------------------------------------------------------------------
(* The pool: pull_free_image_callback, complete_img.                       *)

\* Altered form: the image event does not hold its image.
InUseForgets(i) == i \in {out, held} \/ (last.kind = "image" /\ last.image = i)

\* use_count() > 1: snapshot, the image event or the encoding thread holds it.
InUse(i) == i \in {out, slot, held} \/ (last.kind = "image" /\ last.image = i)

\* Unused images come first, then slots to allocate; a full pool is waited for.
Free(i) == ~InUse(i) /\ (img[i].alloc \/ \A j \in Image: img[j].alloc => InUse(j))

\* complete_img makes a texture, unless there is one of the same kind.  It has
\* released the old one by then, so the new one may get its address, or that of a
\* texture that only the encoder has open: all that matters is whether it is the
\* address the encoder opened for this image.
Replaces(i, dummy) == img[i].texture = 0 \/ img[i].dummy # dummy
Addresses(i) == {t \in Texture: \A j \in Image \ {i}: t # img[j].texture}
NewAddress(i) ==
  {CHOOSE t \in Addresses(i): t # opened[i].texture}
    \cup (Addresses(i) \cap {opened[i].texture})
Completed(i, dummy) ==
  IF ~Replaces(i, dummy) THEN {img[i]}
  ELSE {[img[i] EXCEPT !.alloc = TRUE, !.texture = t, !.dummy = dummy,
                       !.picture = Black]: t \in NewAddress(i)}

\* The encoder keeps what it opened, and what it shows, when the texture is replaced.
Outlived(i) ==
  IF opened[i].own THEN [opened[i] EXCEPT !.own = FALSE, !.picture = img[i].picture]
  ELSE opened[i]

\* The image is written: trim_imgs drops some of the unused images as well.
Draw(i, dummy, picture) ==
  \E new \in Completed(i, dummy), trim \in {{}, {j \in Image \ {i}: ~InUse(j)}}:
    /\ img' = [j \in Image |->
         IF j = i THEN [new EXCEPT !.blank = FALSE, !.picture = picture]
         ELSE IF j \in trim THEN Absent ELSE img[j]]
    /\ opened' = [j \in Image |->
         IF j \in trim \/ (j = i /\ ~img[i].alloc) THEN Closed
         ELSE IF j = i /\ Replaces(i, dummy) THEN Outlived(i) ELSE opened[j]]

----------------------------------------------------------------------------
(* snapshot: last_frame_action, then out_frame_action.                     *)

AsImage(i) == last' = [kind |-> "image", image |-> i]
AsSurface  == last' = [kind |-> "surface", image |-> NoImage]
Plain(d)   == [desk |-> d, cursor |-> 0]

KeepLast ==
  /\ todo.last = "nothing"
  /\ UNCHANGED <<last, surface, img, opened>>

SurfaceToImage ==
  /\ todo.last = "surfaceToImage" /\ last.kind = "surface"
  /\ \E i \in Image: Free(i) /\ Draw(i, FALSE, Plain(surface)) /\ AsImage(i)
  /\ UNCHANGED surface

ImageToSurface ==
  /\ todo.last = "imageToSurface" /\ last.kind = "image"
  /\ AsSurface /\ surface' = img[last.image].picture.desk
  /\ UNCHANGED <<img, opened>>

\* last_frame_variant is given up before an image is pulled.
SrcToImage ==
  /\ todo.last = "srcToImage"
  /\ \E i \in Image:
       /\ Free(i) \/ (last.kind = "image" /\ i = last.image
                                       /\ i \notin {slot, held})
       /\ Draw(i, FALSE, Plain(seen.desk)) /\ AsImage(i)
  /\ UNCHANGED surface

SrcToSurface ==
  /\ todo.last = "srcToSurface"
  /\ AsSurface /\ surface' = seen.desk
  /\ UNCHANGED <<img, opened>>

LastFrame ==
  /\ snapPc = "last"
  /\ KeepLast \/ SurfaceToImage \/ ImageToSurface \/ SrcToImage \/ SrcToSurface
  /\ snapPc' = "out"
  /\ UNCHANGED <<deskVars, format, out, seen, todo, slot, held, shown, newest>>

ForwardLast ==
  /\ todo.out = "forward" /\ last.kind = "image"
  /\ out' = last.image
  /\ snapPc' = "push" /\ UNCHANGED <<img, opened>>

BlendCursor ==
  /\ todo.out = "blend" /\ last.kind = "surface" /\ seen.blend
  /\ \E i \in Image:
       /\ Free(i) /\ out' = i
       /\ Draw(i, FALSE, [desk |-> surface, cursor |-> seen.cursor])
  /\ snapPc' = "push"

\* A dummy that was drawn on is cleared before the cursor is drawn.
DummyFallback ==
  /\ todo.out = "dummy"
  /\ \E i \in Image:
       /\ Free(i) /\ out' = i
       /\ Draw(i, TRUE, [desk |-> 0,
                         cursor |-> IF seen.blend THEN seen.cursor ELSE 0])
  /\ snapPc' = "push"

\* The "Logical error" returns of snapshot.
LogicalError ==
  /\ \/ todo.out = "forward" /\ last.kind # "image"
     \/ todo.out = "blend" /\ (last.kind # "surface" \/ ~seen.blend)
  /\ snapPc' = "error" /\ UNCHANGED <<out, img, opened>>

OutFrame ==
  /\ snapPc = "out"
  /\ ForwardLast \/ BlendCursor \/ DummyFallback \/ LogicalError
  /\ UNCHANGED <<deskVars, lastVars, seen, todo, slot, held, shown, newest>>

\* push_captured_image_callback: the image event keeps the newest image only.
PushFrame ==
  /\ snapPc = "push"
  /\ slot' = out /\ out' = NoImage /\ snapPc' = "next"
  /\ UNCHANGED <<deskVars, lastVars, img, seen, todo, held, opened, shown, newest>>

----------------------------------------------------------------------------
(* The encoding thread: convert.                                           *)

TakeImage ==
  /\ held = NoImage /\ slot # NoImage
  /\ held' = slot /\ slot' = NoImage
  /\ UNCHANGED <<deskVars, lastVars, img, callVars, opened, shown, newest>>

\* The texture behind an address the encoder has opened was replaced by another at
\* the same address.
ReusedAddress(i) ==
  opened[i].texture # 0 /\ opened[i].texture = img[i].texture /\ ~opened[i].own

\* initialize_image_context opens the texture of the image, unless it has opened one
\* at that address before.
OpenedTexture(i) ==
  IF opened[i].texture # 0 /\ opened[i].texture = img[i].texture THEN opened[i]
  ELSE [texture |-> img[i].texture, own |-> TRUE, picture |-> Black]

\* An image is never blank here: snapshot drew on it before it was pushed.
Convert ==
  /\ held # NoImage
  /\ opened' = [opened EXCEPT ![held] = OpenedTexture(held)]
  /\ shown' = IF ReusedAddress(held) THEN opened[held].picture ELSE img[held].picture
  /\ newest' = IF shown'.desk > newest THEN shown'.desk ELSE newest
  /\ held' = NoImage
  /\ UNCHANGED <<deskVars, lastVars, img, callVars, slot>>

SnapNext ==
  \/ Present \/ MoveCursor \/ ToggleCursor
  \/ NextFrame \/ Reinit \/ LastFrame \/ OutFrame \/ PushFrame
  \/ TakeImage \/ Convert

SnapSpec == SnapInit /\ [][SnapNext]_snapVars

----------------------------------------------------------------------------
(* Properties.                                                             *)

Pictures == [desk: 0..MaxDesk, cursor: 0..MaxCursor]

\* The variables keep their types.
SnapTypeOK ==
  /\ desk \in 0..MaxDesk
  /\ cursor \in [version: 0..MaxCursor, visible: BOOLEAN]
  /\ pending \in [frame: BOOLEAN, mouse: BOOLEAN]
  /\ {drawing, format} \subseteq BOOLEAN /\ surface \in 0..MaxDesk
  /\ last \in [kind: {"none", "image", "surface"}, image: Image \cup {NoImage}]
  /\ img \in [Image -> [alloc: BOOLEAN, texture: Texture \cup {0},
                        dummy: BOOLEAN, blank: BOOLEAN, picture: Pictures]]
  /\ {out, slot, held} \subseteq Image \cup {NoImage}
  /\ seen \in [desk: 0..MaxDesk, cursor: 0..MaxCursor, src: BOOLEAN, blend: BOOLEAN]
  /\ snapPc \in {"next", "last", "out", "push", "error"}
  /\ opened \in [Image -> [texture: Texture \cup {0}, own: BOOLEAN, picture: Pictures]]
  /\ shown \in Pictures /\ newest \in 0..MaxDesk

\* The image snapshot forwards shows the desktop of the last present and the
\* cursor exactly when it is to be drawn.
ForwardsWhatIsSeen ==
  snapPc = "push" =>
    img[out].picture = [desk   |-> IF format THEN seen.desk ELSE 0,
                        cursor |-> IF seen.blend THEN seen.cursor ELSE 0]

\* Whichever way the last frame was kept, snapshot forwards what is seen and
\* takes none of its "Logical error" returns; an image that waits or is being read is
\* not drawn on (use_count of the pool); and the encoder shows no desktop older than
\* one it showed before.  Excepted is an image that changed from a dummy to a real
\* one and got the address of the dummy back: initialize_image_context, which
\* compares the addresses, keeps the dummy open and shows its black desktop.
SeenInOrder ==
  [][/\ snapPc' # "error" /\ ForwardsWhatIsSeen'
     /\ \A i \in Image: i \in {slot, held} /\ i \in {slot', held'}
          => img'[i].picture = img[i].picture
     /\ held # NoImage /\ held' = NoImage =>
          shown'.desk >= newest \/ (ReusedAddress(held) /\ shown'.desk = 0)
    ]_snapVars
=============================================================================
