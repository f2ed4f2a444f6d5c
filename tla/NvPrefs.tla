------------------------------ MODULE NvPrefs ------------------------------
(***************************************************************************)
(* The NVIDIA settings that the program changes and gives back             *)
(* (platform/windows/nvprefs): the driver's global setting for OpenGL and  *)
(* Vulkan swapchains and the power setting of the program's own profile,   *)
(* the undo data in memory and the undo file from which the next start     *)
(* recovers after an improper termination.                                 *)
(*                                                                         *)
(* A call of the driver or of the file system may fail, and the program    *)
(* may die between any two of them.  The user changes the global setting   *)
(* while the program has it not loaded; he does not choose the value of    *)
(* the program while an undo is pending: nothing tells the two apart.      *)
(***************************************************************************)
EXTENDS Integers

VARIABLES
  driver,    \* the saved settings: global swapchain setting, power setting
  session,   \* the settings loaded into the session of the driver
  undoFile,  \* nvprefs_undo.json
  undoOpen,  \* pimpl->undo_file: not made, open, or made and its handle gone
  undoData,  \* pimpl->undo_data
  found,     \* undo_data of modify_global_profile: the setting it found
  nvPc,      \* what the program does
  nvCall,    \* the round of calls it is in: start, stream, end, tool, exit
  nvOurs,    \* history: the global setting is the program's
  nvUser,    \* history: the global setting as the user left it
  nvLost     \* history: the undo file was deleted and nothing restored

nvVars == <<driver, session, undoFile, undoOpen, undoData, found, nvPc, nvCall, nvOurs,
            nvUser, nvLost>>

On       == "enabled"           \* OGL_CPL_PREFER_DXPRESENT_PREFER_ENABLED
Settings == {"notSet", "disabled", On}
NoUndo   == "noData"
NoFile   == "noFile"
Torn     == "torn"              \* empty, cut short or not to be parsed

NvInit ==
  /\ \E user \in Settings:
       driver = [global |-> user, power |-> FALSE] /\ nvUser = user
  /\ session = driver /\ undoFile = NoFile /\ undoOpen = "none"
  /\ undoData = NoUndo /\ found = NoUndo
  /\ nvPc = "down" /\ nvCall = "none" /\ nvOurs = FALSE /\ nvLost = FALSE

UserChanges ==
  /\ nvPc \in {"down", "idle"}
  /\ \E value \in Settings \ {driver.global}:
       /\ value = On => undoFile = NoFile /\ undoData = NoUndo
       /\ driver' = [driver EXCEPT !.global = value] /\ nvUser' = value
  /\ nvOurs' = FALSE /\ nvLost' = FALSE
  /\ UNCHANGED <<found, session, undoFile, undoOpen, undoData, nvPc, nvCall>>

----------------------------------------------------------------------------
(* main, streaming_will_start and restore-nvprefs-undo: load, and the first *)
(* call.  The end of main and the destructor restore from memory.          *)

Load(call, first) ==
  /\ session' = driver /\ nvCall' = call /\ nvPc' = first
  /\ UNCHANGED <<found, driver, undoFile, undoOpen, undoData, nvOurs, nvUser, nvLost>>

NvStart == nvPc = "down" /\ Load("start", "recover")
NvTool  == nvPc = "down" /\ Load("tool", "recover")

\* Nothing is recovered while the undo file is the program's own.
NvStream ==
  /\ nvPc = "idle"
  /\ Load("stream", IF undoOpen = "none" THEN "recover" ELSE "application")

NvEnd ==
  /\ nvPc = "idle"
  /\ Load("end", IF undoOpen # "none" THEN "restore" ELSE "unload")

\* Nothing can be loaded without the driver; main goes on all the same.
NvIdle ==
  /\ nvPc = "down" /\ nvPc' = "idle" /\ nvCall' = "none"
  /\ UNCHANGED <<found, driver, session, undoFile, undoOpen, undoData, nvOurs, nvUser,
                 nvLost>>

Unload ==
  /\ nvPc = "unload"
  /\ nvPc' = CASE nvCall \in {"start", "stream"} -> "idle"
               [] nvCall = "end" /\ undoOpen # "none" -> "exit"
               [] OTHER -> "down"
  /\ IF nvPc' = "down" THEN undoOpen' = "none" /\ undoData' = NoUndo
                       ELSE UNCHANGED <<undoOpen, undoData>>
  /\ UNCHANGED <<found, driver, session, undoFile, nvCall, nvOurs, nvUser, nvLost>>

\* ~nvprefs_interface tries once more.
NvExit == nvPc = "exit" /\ Load("exit", "restore")

\* The program dies.  What is in the session and in memory is gone.
NvCrash ==
  /\ nvPc # "down" /\ nvPc' = "down" /\ nvCall' = "none"
  /\ undoOpen' = "none" /\ undoData' = NoUndo
  /\ UNCHANGED <<found, driver, session, undoFile, nvOurs, nvUser, nvLost>>

----------------------------------------------------------------------------
(* driver_settings.cpp                                                     *)

\* save_settings makes the session the settings of the driver.
Save ==
  /\ driver' = session'
  /\ nvOurs' = (IF session'.global = driver.global THEN nvOurs
                                                  ELSE session'.global = On)

\* restore_global_profile_to_undo: only from the program's own value.
Restored(value) ==
  IF session.global = On THEN [session EXCEPT !.global = value] ELSE session

----------------------------------------------------------------------------
(* restore_from_and_delete_undo_file_if_exists                             *)

\* The file is deleted whether or not it could be used.
Recover ==
  /\ nvPc = "recover"
  /\ nvPc' = IF nvCall = "tool" THEN "unload" ELSE "application"
  /\ \/ /\ undoFile = NoFile
        /\ UNCHANGED <<driver, session, undoFile, nvOurs, nvLost>>
     \/ /\ undoFile # NoFile        \* it cannot be opened
        /\ UNCHANGED <<driver, session, undoFile, nvOurs, nvLost>>
     \/ /\ undoFile # NoFile
        /\ undoFile' \in {NoFile, undoFile}
        /\ \/ /\ undoFile # Torn
              /\ session' = Restored(undoFile)
              /\ \/ Save /\ UNCHANGED nvLost
                 \/ nvLost' = (nvOurs /\ (nvLost \/ undoFile' = NoFile))
                    /\ UNCHANGED <<driver, nvOurs>>
           \/ /\ undoFile = Torn \/ nvOurs
              /\ nvLost' = (nvOurs /\ (nvLost \/ undoFile' = NoFile))
              /\ UNCHANGED <<driver, session, nvOurs>>
  /\ UNCHANGED <<found, undoOpen, undoData, nvCall, nvUser>>

----------------------------------------------------------------------------
(* modify_application_profile                                              *)

\* The power setting of the profile is added or removed.
Application ==
  /\ nvPc = "application" /\ nvPc' = "global"
  /\ \/ /\ \E power \in BOOLEAN: session' = [session EXCEPT !.power = power]
        /\ IF session' # session
             THEN Save \/ UNCHANGED <<driver, nvOurs>>
             ELSE UNCHANGED <<driver, nvOurs>>
     \/ UNCHANGED <<session, driver, nvOurs>>
  /\ nvLost' = (nvLost /\ nvOurs')
  /\ UNCHANGED <<found, undoFile, undoOpen, undoData, nvCall, nvUser>>

----------------------------------------------------------------------------
(* modify_global_profile                                                   *)

\* check_and_modify_global_profile: in the session only.
Global ==
  /\ nvPc = "global"
  /\ \/ /\ session.global # On      \* the user wants it changed
        /\ session' = [session EXCEPT !.global = On]
        /\ found' = session.global /\ nvPc' = "file"
     \/ nvPc' = "unload" /\ UNCHANGED <<session, found>>
  /\ UNCHANGED <<driver, undoFile, undoOpen, undoData, nvCall, nvOurs, nvUser,
                 nvLost>>

\* load_settings reverts the session.
Revert == session' = driver /\ nvPc' = "unload"

\* The file is made once, and not over one that is there.  The undo data of now
\* replaces that of before.
MakeFile ==
  /\ nvPc = "file"
  /\ \/ /\ undoOpen = "none" /\ undoFile = NoFile
        /\ undoFile' = Torn /\ undoOpen' = "open"
        /\ undoData' = found /\ nvPc' = "truncate"
        /\ UNCHANGED session
     \/ /\ undoOpen # "none"
        /\ undoData' = found /\ nvPc' = "truncate"
        /\ UNCHANGED <<undoFile, undoOpen, session>>
     \/ /\ undoOpen = "none"
        /\ Revert /\ UNCHANGED <<undoFile, undoOpen, undoData>>
  /\ UNCHANGED <<found, driver, nvCall, nvOurs, nvUser, nvLost>>

\* write_undo_data clears the file before it writes.  A file that could not be
\* written is deleted; its object stays, without a handle.
Truncate ==
  /\ nvPc = "truncate"
  /\ \/ /\ undoOpen = "open"
        /\ undoFile' = Torn /\ nvPc' = "write"
        /\ UNCHANGED <<session, undoOpen>>
     \/ /\ undoOpen = "noHandle"
        /\ Revert /\ UNCHANGED <<undoFile, undoOpen>>
  /\ UNCHANGED <<found, driver, undoData, nvCall, nvOurs, nvUser, nvLost>>

WriteFile ==
  /\ nvPc = "write"
  /\ \/ /\ undoFile' = undoData /\ nvPc' = "save"
        /\ UNCHANGED <<session, undoOpen>>
     \/ /\ Revert
        /\ \/ undoFile' = NoFile /\ undoOpen' = "noHandle"
           \/ UNCHANGED <<undoFile, undoOpen>>
  /\ UNCHANGED <<found, driver, undoData, nvCall, nvOurs, nvUser, nvLost>>

\* The settings are saved when the undo data is on the disk.
SaveGlobal ==
  /\ nvPc = "save"
  /\ \/ /\ UNCHANGED session /\ Save /\ nvPc' = "unload"
     \/ Revert /\ UNCHANGED <<driver, nvOurs>>
  /\ UNCHANGED <<found, undoFile, undoOpen, undoData, nvCall, nvUser, nvLost>>

----------------------------------------------------------------------------
(* restore_global_profile                                                  *)

\* Altered form: the undo file is deleted before the settings are saved.
RestoreForgets ==
  \/ /\ session' = Restored(undoData) /\ UNCHANGED <<driver, nvOurs>>
     /\ undoFile' = NoFile /\ undoOpen' = "none" /\ undoData' = NoUndo
  \/ UNCHANGED <<session, driver, nvOurs, undoFile, undoOpen, undoData>>

RestoreAndDelete ==
  \/ /\ session' = Restored(undoData) /\ Save
     /\ \/ /\ undoOpen = "open"
           /\ undoFile' = NoFile /\ undoOpen' = "none" /\ undoData' = NoUndo
        \/ UNCHANGED <<undoFile, undoOpen, undoData>>
  \/ UNCHANGED <<session, driver, nvOurs, undoFile, undoOpen, undoData>>

RestoreGlobal ==
  /\ nvPc = "restore" /\ nvPc' = "unload"
  /\ IF undoData # NoUndo
       THEN RestoreAndDelete
       ELSE UNCHANGED <<session, driver, nvOurs, undoFile, undoOpen, undoData>>
  /\ UNCHANGED <<found, nvCall, nvUser, nvLost>>

NvNext ==
  \/ UserChanges \/ NvStart \/ NvTool \/ NvStream \/ NvEnd \/ NvIdle \/ Unload
  \/ NvExit \/ NvCrash
  \/ Recover \/ Application \/ Global \/ MakeFile \/ Truncate \/ WriteFile
  \/ SaveGlobal \/ RestoreGlobal

NvSpec == NvInit /\ [][NvNext]_nvVars

----------------------------------------------------------------------------
(* Properties.                                                             *)

\* The variables keep their types.
NvTypeOK ==
  /\ {driver, session} \subseteq [global: Settings, power: BOOLEAN]
  /\ undoFile \in Settings \cup {NoFile, Torn}
  /\ undoOpen \in {"none", "open", "noHandle"}
  /\ {undoData, found} \subseteq Settings \cup {NoUndo}
  /\ nvPc \in {"down", "idle", "recover", "application", "global", "file",
               "truncate", "write", "save", "restore", "unload", "exit"}
  /\ nvCall \in {"none", "start", "stream", "end", "tool", "exit"}
  /\ {nvOurs, nvLost} \subseteq BOOLEAN /\ nvUser \in Settings

\* Whenever the program dies, the driver has the user's setting, or it has the
\* program's and the undo file on the disk names the user's (the order of
\* write_undo_data, save_settings and delete_file).  The one exception is the
\* message "Failed to restore ..., deleting the file anyway".
UserSettingRecoverable ==
  /\ driver.global = IF nvOurs THEN On ELSE nvUser
  /\ nvOurs => undoFile = nvUser \/ nvLost
=============================================================================
