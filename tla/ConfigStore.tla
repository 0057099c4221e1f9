----------------------------- MODULE ConfigStore -----------------------------
(***************************************************************************)
(* The desktop's settings: the main process's store (config.ts, main.ts)   *)
(* and what the renderer shows of it (useLanTransfer.ts).                  *)
(*                                                                         *)
(* Settings have two fields: "panel" stands for those the settings panel   *)
(* sets (relay address, name, room), "dir" for the download directory,     *)
(* which only editing the file sets.  A call runs to its next await in one *)
(* step, and a write is two: the file is truncated, then filled.           *)
(*                                                                         *)
(* External: the file system, and a process that may be killed at any      *)
(* time.  X_Bug is X with one plausible bug (README, "Mutation").          *)
(***************************************************************************)
EXTENDS Integers

CONSTANTS Values, Default,  \* values of a field; the one defaults() gives
          MaxSaves          \* saves (bounds the model)

Fields == {"panel", "dir"}
Config == [Fields -> Values]
Defaults == [f \in Fields |-> Default]
\* A file of an older version may lack a field.
Stored == UNION {[F -> Values] : F \in SUBSET Fields}

VARIABLES
  file,      \* the file: what it holds, or "absent" or "cut" (does not parse)
  call,      \* call[i]: the i-th saveConfig, see Call
  asked,     \* the renderer's getConfig has not been answered
  shown,     \* state.config, or "none"
  saves,     \* saves begun
  first,     \* the file's "dir" at the beginning (history)
  overlapped,\* two saves were under way at once (history)
  killed     \* a save was killed (history)

configVars == <<file, call, asked, shown, saves, first, overlapped, killed>>

Calls == 1..MaxSaves
NoCall == [at |-> "idle"]
Call == {NoCall} \cup [at : {"loading"}, value : Values]
        \cup [at : {"merged", "writing"}, next : Config]
None == [none |-> TRUE]
Cut == [cut |-> TRUE]
Absent == [absent |-> TRUE]

\* loadConfig: the stored fields over the defaults, or the defaults if there is no
\* file or it does not parse.
Loaded(content) == [f \in Fields |-> IF f \in DOMAIN content THEN content[f] ELSE Default]

StoreTypeOK ==
  /\ file \in Stored \cup {Cut, Absent}
  /\ \A i \in Calls : call[i] \in Call
  /\ asked \in BOOLEAN /\ overlapped \in BOOLEAN /\ killed \in BOOLEAN
  /\ shown \in Config \cup {None}
  /\ saves \in 0..MaxSaves /\ first \in Values

StoreInit ==
  /\ file \in Stored \cup {Absent}
  /\ call = [i \in Calls |-> NoCall]
  /\ asked = TRUE /\ shown = None
  /\ saves = 0 /\ first = Loaded(file)["dir"] /\ overlapped = FALSE /\ killed = FALSE

(***************************************************************************)
(* The renderer                                                            *)
(***************************************************************************)

\* getConfig, answered: boot() shows the settings and connects with them.
Boots ==
  /\ asked
  /\ asked' = FALSE
  /\ shown' = Loaded(file)
  /\ UNCHANGED <<file, call, saves, first, overlapped, killed>>

\* Save in the settings panel, which closes.
Save(i, v) ==
  /\ shown # None /\ saves < MaxSaves /\ call[i] = NoCall
  /\ call' = [call EXCEPT ![i] = [at |-> "loading", value |-> v]]
  /\ saves' = saves + 1
  /\ overlapped' = (overlapped \/ \E j \in Calls : call[j] # NoCall)
  /\ UNCHANGED <<file, asked, shown, first, killed>>

(***************************************************************************)
(* The main process                                                        *)
(***************************************************************************)

\* The patch is merged with the defaults instead of what is stored.
Merged_Defaults(content, v) == [Defaults EXCEPT !["panel"] = v]

Merged(content, v) == [Loaded(content) EXCEPT !["panel"] = v]

Merges(i) ==
  /\ call[i].at = "loading"
  /\ call' = [call EXCEPT ![i] = [at |-> "merged", next |-> Merged(file, call[i].value)]]
  /\ UNCHANGED <<file, asked, shown, saves, first, overlapped, killed>>

Truncates(i) ==
  /\ call[i].at = "merged"
  /\ file' = Cut
  /\ call' = [call EXCEPT ![i].at = "writing"]
  /\ UNCHANGED <<asked, shown, saves, first, overlapped, killed>>

\* updateConfig does not take over what was stored.
Fills_KeepsShown(i) ==
  /\ call[i].at = "writing"
  /\ file' \in {call[i].next} \cup (IF file = Cut THEN {} ELSE {Cut})
  /\ call' = [call EXCEPT ![i] = NoCall]
  /\ UNCHANGED <<asked, shown, saves, first, overlapped, killed>>

\* The file is filled, over what another call may have filled in meanwhile, whose
\* tail may stay behind; the renderer gets the result.
Fills(i) ==
  /\ call[i].at = "writing"
  /\ file' \in {call[i].next} \cup (IF file = Cut THEN {} ELSE {Cut})
  /\ shown' = call[i].next
  /\ call' = [call EXCEPT ![i] = NoCall]
  /\ UNCHANGED <<asked, saves, first, overlapped, killed>>

\* The application is killed, and started again.
Restart ==
  /\ shown # None
  /\ killed' = (killed \/ \E i \in Calls : call[i] # NoCall)
  /\ call' = [i \in Calls |-> NoCall]
  /\ asked' = TRUE /\ shown' = None
  /\ UNCHANGED <<file, saves, first, overlapped>>

StoreNext ==
  \/ Boots \/ Restart
  \/ \E i \in Calls : \/ Merges(i) \/ Truncates(i) \/ Fills(i)
                      \/ \E v \in Values : Save(i, v)

StoreSpec == StoreInit /\ [][StoreNext]_configVars

(***************************************************************************)
(* Properties (of saves that do not overlap)                               *)
(***************************************************************************)

Quiet == ~asked /\ \A i \in Calls : call[i] = NoCall

\* The settings on the screen are those the next start would find, also after the
\* application was killed in the middle of a save.
ShownIsStored == Quiet /\ ~overlapped => shown = Loaded(file)

\* Saving the panel's fields leaves the others as they are in the file, unless a
\* save was killed, or read the file while another wrote it.
OthersSurvive == Quiet /\ ~overlapped /\ ~killed => Loaded(file)["dir"] = first
=============================================================================
