--------------------------- MODULE OperatorFiles ----------------------------
(***************************************************************************)
(* The files on the operator's disk that several kaptein processes share,  *)
(* without a lock: the temporary manifest of `kaptein edit`, named for the *)
(* object's name alone (kaptein-cli, edit.rs; the dry run is apply.rs),    *)
(* and config.toml, which `kaptein extension enable|disable` reads,        *)
(* changes and writes back (kaptein-core, config.rs) and the write gate of *)
(* every other command reads.                                              *)
(*                                                                         *)
(* A manifest is [object, version, by]: the object it describes, the       *)
(* revision it was read at and the process whose operator saved it last.   *)
(* What config.toml holds is [text, cut]: a whole config, of which the     *)
(* first cut sections are there, or Garbled, which does not parse.         *)
(***************************************************************************)
EXTENDS Integers, FiniteSets, Sequences, SequencesExt

CONSTANTS
  Proc,          \* the kaptein processes
  Object,        \* objects that may be edited; they all bear one name
  Extension,     \* ids of extensions
  Context,       \* names of contexts
  MaxVersion,    \* bound on the revisions of an object
  MaxSaves       \* bound on the saves of config.toml by hand

ASSUME FilesAssumption == MaxVersion \in Nat /\ MaxSaves \in Nat

NoFile  == [none |-> "no file"]
Garbled == [none |-> "garbled"]
Piece   == [none |-> "piece"]        \* a manifest of which a part or nothing is there
NoText  == [none |-> "no text"]

VARIABLES
  live,       \* the cluster: the revision of each object
  temp,       \* the temporary manifest, or NoFile
  file,       \* config.toml
  pc,         \* where each process is
  edit,       \* what a process that edits holds, and what is known of it
  set,        \* the change a process makes to the config, and what it will write
  task,       \* the command each process runs, again and again: the two files have
              \* nothing to do with each other, a change of command adds nothing
  saves,      \* saves of config.toml by hand
  leaked,     \* history: a session ended without removing the manifest that is there
  intended,   \* history: the config saved by hand and toggled since
  raced       \* history: what disturbed a toggle: another toggle, a save by hand
              \* or a write that was cut short

editing == <<live, temp, edit, leaked>>
config  == <<file, set, saves, intended, raced>>
vars    == <<editing, config, pc, task>>
-----------------------------------------------------------------------------
Nobody   == "nobody"
Manifest == [object : Object, version : 0 .. MaxVersion, by : Proc \cup {Nobody}]
Settings == [prod : SUBSET Context, staging : SUBSET Context, disabled : SUBSET Extension]
Default  == [prod |-> {}, staging |-> {}, disabled |-> {}]

(* What a process that edits has fetched, what its editor shows, what the  *)
(* editor left (history), what was read back, the answer printed, and      *)
(* whether no other edit overlapped it so far (history).                   *)
EditLocals ==
  [current : Manifest, buffer : Manifest \cup {NoText, Piece}, saved : Manifest,
   edited : Manifest \cup {NoText, Piece},
   answer : {"none", "unchanged", "accepted", "rejected", "error"}, alone : BOOLEAN]
NoEdit == [current |-> NoText]
NoSet  == [change |-> "none"]

Changes == {"enable", "disable"} \X Extension

EditPc == {"fetched", "written", "editor", "returned", "read", "removed", "answered"}
SetPc  == {"loaded", "truncated"}

TypeOK ==
  /\ live     \in [Object -> 0 .. MaxVersion]
  /\ temp     \in Manifest \cup {NoFile, Piece}
  /\ file     \in [text : Settings, cut : 0 .. 3] \cup {NoFile, Garbled}
  /\ pc       \in [Proc -> EditPc \cup SetPc \cup {"idle"}]
  /\ \A p \in Proc : IF pc[p] \in EditPc THEN edit[p] \in EditLocals ELSE edit[p] = NoEdit
  /\ \A p \in Proc : IF pc[p] \in SetPc THEN set[p] \in [change : Changes, text : Settings]
                      ELSE set[p] = NoSet
  /\ task     \in [Proc -> {"edit", "extension"}]
  /\ saves    \in 0 .. MaxSaves
  /\ leaked   \in BOOLEAN
  /\ intended \in Settings
  /\ raced    \in SUBSET {"toggle", "save", "cut"}

Init ==
  /\ live = [o \in Object |-> 0]
  /\ temp = NoFile
  /\ file = NoFile
  /\ pc = [p \in Proc |-> "idle"]
  /\ edit = [p \in Proc |-> NoEdit]
  /\ set = [p \in Proc |-> NoSet]
  /\ task \in [Proc -> {"edit", "extension"}]
  /\ saves = 0
  /\ leaked = FALSE
  /\ intended = Default
  /\ raced = {}

Goto(p, label) == pc' = [pc EXCEPT ![p] = label]
-----------------------------------------------------------------------------
(* kaptein edit.                                                           *)

Editors == {p \in Proc : pc[p] \in EditPc}

EditEnds(p) == Goto(p, "idle") /\ edit' = [edit EXCEPT ![p] = NoEdit]

(* describe_dynamic_policy, unredacted: the live object as a manifest.     *)
Fetch(p) ==
  /\ pc[p] = "idle"
  /\ \E o \in Object :
       LET now == [object |-> o, version |-> live[o], by |-> Nobody]
       IN edit' = [q \in Proc |->
                     IF q = p THEN [current |-> now, buffer |-> NoText, saved |-> now,
                                    edited |-> NoText, answer |-> "none",
                                    alone |-> Editors = {}]
                     ELSE IF q \in Editors THEN [edit[q] EXCEPT !.alone = FALSE]
                     ELSE edit[q]]
  /\ Goto(p, "fetched")
  /\ UNCHANGED <<config, live, temp, leaked>>

\* Defect: a file that is already there is taken for this session's.
WriteTemp_KeepsOld(p) ==
  /\ pc[p] = "fetched"
  /\ temp' = IF temp = NoFile THEN edit[p].current ELSE temp
  /\ Goto(p, "written")
  /\ UNCHANGED <<config, live, edit, leaked>>

(* The file is written whether or not there is one.                        *)
WriteTemp(p) ==
  /\ pc[p] = "fetched"
  /\ temp' = edit[p].current
  /\ Goto(p, "written")
  /\ UNCHANGED <<config, live, edit, leaked>>

(* It cannot be written, or, with a full disk or a kill, in part: nobody   *)
(* removes it.                                                             *)
WriteTempFails(p) ==
  /\ pc[p] = "fetched"
  /\ \/ temp' = Piece /\ leaked' = TRUE
     \/ UNCHANGED <<temp, leaked>>
  /\ EditEnds(p)
  /\ UNCHANGED <<config, live>>

(* A session ends and the file stays.                                      *)
Leave == UNCHANGED temp /\ leaked' = (temp # NoFile)

(* remove_file; that it fails is ignored.                                  *)
RemoveFile == Leave \/ (temp' = NoFile /\ leaked' = FALSE)

(* The editor starts and reads the file; one that is gone it takes for new. *)
Launch(p) ==
  /\ pc[p] = "written"
  /\ edit' = [edit EXCEPT ![p].buffer = IF temp = NoFile THEN Piece ELSE temp]
  /\ Goto(p, "editor")
  /\ UNCHANGED <<config, live, temp, leaked>>

(* $EDITOR is empty or cannot be started: the error leaves the file.       *)
LaunchFails(p) ==
  /\ pc[p] = "written"
  /\ EditEnds(p)
  /\ Leave
  /\ UNCHANGED <<config, live>>

(* The operator changes the manifest, perhaps the object it names, and     *)
(* saves it.                                                               *)
EditorSaves(p) ==
  /\ pc[p] = "editor"
  /\ edit[p].buffer \in Manifest
  /\ \E o \in Object :
       LET text == [edit[p].buffer EXCEPT !.object = o, !.by = p]
       IN /\ temp' = text
          /\ edit' = [edit EXCEPT ![p].buffer = text, ![p].saved = text]
  /\ UNCHANGED <<config, pc, live, leaked>>

EditorQuits(p) ==
  /\ pc[p] = "editor"
  /\ edit' = [edit EXCEPT ![p].buffer = NoText]
  /\ Goto(p, "returned")
  /\ UNCHANGED <<config, live, temp, leaked>>

\* Defect: an editor that fails leaves the manifest.
EditorFails_Keeps(p) ==
  /\ pc[p] = "editor"
  /\ EditEnds(p)
  /\ UNCHANGED <<config, live, temp, leaked>>

(* A status other than success: the file goes, nothing is tried.           *)
EditorFails(p) ==
  /\ pc[p] = "editor"
  /\ RemoveFile
  /\ EditEnds(p)
  /\ UNCHANGED <<config, live>>

(* The file is read back ...                                               *)
ReadBack(p) ==
  /\ pc[p] = "returned"
  /\ temp # NoFile
  /\ edit' = [edit EXCEPT ![p].edited = temp]
  /\ Goto(p, "read")
  /\ UNCHANGED <<config, live, temp, leaked>>

(* ... which is an error if another session removed it, if what was saved  *)
(* is no UTF-8, or if it cannot be read.                                   *)
ReadBackFails(p) ==
  /\ pc[p] = "returned"
  /\ EditEnds(p)
  /\ Leave
  /\ UNCHANGED <<config, live>>

RemoveTemp(p) ==
  /\ pc[p] = "read"
  /\ RemoveFile
  /\ Goto(p, "removed")
  /\ UNCHANGED <<config, live, edit>>

(* What the session may answer: no change ends it; otherwise the server is *)
(* asked, in a dry run, about whatever object the manifest names.  A part  *)
(* of a manifest may lack blanks only, or not parse; 400 and 422 reject,   *)
(* another status is an error.                                             *)
Answers(p) ==
  CASE edit[p].edited = edit[p].current -> {"unchanged"}
    [] edit[p].edited = Piece -> {"unchanged", "accepted", "rejected", "error"}
    [] OTHER -> {"accepted", "rejected", "error"}

DryRun(p) ==
  /\ pc[p] = "removed"
  /\ \E answer \in Answers(p) : edit' = [edit EXCEPT ![p].answer = answer]
  /\ Goto(p, "answered")
  /\ UNCHANGED <<config, live, temp, leaked>>

Answered(p) ==
  /\ pc[p] = "answered"
  /\ EditEnds(p)
  /\ UNCHANGED <<config, live, temp, leaked>>

(* The process is killed with its editor.                                  *)
EditKilled(p) ==
  /\ pc[p] \in EditPc
  /\ EditEnds(p)
  /\ Leave
  /\ UNCHANGED <<config, live>>

(* Somebody else changes an object.                                        *)
Cluster ==
  /\ \E o \in Object : live[o] < MaxVersion /\ live' = [live EXCEPT ![o] = @ + 1]
  /\ UNCHANGED <<config, pc, temp, edit, leaked>>
-----------------------------------------------------------------------------
(* kaptein extension enable|disable.                                       *)

\* Defect: staging is written before prod.
Sections_StagingFirst == <<"staging", "prod", "disabled">>

(* The order in which a config is written out.                             *)
Sections == <<"prod", "staging", "disabled">>

(* load_from: a file that is absent or does not parse is the default, what *)
(* it leaves out is empty.                                                 *)
Parsed(f) ==
  IF f \in {NoFile, Garbled} THEN Default
  ELSE [s \in DOMAIN Default |-> IF SelectInSeq(Sections, LAMBDA x : x = s) <= f.cut
                                 THEN f.text[s] ELSE {}]

Setters == {p \in Proc : pc[p] \in SetPc}

(* enable takes the id out of the disabled ones, disable puts it in.       *)
Toggled(settings, c) ==
  [settings EXCEPT !.disabled = IF c[1] = "enable" THEN @ \ {c[2]} ELSE @ \cup {c[2]}]

SetEnds(p) == Goto(p, "idle") /\ set' = [set EXCEPT ![p] = NoSet]

\* Defect: the change is made to a config made anew.
Load_Fresh(p) ==
  /\ pc[p] = "idle"
  /\ \E c \in Changes : set' = [set EXCEPT ![p] = [change |-> c, text |-> Toggled(Default, c)]]
  /\ Goto(p, "loaded")
  /\ raced' = IF Setters = {} THEN raced ELSE raced \cup {"toggle"}
  /\ UNCHANGED <<editing, file, saves, intended>>

Load(p) ==
  /\ pc[p] = "idle"
  /\ \E c \in Changes :
       set' = [set EXCEPT ![p] = [change |-> c, text |-> Toggled(Parsed(file), c)]]
  /\ Goto(p, "loaded")
  /\ raced' = IF Setters = {} THEN raced ELSE raced \cup {"toggle"}
  /\ UNCHANGED <<editing, file, saves, intended>>

(* std::fs::write empties the file first ...                               *)
Truncate(p) ==
  /\ pc[p] = "loaded"
  /\ file' = [text |-> set[p].text, cut |-> 0]
  /\ Goto(p, "truncated")
  /\ UNCHANGED <<editing, set, saves, intended, raced>>

(* ... then writes from its start; what somebody else wrote meanwhile may  *)
(* show behind its end.                                                    *)
Write(p) ==
  /\ pc[p] = "truncated"
  /\ file' \in {[text |-> set[p].text, cut |-> Len(Sections)]}
              \cup (IF file = [text |-> set[p].text, cut |-> 0] THEN {} ELSE {Garbled})
  /\ intended' = Toggled(intended, set[p].change)
  /\ SetEnds(p)
  /\ UNCHANGED <<editing, saves, raced>>

(* The disk is full, or the process killed, before all of it is written:   *)
(* a prefix is left, which may end in the middle of a section.             *)
WriteCut(p) ==
  /\ pc[p] = "truncated"
  /\ file' \in {[text |-> set[p].text, cut |-> k] : k \in 0 .. Len(Sections) - 1} \cup {Garbled}
  /\ raced' = raced \cup {"cut"}
  /\ SetEnds(p)
  /\ UNCHANGED <<editing, saves, intended>>

(* The file cannot be written at all, or the process is killed before it.  *)
SetFails(p) ==
  /\ pc[p] = "loaded"
  /\ SetEnds(p)
  /\ UNCHANGED <<editing, file, saves, intended, raced>>

(* The operator edits config.toml, in a way that parses or not.            *)
SaveByHand ==
  /\ saves < MaxSaves
  /\ saves' = saves + 1
  /\ \/ \E prod, staging \in SUBSET Context :
            /\ intended' = [prod |-> prod, staging |-> staging,
                            disabled |-> Parsed(file).disabled]
            /\ file' = [text |-> intended', cut |-> Len(Sections)]
            /\ raced' = IF Setters = {} THEN raced ELSE raced \cup {"save"}
     \/ /\ file' = Garbled
        /\ raced' = raced \cup {"cut"}
        /\ UNCHANGED intended
  /\ UNCHANGED <<editing, pc, set>>
-----------------------------------------------------------------------------
Edit(p) ==
  /\ task[p] = "edit"
  /\ \/ Fetch(p) \/ WriteTemp(p) \/ WriteTempFails(p) \/ Launch(p) \/ LaunchFails(p)
     \/ EditorSaves(p) \/ EditorQuits(p) \/ EditorFails(p) \/ ReadBack(p) \/ ReadBackFails(p)
     \/ RemoveTemp(p) \/ DryRun(p) \/ Answered(p) \/ EditKilled(p)

Set(p) ==
  /\ task[p] = "extension"
  /\ Load(p) \/ Truncate(p) \/ Write(p) \/ WriteCut(p) \/ SetFails(p)

Next ==
  /\ UNCHANGED task
  /\ (\E p \in Proc : Edit(p) \/ Set(p)) \/ Cluster \/ SaveByHand

Spec == Init /\ [][Next]_vars
-----------------------------------------------------------------------------
(* An edit that no other edit overlapped answers for the operator's own    *)
(* work, whatever an earlier session left behind: it says "unchanged" only *)
(* of a manifest its editor left as fetched, and what it compares and      *)
(* sends is what the editor left.                                          *)
OwnWorkIsPreviewed ==
  \A p \in Editors :
    LET e == edit[p]
    IN pc[p] = "answered" /\ e.alone =>
         /\ e.edited = e.saved
         /\ e.edited.by \in {p, Nobody}
         /\ e.answer = "unchanged" <=> e.saved = e.current

(* A session of `kaptein edit`, against any other session, editor failure  *)
(* or kill: it works on the operator's own text.                           *)
EditsAreOwn == TypeOK /\ OwnWorkIsPreviewed

(* The manifest, which holds values in the clear, is on disk only while    *)
(* someone edits it, unless a session was killed or failed to write it, to *)
(* start the editor, to read it back or to remove it.  The next session    *)
(* of that name that gets to its end takes it away.                        *)
NothingLeftBehind ==
  temp # NoFile => leaked \/ \E p \in Proc : pc[p] \in {"written", "editor", "returned", "read"}

(* A context whose writes pass without a reason (classify, gate_write).    *)
Ungated(settings) == settings.staging \ settings.prod

(* Whatever toggles do to config.toml, two at once or cut short, the gate  *)
(* asks a reason wherever the operator's own config would ask one.         *)
GateNeverLoosened == "save" \in raced \/ Ungated(Parsed(file)) \subseteq Ungated(intended)

(* Toggles one after the other add up, and keep the rest of the config.    *)
TogglesAddUp == raced = {} /\ Setters = {} => Parsed(file) = intended
=============================================================================
