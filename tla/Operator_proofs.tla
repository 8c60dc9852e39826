---------------------------- MODULE Operator_proofs ---------------------------
(***************************************************************************)
(* What is promised to the operator's files, to the rules, patterns and    *)
(* environment kaptein acts by, and to the keys of the TUI: for any number *)
(* of processes, objects, extensions and contexts, any rules and patterns, *)
(* any kinds and namespaces, and any number of saves by hand and of keys.  *)
(***************************************************************************)
EXTENDS OperatorFiles, Policy, Navigation, SequenceTheorems, WellFoundedInduction, TLAPS

\* The smallest of one number is that number.
LEMMA MinOfOne ==
  ASSUME NEW i \in Nat
  PROVE  Min({i}) = i
<1>1. \E x \in {i} : \A y \in {i} : x <= y
  OBVIOUS
<1> QED  BY <1>1 DEF Min

\* Lemma: the sections of a config are written in this order.
LEMMA Places ==
  /\ SelectInSeq(Sections, LAMBDA x : x = "prod") = 1
  /\ SelectInSeq(Sections, LAMBDA x : x = "staging") = 2
  /\ SelectInSeq(Sections, LAMBDA x : x = "disabled") = 3
<1>1. /\ {i \in 1 .. Len(Sections) : Sections[i] = "prod"} = {1}
      /\ {i \in 1 .. Len(Sections) : Sections[i] = "staging"} = {2}
      /\ {i \in 1 .. Len(Sections) : Sections[i] = "disabled"} = {3}
  BY DEF Sections
<1> QED  BY <1>1, MinOfOne DEF SelectInSeq

File == [text : Settings, cut : 0 .. 3] \cup {NoFile, Garbled}

\* Lemma: what a process reads of config.toml, after a write of it that was cut short
\* anywhere: what was written in full comes back as it was, and no prefix lets more
\* contexts pass without a reason than the whole does.
LEMMA ParsedText ==
  ASSUME NEW text \in Settings, NEW k \in 0 .. 3
  PROVE  /\ [text |-> text, cut |-> k] \in File
         /\ Parsed([text |-> text, cut |-> k]) \in Settings
         /\ k = 3 => Parsed([text |-> text, cut |-> k]) = text
         /\ k = 0 => Parsed([text |-> text, cut |-> k]) = Default
         /\ Ungated(Parsed([text |-> text, cut |-> k])) \subseteq Ungated(text)
<1> DEFINE f == [text |-> text, cut |-> k]
<1>0. f \in File
  BY DEF File
<1>1. f \notin {NoFile, Garbled} /\ f.text = text /\ f.cut = k
  BY DEF NoFile, Garbled
<1>2. DOMAIN Default = {"prod", "staging", "disabled"}
  BY DEF Default
<1> HIDE DEF f
<1>3. Parsed(f) = [s \in {"prod", "staging", "disabled"} |->
                     IF SelectInSeq(Sections, LAMBDA x : x = s) <= k THEN text[s] ELSE {}]
  BY <1>1, <1>2 DEF Parsed
<1>4. /\ Parsed(f)["prod"] = IF 1 <= k THEN text["prod"] ELSE {}
      /\ Parsed(f)["staging"] = IF 2 <= k THEN text["staging"] ELSE {}
      /\ Parsed(f)["disabled"] = IF 3 <= k THEN text["disabled"] ELSE {}
  BY <1>3, Places
<1>5. Parsed(f) = [prod |-> Parsed(f)["prod"], staging |-> Parsed(f)["staging"],
                   disabled |-> Parsed(f)["disabled"]]
  BY <1>3
<1>6. text = [prod |-> text.prod, staging |-> text.staging, disabled |-> text.disabled]
      /\ text.prod \subseteq Context /\ text.staging \subseteq Context /\ text.disabled \subseteq Extension
  BY DEF Settings
<1>7. Parsed(f) \in Settings
  BY <1>4, <1>5, <1>6 DEF Settings
<1>8. k = 3 => Parsed(f) = text
  BY <1>4, <1>5, <1>6
<1>9. k = 0 => Parsed(f) = Default
  BY <1>4, <1>5 DEF Default
<1>10. Ungated(Parsed(f)) \subseteq Ungated(text)
  BY <1>4 DEF Ungated
<1> QED  BY <1>0, <1>7, <1>8, <1>9, <1>10 DEF f

\* Lemma: a config that is not there or does not parse lets nothing pass.
LEMMA ParsedNothing ==
  /\ Parsed(NoFile) = Default /\ Parsed(Garbled) = Default
  /\ Default \in Settings /\ Ungated(Default) = {}
BY DEF Parsed, Default, Settings, Ungated

\* Lemma: whatever is on disk parses.
LEMMA ParsedFile ==
  ASSUME NEW f \in File
  PROVE  Parsed(f) \in Settings
<1>1. CASE f \in {NoFile, Garbled}
  BY <1>1, ParsedNothing
<1>2. CASE f \in [text : Settings, cut : 0 .. 3]
  <2>1. f.text \in Settings /\ f.cut \in 0 .. 3 /\ f = [text |-> f.text, cut |-> f.cut]
    BY <1>2
  <2> HIDE DEF Settings
  <2> QED  BY <2>1, ParsedText
<1> QED  BY <1>1, <1>2 DEF File

\* Lemma: a toggle changes what is disabled and nothing else.
LEMMA ToggledFacts ==
  ASSUME NEW settings \in Settings, NEW c \in Changes
  PROVE  Toggled(settings, c) \in Settings /\ Ungated(Toggled(settings, c)) = Ungated(settings)
<1>1. c[2] \in Extension
  BY DEF Changes
<1> QED  BY <1>1 DEF Toggled, Settings, Ungated
-------------------------------------------------------------------------------
Toggle == [change : Changes, text : Settings]

SetTypes ==
  /\ pc \in [Proc -> EditPc \cup SetPc \cup {"idle"}]
  /\ file \in File /\ intended \in Settings /\ saves \in 0 .. MaxSaves
  /\ raced \in SUBSET {"toggle", "save", "cut"}
  /\ set \in [Proc -> Toggle \cup {NoSet}]
  /\ \A p \in Proc : IF pc[p] \in SetPc THEN set[p] \in Toggle ELSE set[p] = NoSet

\* What is on disk and what is about to be written there pass no more than the operator's
\* own config does.
GateInv ==
  "save" \notin raced =>
    /\ Ungated(Parsed(file)) \subseteq Ungated(intended)
    /\ \A p \in Setters : Ungated(set[p].text) \subseteq Ungated(intended)

\* As long as nothing disturbed a toggle: there is one at a time, it works on what is
\* intended, and that is on disk until it empties the file.
SumInv ==
  raced = {} =>
    /\ \A p, q \in Setters : p = q
    /\ Setters = {} => Parsed(file) = intended
    /\ \A p \in Setters :
         /\ set[p].text = Toggled(intended, set[p].change)
         /\ pc[p] = "loaded" => Parsed(file) = intended
         /\ pc[p] = "truncated" => file = [text |-> set[p].text, cut |-> 0]

SetInv == SetTypes /\ GateInv /\ SumInv

\* Lemma: what leaves config.toml and the toggles alone keeps what is said of them.
LEMMA SetIdle ==
  ASSUME SetInv, UNCHANGED config, pc' \in [Proc -> EditPc \cup SetPc \cup {"idle"}],
         \A p \in Proc : pc'[p] = pc[p] \/ (pc[p] \notin SetPc /\ pc'[p] \notin SetPc)
  PROVE  SetInv'
<1> USE DEF SetInv, config
<1>1. Setters' = Setters
  BY DEF Setters
<1>2. \A p \in Setters : pc'[p] = pc[p]
  BY DEF Setters
<1>3. SetTypes'
  BY DEF SetTypes
<1>4. GateInv'
  BY <1>1 DEF GateInv
<1>5. SumInv'
  BY <1>1, <1>2 DEF SumInv
<1> QED  BY <1>3, <1>4, <1>5

\* Lemma: a process that ends its toggle, and what is left of the others'.
LEMMA SetEnded ==
  ASSUME SetTypes, NEW p \in Proc, p \in Setters, SetEnds(p)
  PROVE  /\ pc' \in [Proc -> EditPc \cup SetPc \cup {"idle"}]
         /\ set' \in [Proc -> Toggle \cup {NoSet}]
         /\ \A q \in Proc : IF pc'[q] \in SetPc THEN set'[q] \in Toggle ELSE set'[q] = NoSet
         /\ Setters' = Setters \ {p}
         /\ \A q \in Setters' : set'[q] = set[q] /\ pc'[q] = pc[q]
<1>1. pc' = [pc EXCEPT ![p] = "idle"] /\ set' = [set EXCEPT ![p] = NoSet]
  BY DEF SetEnds, Goto
<1>2. \A q \in Proc : /\ pc'[q] = IF q = p THEN "idle" ELSE pc[q]
                      /\ set'[q] = IF q = p THEN NoSet ELSE set[q]
  BY <1>1 DEF SetTypes
<1>3. "idle" \notin SetPc
  BY DEF SetPc
<1> QED  BY <1>1, <1>2, <1>3 DEF SetTypes, Setters

\* Lemma: a toggle reads the file and changes what it read.
LEMMA LoadKeeps ==
  ASSUME SetInv, NEW p \in Proc, Load(p)
  PROVE  SetInv'
<1> USE DEF SetInv
<1>1. PICK c \in Changes : set' = [set EXCEPT ![p] = [change |-> c, text |-> Toggled(Parsed(file), c)]]
  BY DEF Load
<1> DEFINE text == Toggled(Parsed(file), c)
<1>2. text \in Settings /\ Ungated(text) = Ungated(Parsed(file))
  BY ParsedFile, ToggledFacts DEF SetTypes
<1>3. /\ pc[p] = "idle" /\ pc' = [pc EXCEPT ![p] = "loaded"] /\ UNCHANGED <<file, saves, intended>>
      /\ raced' = IF Setters = {} THEN raced ELSE raced \cup {"toggle"}
  BY DEF Load, Goto
<1>4. [change |-> c, text |-> text] \in Toggle
  BY <1>2 DEF Toggle
<1>5. \A q \in Proc : /\ pc'[q] = IF q = p THEN "loaded" ELSE pc[q]
                      /\ set'[q] = IF q = p THEN [change |-> c, text |-> text] ELSE set[q]
  BY <1>1, <1>3 DEF SetTypes
<1>6. "loaded" \in SetPc /\ "idle" \notin SetPc
  BY DEF SetPc
<1>7. Setters' = Setters \cup {p} /\ p \notin Setters
  BY <1>3, <1>5, <1>6 DEF Setters
<1> HIDE DEF text
<1>8. SetTypes'
  BY <1>1, <1>3, <1>4, <1>5, <1>6 DEF SetTypes, text
<1>9. GateInv'
  <2>1. SUFFICES ASSUME "save" \notin raced'
                 PROVE  /\ Ungated(Parsed(file))' \subseteq Ungated(intended)'
                        /\ \A q \in Setters' : Ungated(set'[q].text) \subseteq Ungated(intended)'
    BY DEF GateInv
  <2>2. "save" \notin raced
    BY <1>3, <2>1
  <2>3. \A q \in Setters : set'[q] = set[q]
    BY <1>5, <1>7 DEF Setters
  <2>4. Ungated(set'[p].text) = Ungated(Parsed(file))
    BY <1>2, <1>5
  <2>5. file' = file /\ intended' = intended
    BY <1>3
  <2> QED  BY <1>7, <2>2, <2>3, <2>4, <2>5 DEF GateInv
<1>10. SumInv'
  <2>1. SUFFICES ASSUME raced' = {} PROVE SumInv'
    BY DEF SumInv
  <2>2. Setters = {} /\ raced = {}
    BY <1>3, <2>1
  <2>3. Parsed(file) = intended /\ Setters' = {p}
    BY <1>7, <2>2 DEF SumInv
  <2>4. set'[p].text = Toggled(intended, set'[p].change) /\ pc'[p] = "loaded"
    BY <1>5, <2>3 DEF text
  <2>5. file' = file /\ intended' = intended
    BY <1>3
  <2> QED  BY <2>3, <2>4, <2>5 DEF SumInv
<1> QED  BY <1>8, <1>9, <1>10

\* Lemma: opening the file for writing leaves nothing that passes.
LEMMA TruncateKeeps ==
  ASSUME SetInv, NEW p \in Proc, Truncate(p)
  PROVE  SetInv'
<1> USE DEF SetInv
<1>1. /\ pc[p] = "loaded" /\ file' = [text |-> set[p].text, cut |-> 0]
      /\ pc' = [pc EXCEPT ![p] = "truncated"] /\ UNCHANGED <<set, saves, intended, raced>>
  BY DEF Truncate, Goto
<1>2. "loaded" \in SetPc /\ "truncated" \in SetPc
  BY DEF SetPc
<1>3. /\ \A q \in Proc : pc'[q] = IF q = p THEN "truncated" ELSE pc[q]
      /\ Setters' = Setters /\ p \in Setters
  BY <1>1, <1>2 DEF SetTypes, Setters
<1>4. set[p] \in Toggle /\ set[p].text \in Settings
  BY <1>1, <1>2 DEF SetTypes, Toggle
<1>5. file' \in File /\ Parsed(file') = Default
  <2>1. 0 \in 0 .. 3
    OBVIOUS
  <2> QED  BY <1>1, <1>4, <2>1, ParsedText
<1>6. SetTypes'
  BY <1>1, <1>2, <1>3, <1>5 DEF SetTypes
<1>7. GateInv'
  BY <1>1, <1>3, <1>5, ParsedNothing DEF GateInv
<1>8. SumInv'
  <2>1. SUFFICES ASSUME raced = {} PROVE SumInv'
    BY <1>1 DEF SumInv
  <2>2. \A q \in Setters : q = p
    BY <1>3, <2>1 DEF SumInv
  <2>3. set[p].text = Toggled(intended, set[p].change)
    BY <1>3, <2>1 DEF SumInv
  <2> QED  BY <1>1, <1>3, <2>2, <2>3 DEF SumInv
<1> QED  BY <1>6, <1>7, <1>8

\* Lemma: a toggle writes what it holds, whole unless another wrote in between.
LEMMA WriteKeeps ==
  ASSUME SetInv, NEW p \in Proc, Write(p)
  PROVE  SetInv'
<1> USE DEF SetInv
<1> DEFINE whole == [text |-> set[p].text, cut |-> 3]
<1>1. /\ pc[p] = "truncated" /\ SetEnds(p) /\ UNCHANGED <<saves, raced>>
      /\ intended' = Toggled(intended, set[p].change)
      /\ file' \in {whole, Garbled}
      /\ file = [text |-> set[p].text, cut |-> 0] => file' = whole
  BY DEF Write, Sections
<1>2. p \in Setters
  BY <1>1 DEF Setters, SetPc
<1>3. set[p] \in Toggle /\ set[p].text \in Settings /\ set[p].change \in Changes
  BY <1>2 DEF SetTypes, Setters, Toggle
<1>4. whole \in File /\ Parsed(whole) = set[p].text
  <2>1. 3 \in 0 .. 3
    OBVIOUS
  <2> QED  BY <1>3, <2>1, ParsedText
<1>5. intended' \in Settings /\ Ungated(intended)' = Ungated(intended)
  BY <1>1, <1>3, ToggledFacts DEF SetTypes
<1> HIDE DEF whole
<1>6. SetTypes'
  BY <1>1, <1>2, <1>4, <1>5, SetEnded DEF SetTypes, File
<1>7. GateInv'
  <2>1. SUFFICES ASSUME "save" \notin raced
                 PROVE  /\ Ungated(Parsed(file)') \subseteq Ungated(intended)
                        /\ \A q \in Setters' : Ungated(set'[q].text) \subseteq Ungated(intended)
    BY <1>1, <1>5 DEF GateInv
  <2>2. Ungated(set[p].text) \subseteq Ungated(intended)
    BY <1>2, <2>1 DEF GateInv
  <2>3. Parsed(file') = set[p].text \/ Parsed(file') = Default
    BY <1>1, <1>4, ParsedNothing
  <2>4. \A q \in Setters' : q \in Setters /\ set'[q] = set[q]
    BY <1>1, <1>2, SetEnded
  <2>5. \A q \in Setters' : Ungated(set'[q].text) \subseteq Ungated(intended)
    BY <2>1, <2>4 DEF GateInv
  <2> QED  BY <2>2, <2>3, <2>5, ParsedNothing
<1>8. SumInv'
  <2>1. SUFFICES ASSUME raced = {} PROVE SumInv'
    BY <1>1 DEF SumInv
  <2>2. Setters' = {}
    <3>1. \A q \in Setters : q = p
      BY <1>2, <2>1 DEF SumInv
    <3> QED  BY <1>1, <1>2, <3>1, SetEnded
  <2>3. file = [text |-> set[p].text, cut |-> 0] /\ set[p].text = Toggled(intended, set[p].change)
    BY <1>1, <1>2, <2>1 DEF SumInv
  <2>4. Parsed(file') = intended'
    BY <1>1, <1>4, <2>3
  <2> QED  BY <2>2, <2>4 DEF SumInv
<1> QED  BY <1>6, <1>7, <1>8

\* Lemma: a write that is cut short leaves a prefix, which lets no more pass.
LEMMA WriteCutKeeps ==
  ASSUME SetInv, NEW p \in Proc, WriteCut(p)
  PROVE  SetInv'
<1> USE DEF SetInv
<1>1. /\ pc[p] = "truncated" /\ SetEnds(p) /\ UNCHANGED <<saves, intended>>
      /\ raced' = raced \cup {"cut"}
  BY DEF WriteCut
<1>2. PICK k \in 0 .. 3 : file' \in {[text |-> set[p].text, cut |-> k], Garbled}
  BY DEF WriteCut, Sections
<1>3. p \in Setters
  BY <1>1 DEF Setters, SetPc
<1>4. set[p].text \in Settings
  BY <1>3 DEF SetTypes, Setters, Toggle
<1>5. /\ [text |-> set[p].text, cut |-> k] \in File
      /\ Ungated(Parsed([text |-> set[p].text, cut |-> k])) \subseteq Ungated(set[p].text)
  BY <1>4, ParsedText
<1>6. file' \in File /\ Ungated(Parsed(file')) \subseteq Ungated(set[p].text)
  BY <1>2, <1>5, ParsedNothing DEF File
<1>7. SetTypes'
  BY <1>1, <1>3, <1>6, SetEnded DEF SetTypes
<1>8. GateInv'
  <2>1. SUFFICES ASSUME "save" \notin raced
                 PROVE  /\ Ungated(Parsed(file')) \subseteq Ungated(intended)
                        /\ \A q \in Setters' : Ungated(set'[q].text) \subseteq Ungated(intended)
    BY <1>1 DEF GateInv
  <2>2. Ungated(set[p].text) \subseteq Ungated(intended)
    BY <1>3, <2>1 DEF GateInv
  <2>3. \A q \in Setters' : q \in Setters /\ set'[q] = set[q]
    BY <1>1, <1>3, SetEnded
  <2>4. \A q \in Setters' : Ungated(set'[q].text) \subseteq Ungated(intended)
    BY <2>1, <2>3 DEF GateInv
  <2> QED  BY <1>6, <2>2, <2>4
<1>9. SumInv'
  BY <1>1 DEF SumInv
<1> QED  BY <1>7, <1>8, <1>9

\* Lemma: a toggle that cannot write leaves the file as it was.
LEMMA SetFailsKeeps ==
  ASSUME SetInv, NEW p \in Proc, SetFails(p)
  PROVE  SetInv'
<1> USE DEF SetInv
<1>1. pc[p] = "loaded" /\ SetEnds(p) /\ UNCHANGED <<file, saves, intended, raced>>
  BY DEF SetFails
<1>2. p \in Setters
  BY <1>1 DEF Setters, SetPc
<1>3. \A q \in Setters' : q \in Setters /\ set'[q] = set[q]
  BY <1>1, <1>2, SetEnded
<1>4. SetTypes'
  BY <1>1, <1>2, SetEnded DEF SetTypes
<1>5. GateInv'
  BY <1>1, <1>3 DEF GateInv
<1>6. SumInv'
  <2>1. SUFFICES ASSUME raced = {} PROVE SumInv'
    BY <1>1 DEF SumInv
  <2>2. Setters' = {}
    <3>1. \A q \in Setters : q = p
      BY <1>2, <2>1 DEF SumInv
    <3> QED  BY <1>1, <1>2, <3>1, SetEnded
  <2>3. Parsed(file) = intended
    BY <1>1, <1>2, <2>1 DEF SumInv
  <2> QED  BY <1>1, <2>2, <2>3 DEF SumInv
<1> QED  BY <1>4, <1>5, <1>6

\* Lemma: a save by hand is what the operator intends; a broken one lets nothing pass.
LEMMA SaveByHandKeeps ==
  ASSUME SetInv, SaveByHand
  PROVE  SetInv'
<1> USE DEF SetInv
<1>1. UNCHANGED <<pc, set>> /\ saves' \in 0 .. MaxSaves
  BY FilesAssumption DEF SaveByHand, SetTypes
<1>2. Setters' = Setters
  BY <1>1 DEF Setters
<1>3. CASE file' = Garbled /\ raced' = raced \cup {"cut"} /\ UNCHANGED intended
  <2>1. SetTypes'
    BY <1>1, <1>3 DEF SetTypes, File
  <2>2. GateInv'
    BY <1>1, <1>2, <1>3, ParsedNothing DEF GateInv
  <2>3. SumInv'
    BY <1>3 DEF SumInv
  <2> QED  BY <2>1, <2>2, <2>3
<1>4. CASE \E prod, staging \in SUBSET Context :
             /\ intended' = [prod |-> prod, staging |-> staging, disabled |-> Parsed(file).disabled]
             /\ file' = [text |-> intended', cut |-> 3]
             /\ raced' = IF Setters = {} THEN raced ELSE raced \cup {"save"}
  <2>1. Parsed(file) \in Settings
    BY ParsedFile DEF SetTypes
  <2>2. intended' \in Settings
    BY <1>4, <2>1 DEF Settings
  <2>3. file' \in File /\ Parsed(file') = intended'
    <3>1. 3 \in 0 .. 3 /\ file' = [text |-> intended', cut |-> 3]
      BY <1>4
    <3> QED  BY <2>2, <3>1, ParsedText
  <2>4. SetTypes'
    BY <1>1, <1>4, <2>2, <2>3 DEF SetTypes
  <2>5. "save" \notin raced' \/ raced' = {} => Setters = {}
    BY <1>4
  <2>6. GateInv'
    BY <1>2, <2>3, <2>5 DEF GateInv
  <2>7. SumInv'
    BY <1>2, <2>3, <2>5 DEF SumInv
  <2> QED  BY <2>4, <2>6, <2>7
<1> QED  BY <1>3, <1>4 DEF SaveByHand, Sections

\* Lemma: an edit has nothing to do with config.toml.
LEMMA EditSteps ==
  ASSUME NEW p \in Proc, Edit(p), pc \in [Proc -> EditPc \cup SetPc \cup {"idle"}]
  PROVE  /\ UNCHANGED config /\ UNCHANGED live
         /\ pc' \in [Proc -> EditPc \cup SetPc \cup {"idle"}]
         /\ \A q \in Proc : pc'[q] = pc[q] \/ (pc[q] \notin SetPc /\ pc'[q] \notin SetPc)
<1> USE DEF Goto, EditEnds, EditPc, SetPc
<1>1. CASE Fetch(p) \/ WriteTemp(p) \/ WriteTempFails(p) \/ Launch(p) \/ LaunchFails(p)
  BY <1>1 DEF Fetch, WriteTemp, WriteTempFails, Launch, LaunchFails
<1>2. CASE EditorSaves(p) \/ EditorQuits(p) \/ EditorFails(p) \/ ReadBack(p) \/ ReadBackFails(p)
  BY <1>2 DEF EditorSaves, EditorQuits, EditorFails, ReadBack, ReadBackFails
<1>3. CASE RemoveTemp(p) \/ DryRun(p) \/ Answered(p) \/ EditKilled(p)
  BY <1>3 DEF RemoveTemp, DryRun, Answered, EditKilled
<1> QED  BY <1>1, <1>2, <1>3 DEF Edit

\* Lemma: the initial file is the default config, which is what is intended.
LEMMA InitSet == Init => SetInv
<1> SUFFICES ASSUME Init PROVE SetInv
  OBVIOUS
<1>1. Setters = {} /\ Parsed(file) = intended /\ intended = Default
  BY ParsedNothing DEF Init, Setters, SetPc
<1>2. SetTypes
  BY <1>1, FilesAssumption, ParsedNothing DEF Init, SetTypes, File, SetPc
<1>3. GateInv /\ SumInv
  BY <1>1 DEF GateInv, SumInv
<1> QED  BY <1>2, <1>3 DEF SetInv

\* Lemma: every step keeps what is said of config.toml.
LEMMA SetKept == SetInv /\ [Next]_vars => SetInv'
<1> SUFFICES ASSUME SetInv, [Next]_vars PROVE SetInv'
  OBVIOUS
<1>1. ASSUME NEW p \in Proc, Edit(p) PROVE SetInv'
  BY <1>1, EditSteps, SetIdle DEF SetInv, SetTypes
<1>2. ASSUME NEW p \in Proc, Set(p) PROVE SetInv'
  BY <1>2, LoadKeeps, TruncateKeeps, WriteKeeps, WriteCutKeeps, SetFailsKeeps DEF Set
<1>3. CASE Cluster
  BY <1>3, SetIdle DEF Cluster, SetInv, SetTypes
<1>4. CASE SaveByHand
  BY <1>4, SaveByHandKeeps
<1>5. CASE UNCHANGED vars
  BY <1>5, SetIdle DEF vars, SetInv, SetTypes
<1> QED  BY <1>1, <1>2, <1>3, <1>4, <1>5 DEF Next

\* Whatever toggles do to config.toml, two at once or cut short, the write gate asks a
\* reason wherever the operator's own config would (update_config, config.rs, which
\* writes the prod patterns before the staging ones), for any number of processes,
\* extensions and contexts.
THEOREM GateIsNeverLoosened == Spec => []GateNeverLoosened
<1>1. SetInv => GateNeverLoosened
  BY DEF SetInv, GateInv, GateNeverLoosened
<1> QED  BY <1>1, InitSet, SetKept, PTL DEF Spec

\* Toggles one after the other add up and keep the rest of the config (a read, a change
\* and a write of the whole file, config.rs), for any number of them.
THEOREM TogglesAlwaysAddUp == Spec => []TogglesAddUp
<1>1. SetInv => TogglesAddUp
  BY DEF SetInv, SumInv, TogglesAddUp
<1> QED  BY <1>1, InitSet, SetKept, PTL DEF Spec

-------------------------------------------------------------------------------
EditTypes ==
  /\ pc   \in [Proc -> EditPc \cup SetPc \cup {"idle"}]
  /\ live \in [Object -> 0 .. MaxVersion]
  /\ temp \in Manifest \cup {NoFile, Piece}
  /\ edit \in [Proc -> EditLocals \cup {NoEdit}]
  /\ \A p \in Proc : IF pc[p] \in EditPc THEN edit[p] \in EditLocals ELSE edit[p] = NoEdit
  /\ leaked \in BOOLEAN

Holding == {"written", "editor", "returned", "read"}

\* What a session knows to be its operator's; the file is, while nobody else edits.
Own(p) ==
  LET e == edit[p]
  IN /\ e.saved.by \in {p, Nobody}
     /\ pc[p] = "fetched" => e.saved = e.current
     /\ pc[p] = "editor" => e.buffer \in Manifest \cup {Piece}
     /\ pc[p] = "answered" => e.answer \in Answers(p)
     /\ e.alone => /\ Editors = {p}
                   /\ pc[p] \in Holding => temp = e.saved
                   /\ pc[p] \in {"read", "removed", "answered"} => e.edited = e.saved

EditInv ==
  /\ EditTypes
  /\ \A p \in Editors : Own(p)
  /\ temp # NoFile => leaked \/ \E p \in Editors : pc[p] \in Holding

\* Lemma: while a session works, no other one knows itself alone.
LEMMA NotAlone ==
  ASSUME EditInv, NEW p \in Editors, NEW q \in Editors, q # p
  PROVE  ~edit[q].alone
BY DEF EditInv, Own

\* Lemma: what a session does in its own variables and with the file is its own.
LEMMA EditMove ==
  ASSUME EditInv, NEW p \in Editors, NEW label \in EditPc, NEW e \in EditLocals,
         pc' = [pc EXCEPT ![p] = label], edit' = [edit EXCEPT ![p] = e],
         UNCHANGED live, leaked' \in BOOLEAN, temp' \in Manifest \cup {NoFile, Piece},
         e.alone = edit[p].alone, e.saved.by \in {p, Nobody},
         label # "fetched", label = "editor" => e.buffer \in Manifest \cup {Piece},
         label = "answered" => e.answer \in Answers(p)',
         e.alone => /\ label \in Holding => temp' = e.saved
                    /\ label \in {"read", "removed", "answered"} => e.edited = e.saved,
         temp' # NoFile => \/ leaked' \/ label \in Holding
                           \/ leaked' = leaked /\ temp' = temp /\ pc[p] \notin Holding
  PROVE  EditInv'
<1> USE DEF EditInv
<1>1. \A q \in Proc : /\ pc'[q] = IF q = p THEN label ELSE pc[q]
                      /\ edit'[q] = IF q = p THEN e ELSE edit[q]
  BY DEF EditTypes, Editors
<1>2. Editors' = Editors /\ p \in Proc
  BY <1>1 DEF Editors
<1>3. EditTypes'
  BY <1>1, <1>2 DEF EditTypes
<1>4. ASSUME NEW q \in Editors, q # p
      PROVE  Own(q)'
  <2>1. edit'[q] = edit[q] /\ pc'[q] = pc[q] /\ ~edit[q].alone
    BY <1>1, <1>4, NotAlone DEF Editors
  <2>2. Answers(q)' = Answers(q)
    BY <2>1 DEF Answers
  <2>3. Own(q)
    BY <1>4
  <2> QED  BY <2>1, <2>2, <2>3 DEF Own
<1>5. e.alone => Editors' = {p}
  BY <1>2 DEF Own
<1>6. edit'[p] = e /\ pc'[p] = label
  BY <1>1, <1>2
<1>7. Own(p)'
  BY <1>5, <1>6 DEF Own
<1>8. temp' # NoFile => leaked' \/ \E q \in Editors' : pc'[q] \in Holding
  <2>1. CASE label \in Holding
    BY <1>2, <1>6, <2>1
  <2>2. CASE leaked' = leaked /\ temp' = temp /\ pc[p] \notin Holding
    BY <1>1, <1>2, <2>2 DEF Editors
  <2>3. CASE leaked'
    BY <2>3
  <2> QED  BY <2>1, <2>2, <2>3
<1> QED  BY <1>2, <1>3, <1>4, <1>7, <1>8

\* Lemma: a session ends; the file it held is gone, or it is said that it was left.
LEMMA EditEnd ==
  ASSUME EditInv, NEW p \in Editors, EditEnds(p), live' = live,
         temp' \in {temp, NoFile, Piece}, leaked' \in BOOLEAN,
         temp' # NoFile => \/ leaked'
                           \/ leaked' = leaked /\ temp' = temp /\ pc[p] \notin Holding
  PROVE  EditInv'
<1> USE DEF EditInv
<1>1. pc' = [pc EXCEPT ![p] = "idle"] /\ edit' = [edit EXCEPT ![p] = NoEdit]
  BY DEF EditEnds, Goto
<1>2. \A q \in Proc : /\ pc'[q] = IF q = p THEN "idle" ELSE pc[q]
                      /\ edit'[q] = IF q = p THEN NoEdit ELSE edit[q]
  BY <1>1 DEF EditTypes, Editors
<1>3. "idle" \notin EditPc /\ p \in Proc
  BY DEF EditPc, Editors
<1>4. Editors' = Editors \ {p}
  BY <1>2, <1>3 DEF Editors
<1>5. EditTypes'
  BY <1>1, <1>2, <1>3 DEF EditTypes
<1>6. ASSUME NEW q \in Editors'
      PROVE  Own(q)'
  <2>1. /\ q \in Editors /\ edit'[q] = edit[q] /\ pc'[q] = pc[q] /\ ~edit[q].alone
    BY <1>2, <1>4, <1>6, NotAlone DEF Editors
  <2>2. Answers(q)' = Answers(q)
    BY <2>1 DEF Answers
  <2> QED  BY <2>1, <2>2 DEF Own
<1>7. temp' # NoFile => leaked' \/ \E q \in Editors' : pc'[q] \in Holding
  BY <1>2, <1>4 DEF Editors
<1> QED  BY <1>5, <1>6, <1>7

\* Lemma: what is not an edit keeps what is said of edits.
LEMMA EditIdle ==
  ASSUME EditInv, UNCHANGED <<temp, edit, leaked>>, live' \in [Object -> 0 .. MaxVersion],
         pc' \in [Proc -> EditPc \cup SetPc \cup {"idle"}],
         \A p \in Proc : pc'[p] = pc[p] \/ (pc[p] \notin EditPc /\ pc'[p] \notin EditPc)
  PROVE  EditInv'
<1> USE DEF EditInv
<1>1. Editors' = Editors /\ \A p \in Editors : pc'[p] = pc[p]
  BY DEF Editors
<1>2. EditTypes'
  BY DEF EditTypes
<1>3. \A p \in Editors : Own(p)'
  BY <1>1 DEF Own, Answers
<1> QED  BY <1>1, <1>2, <1>3

\* Lemma: a session starts alone or with others, who are then not alone any more.
LEMMA FetchKeeps ==
  ASSUME EditInv, NEW p \in Proc, Fetch(p)
  PROVE  EditInv'
<1> USE DEF EditInv
<1>1. PICK now \in Manifest :
        /\ now.by = Nobody
        /\ edit' = [q \in Proc |->
                     IF q = p THEN [current |-> now, buffer |-> NoText, saved |-> now,
                                    edited |-> NoText, answer |-> "none", alone |-> Editors = {}]
                     ELSE IF q \in Editors THEN [edit[q] EXCEPT !.alone = FALSE]
                     ELSE edit[q]]
  <2>1. \A o \in Object : [object |-> o, version |-> live[o], by |-> Nobody] \in Manifest
    BY DEF Manifest, EditTypes
  <2> QED  BY <2>1 DEF Fetch
<1>2. /\ pc[p] = "idle" /\ pc' = [pc EXCEPT ![p] = "fetched"] /\ UNCHANGED <<live, temp, leaked>>
  BY DEF Fetch, Goto
<1>3. PICK e : e = [current |-> now, buffer |-> NoText, saved |-> now, edited |-> NoText,
                    answer |-> "none", alone |-> Editors = {}]
  OBVIOUS
<1>4. e \in EditLocals /\ e.saved = now /\ e.current = now /\ (e.alone <=> Editors = {})
  BY <1>1, <1>3 DEF EditLocals
<1>5. "fetched" \in EditPc /\ "idle" \notin EditPc
  BY DEF EditPc
<1>6. /\ \A q \in Proc : pc'[q] = IF q = p THEN "fetched" ELSE pc[q]
      /\ edit'[p] = e
      /\ \A q \in Editors : edit'[q] = [edit[q] EXCEPT !.alone = FALSE]
      /\ \A q \in Proc : q # p /\ q \notin Editors => edit'[q] = edit[q]
  BY <1>1, <1>2, <1>3, <1>5 DEF EditTypes, Editors
<1>7. Editors' = Editors \cup {p} /\ p \notin Editors
  BY <1>2, <1>5, <1>6 DEF Editors
<1>8. \A q \in Editors : /\ edit[q] \in EditLocals /\ edit'[q] \in EditLocals /\ ~edit'[q].alone
                         /\ edit'[q].saved = edit[q].saved /\ edit'[q].current = edit[q].current
                         /\ edit'[q].buffer = edit[q].buffer /\ edit'[q].answer = edit[q].answer
                         /\ edit'[q].edited = edit[q].edited
  <2>1. \A q \in Editors : edit[q] \in EditLocals
    BY DEF EditTypes, Editors
  <2>2. ASSUME NEW r \in EditLocals
        PROVE  LET o == [r EXCEPT !.alone = FALSE]
               IN /\ o \in EditLocals /\ ~o.alone /\ o.saved = r.saved /\ o.current = r.current
                  /\ o.buffer = r.buffer /\ o.answer = r.answer /\ o.edited = r.edited
    BY DEF EditLocals
  <2> QED  BY <1>6, <2>1, <2>2
<1>9. EditTypes'
  <2>1. \A q \in Proc : IF pc'[q] \in EditPc THEN edit'[q] \in EditLocals ELSE edit'[q] = NoEdit
    BY <1>2, <1>4, <1>5, <1>6, <1>7, <1>8 DEF EditTypes, Editors
  <2>2. edit' = [q \in Proc |-> edit'[q]]
    BY <1>1
  <2>3. edit' \in [Proc -> EditLocals \cup {NoEdit}]
    BY <2>1, <2>2
  <2> QED  BY <1>2, <1>5, <2>1, <2>3 DEF EditTypes
<1>10. ASSUME NEW q \in Editors
       PROVE  Own(q)'
  <2>1. pc'[q] = pc[q] /\ Own(q)
    BY <1>6, <1>7 DEF Editors
  <2>2. Answers(q)' = Answers(q)
    BY <1>8 DEF Answers
  <2> QED  BY <1>8, <2>1, <2>2 DEF Own
<1>11. Own(p)'
  BY <1>1, <1>4, <1>6, <1>7 DEF Own, Holding
<1>12. temp' # NoFile => leaked' \/ \E q \in Editors' : pc'[q] \in Holding
  BY <1>2, <1>6, <1>7 DEF Editors
<1> QED  BY <1>7, <1>9, <1>10, <1>11, <1>12

\* Lemma: the steps of a session that is under way.
LEMMA SessionKeeps ==
  ASSUME EditInv, NEW p \in Proc,
         \/ WriteTemp(p) \/ WriteTempFails(p) \/ Launch(p) \/ LaunchFails(p) \/ EditorSaves(p) \/ EditorQuits(p)
         \/ EditorFails(p) \/ ReadBack(p) \/ ReadBackFails(p) \/ RemoveTemp(p) \/ DryRun(p)
         \/ Answered(p) \/ EditKilled(p)
  PROVE  EditInv'
<1> USE DEF EditInv, Goto
<1>1. p \in Editors
  <2>1. pc[p] \in EditPc
    BY DEF WriteTemp, WriteTempFails, Launch, LaunchFails, EditorSaves, EditorQuits, EditorFails, ReadBack,
           ReadBackFails, RemoveTemp, DryRun, Answered, EditKilled, EditPc
  <2> QED  BY <2>1 DEF Editors
<1>2. PICK old \in EditLocals : old = edit[p]
  BY <1>1 DEF EditTypes, Editors
<1>3. /\ old.saved.by \in {p, Nobody} /\ old.current \in Manifest /\ old.saved \in Manifest
      /\ pc[p] = "fetched" => old.saved = old.current
      /\ pc[p] = "editor" => old.buffer \in Manifest \cup {Piece}
      /\ old.alone => /\ pc[p] \in Holding => temp = old.saved
                      /\ pc[p] \in {"read", "removed", "answered"} => old.edited = old.saved
      /\ temp \in Manifest \cup {NoFile, Piece} /\ leaked \in BOOLEAN
  BY <1>1, <1>2 DEF Own, EditLocals, EditTypes
<1>4. edit = [edit EXCEPT ![p] = old]
  BY <1>2 DEF EditTypes
<1>5. CASE WriteTemp(p)
  <2>1. /\ pc[p] = "fetched" /\ temp' = old.current /\ edit' = [edit EXCEPT ![p] = old]
        /\ pc' = [pc EXCEPT ![p] = "written"] /\ UNCHANGED <<live, leaked>>
    BY <1>2, <1>4, <1>5 DEF WriteTemp
  <2>2. "written" \in EditPc /\ "written" \in Holding
    BY DEF EditPc, Holding
  <2> QED  BY ONLY <1>1, <1>2, <1>3, <2>1, <2>2, EditMove, EditInv
<1>6. CASE Launch(p)
  <2>1. PICK e : e = [old EXCEPT !.buffer = IF temp = NoFile THEN Piece ELSE temp]
    OBVIOUS
  <2>2. e \in EditLocals /\ e.saved = old.saved /\ e.alone = old.alone /\ e.buffer \in Manifest \cup {Piece}
    BY <1>3, <2>1 DEF EditLocals
  <2>3. /\ pc[p] = "written" /\ temp' = temp /\ edit' = [edit EXCEPT ![p] = e]
        /\ pc' = [pc EXCEPT ![p] = "editor"] /\ UNCHANGED <<live, leaked>>
    BY <1>2, <1>6, <2>1 DEF Launch, EditTypes
  <2>4. "editor" \in EditPc /\ "editor" \in Holding /\ "written" \in Holding
    BY DEF EditPc, Holding
  <2> QED  BY ONLY <1>1, <1>2, <1>3, <2>2, <2>3, <2>4, EditMove, EditInv
<1>7. CASE EditorSaves(p)
  <2>1. PICK o \in Object :
          /\ pc[p] = "editor" /\ old.buffer \in Manifest
          /\ temp' = [old.buffer EXCEPT !.object = o, !.by = p]
          /\ edit' = [edit EXCEPT ![p].buffer = [old.buffer EXCEPT !.object = o, !.by = p],
                                  ![p].saved = [old.buffer EXCEPT !.object = o, !.by = p]]
          /\ UNCHANGED <<pc, live, leaked>>
    BY <1>2, <1>7 DEF EditorSaves
  <2>2. PICK text : text = [old.buffer EXCEPT !.object = o, !.by = p]
    OBVIOUS
  <2>3. text \in Manifest /\ text.by = p
    BY <1>1, <1>3, <2>1, <2>2 DEF Manifest, Editors
  <2>4. PICK e : e = [old EXCEPT !.buffer = text, !.saved = text]
    OBVIOUS
  <2>5. e \in EditLocals /\ e.saved = text /\ e.alone = old.alone /\ e.buffer = text
    BY <2>3, <2>4 DEF EditLocals
  <2>6. /\ edit' = [edit EXCEPT ![p] = e] /\ pc' = [pc EXCEPT ![p] = "editor"] /\ temp' = text
        /\ pc[p] = "editor" /\ UNCHANGED <<live, leaked>>
    BY <1>1, <1>2, <2>1, <2>2, <2>4 DEF EditTypes, Editors
  <2>7. "editor" \in EditPc /\ "editor" \in Holding
    BY DEF EditPc, Holding
  <2> QED  BY ONLY <1>1, <1>2, <1>3, <2>3, <2>5, <2>6, <2>7, EditMove, EditInv
<1>8. CASE EditorQuits(p)
  <2>1. PICK e : e = [old EXCEPT !.buffer = NoText]
    OBVIOUS
  <2>2. e \in EditLocals /\ e.saved = old.saved /\ e.alone = old.alone
    BY <2>1 DEF EditLocals
  <2>3. /\ pc[p] = "editor" /\ temp' = temp /\ edit' = [edit EXCEPT ![p] = e]
        /\ pc' = [pc EXCEPT ![p] = "returned"] /\ UNCHANGED <<live, leaked>>
    BY <1>2, <1>8, <2>1 DEF EditorQuits, EditTypes
  <2>4. "returned" \in EditPc /\ "returned" \in Holding /\ "editor" \in Holding
    BY DEF EditPc, Holding
  <2> QED  BY ONLY <1>1, <1>2, <1>3, <2>2, <2>3, <2>4, EditMove, EditInv
<1>9. CASE ReadBack(p)
  <2>1. PICK e : e = [old EXCEPT !.edited = temp]
    OBVIOUS
  <2>2. /\ pc[p] = "returned" /\ temp \in Manifest \cup {Piece} /\ temp' = temp /\ edit' = [edit EXCEPT ![p] = e]
        /\ pc' = [pc EXCEPT ![p] = "read"] /\ UNCHANGED <<live, leaked>>
    BY <1>2, <1>3, <1>9, <2>1 DEF ReadBack, EditTypes
  <2>3. e \in EditLocals /\ e.saved = old.saved /\ e.alone = old.alone /\ e.edited = temp
    BY <2>1, <2>2 DEF EditLocals
  <2>4. "read" \in EditPc /\ "read" \in Holding /\ "returned" \in Holding
    BY DEF EditPc, Holding
  <2> QED  BY ONLY <1>1, <1>2, <1>3, <2>2, <2>3, <2>4, EditMove, EditInv
<1>10. CASE RemoveTemp(p)
  <2>1. /\ pc[p] = "read" /\ edit' = [edit EXCEPT ![p] = old]
        /\ pc' = [pc EXCEPT ![p] = "removed"] /\ UNCHANGED live
        /\ temp' \in {temp, NoFile} /\ leaked' = (temp' # NoFile)
    BY <1>2, <1>4, <1>10 DEF RemoveTemp, RemoveFile, Leave
  <2>2. "removed" \in EditPc /\ "removed" \notin Holding
    BY DEF EditPc, Holding
  <2> QED  BY ONLY <1>1, <1>2, <1>3, <2>1, <2>2, EditMove, EditInv
<1>11. CASE DryRun(p)
  <2>1. PICK printed \in Answers(p) : edit' = [edit EXCEPT ![p].answer = printed]
    BY <1>11 DEF DryRun
  <2>2. PICK e : e = [old EXCEPT !.answer = printed]
    OBVIOUS
  <2>3. printed \in {"unchanged", "accepted", "rejected", "error"}
    BY <2>1 DEF Answers
  <2>4. /\ e \in EditLocals /\ e.saved = old.saved /\ e.alone = old.alone
        /\ e.edited = old.edited /\ e.current = old.current /\ e.answer = printed
    BY <2>2, <2>3 DEF EditLocals
  <2>5. /\ pc[p] = "removed" /\ temp' = temp /\ edit' = [edit EXCEPT ![p] = e] /\ edit'[p] = e
        /\ pc' = [pc EXCEPT ![p] = "answered"] /\ UNCHANGED <<live, leaked>>
    BY <1>2, <1>11, <2>1, <2>2 DEF DryRun, EditTypes
  <2>6. e.answer \in Answers(p)'
    BY <1>2, <2>1, <2>4, <2>5 DEF Answers
  <2>7. /\ "answered" \in EditPc /\ "answered" \notin Holding /\ "removed" \notin Holding
        /\ "answered" # "fetched" /\ "answered" # "editor"
    BY DEF EditPc, Holding
  <2> QED  BY ONLY <1>1, <1>2, <1>3, <2>4, <2>5, <2>6, <2>7, EditMove, EditInv
<1>12. CASE WriteTempFails(p)
  <2>1. /\ EditEnds(p) /\ UNCHANGED live /\ pc[p] = "fetched"
        /\ \/ temp' = Piece /\ leaked' = TRUE
           \/ UNCHANGED <<temp, leaked>>
    BY <1>12 DEF WriteTempFails
  <2>2. "fetched" \notin Holding
    BY DEF Holding
  <2> QED  BY ONLY <1>1, <1>3, <2>1, <2>2, EditEnd, EditInv
<1>13. CASE LaunchFails(p) \/ EditorFails(p) \/ ReadBackFails(p) \/ EditKilled(p)
  <2>1. EditEnds(p) /\ UNCHANGED live /\ temp' \in {temp, NoFile} /\ leaked' = (temp' # NoFile)
    BY <1>13 DEF LaunchFails, EditorFails, ReadBackFails, EditKilled, RemoveFile, Leave
  <2> QED  BY ONLY <1>1, <2>1, EditEnd, EditInv
<1>14. CASE Answered(p)
  <2>1. EditEnds(p) /\ UNCHANGED <<live, leaked, temp>> /\ pc[p] \notin Holding
    BY <1>14 DEF Answered, Holding
  <2> QED  BY ONLY <1>1, <1>3, <2>1, EditEnd, EditInv
<1> QED
  BY <1>5, <1>6, <1>7, <1>8, <1>9, <1>10, <1>11, <1>12, <1>13, <1>14

\* Lemma: every step keeps what is said of edits.
LEMMA EditKept == EditInv /\ [Next]_vars => EditInv'
<1> SUFFICES ASSUME EditInv, [Next]_vars PROVE EditInv'
  OBVIOUS
<1>1. ASSUME NEW p \in Proc, Edit(p) PROVE EditInv'
  BY <1>1, FetchKeeps, SessionKeeps DEF Edit
<1>2. pc \in [Proc -> EditPc \cup SetPc \cup {"idle"}] /\ live \in [Object -> 0 .. MaxVersion]
  BY DEF EditInv, EditTypes
<1>3. ASSUME NEW p \in Proc, Set(p) PROVE EditInv'
  <2>1. UNCHANGED editing
    BY <1>3 DEF Set, Load, Truncate, Write, WriteCut, SetFails
  <2>2. \E label \in SetPc \cup {"idle"} : pc' = [pc EXCEPT ![p] = label]
    BY <1>3 DEF Set, Load, Truncate, Write, WriteCut, SetFails, SetEnds, Goto, SetPc
  <2>3. pc[p] \notin EditPc
    BY <1>3 DEF Set, Load, Truncate, Write, WriteCut, SetFails, EditPc
  <2>4. \A label \in SetPc \cup {"idle"} : label \notin EditPc
    BY DEF SetPc, EditPc
  <2> QED  BY <1>2, <2>1, <2>2, <2>3, <2>4, EditIdle DEF editing
<1>4. CASE Cluster
  <2>1. live' \in [Object -> 0 .. MaxVersion]
    BY <1>2, <1>4, FilesAssumption DEF Cluster
  <2> QED  BY <1>2, <1>4, <2>1, EditIdle DEF Cluster
<1>5. CASE SaveByHand \/ UNCHANGED vars
  BY <1>2, <1>5, EditIdle DEF SaveByHand, vars, editing
<1> QED  BY <1>1, <1>3, <1>4, <1>5 DEF Next

EditorInv == SetInv /\ EditInv /\ task \in [Proc -> {"edit", "extension"}]

\* Lemma: what is said of toggles and of edits holds in every state.
LEMMA EditorAlways == Spec => []EditorInv
<1>1. Init => EditorInv
  <2> SUFFICES ASSUME Init PROVE EditInv /\ task \in [Proc -> {"edit", "extension"}]
    BY InitSet DEF EditorInv
  <2>1. Editors = {} /\ \A p \in Proc : pc[p] \notin EditPc
    BY DEF Init, Editors, EditPc
  <2>2. 0 \in 0 .. MaxVersion
    BY FilesAssumption
  <2>3. EditTypes
    BY <2>1, <2>2 DEF Init, EditTypes
  <2> QED  BY <2>1, <2>3 DEF EditInv, Init
<1>2. EditorInv /\ [Next]_vars => EditorInv'
  BY SetKept, EditKept DEF Next, vars, EditorInv
<1> QED  BY <1>1, <1>2, PTL DEF Spec

\* A session of `kaptein edit` that no other overlaps previews its operator's own text,
\* whatever an earlier session left behind, and says "unchanged" only of what was left
\* unchanged (edit.rs), for any number of processes and objects.
THEOREM EditsAreAlwaysOwn == Spec => []EditsAreOwn
<1>1. EditorInv => EditsAreOwn
  <2> SUFFICES ASSUME SetInv, EditInv, task \in [Proc -> {"edit", "extension"}] PROVE EditsAreOwn
    BY DEF EditorInv
  <2>1. TypeOK
    BY DEF TypeOK, SetInv, SetTypes, EditInv, EditTypes, File, Toggle
  <2>2. ASSUME NEW p \in Editors, pc[p] = "answered", edit[p].alone
        PROVE  /\ edit[p].edited = edit[p].saved /\ edit[p].edited.by \in {p, Nobody}
               /\ edit[p].answer = "unchanged" <=> edit[p].saved = edit[p].current
    <3>1. /\ edit[p].edited = edit[p].saved /\ edit[p].saved.by \in {p, Nobody}
          /\ edit[p].answer \in Answers(p)
      BY <2>2 DEF EditInv, Own
    <3>2. edit[p].saved \in Manifest /\ \A m \in Manifest : m # Piece
      BY DEF EditInv, EditTypes, Editors, EditLocals, Manifest, Piece
    <3>3. edit[p].edited = edit[p].current => Answers(p) = {"unchanged"}
      BY <3>1, <3>2 DEF Answers
    <3>4. edit[p].edited # edit[p].current => "unchanged" \notin Answers(p)
      BY <3>1, <3>2 DEF Answers
    <3>5. edit[p].answer = "unchanged" <=> edit[p].saved = edit[p].current
      BY <3>1, <3>3, <3>4
    <3> QED  BY <3>1, <3>5
  <2>3. OwnWorkIsPreviewed
    BY <2>2 DEF OwnWorkIsPreviewed
  <2> QED  BY <2>1, <2>3 DEF EditsAreOwn
<1> QED  BY <1>1, EditorAlways, PTL

\* The manifest of `kaptein edit` is on disk only while someone edits it, unless a
\* session was killed or failed to write it, to start the editor, to read it back or to
\* remove it (edit.rs), whatever other sessions do with the file they share.
THEOREM NothingIsLeftBehind == Spec => []NothingLeftBehind
<1>1. EditorInv => NothingLeftBehind
  BY DEF EditorInv, EditInv, Holding, Editors, NothingLeftBehind
<1> QED  BY <1>1, EditorAlways, PTL
-----------------------------------------------------------------------------
(* Access: what is denied, gated or warned of.                             *)

\* A set of numbers with an element has a least one.
LEMMA MinOfSome ==
  ASSUME NEW S \in SUBSET Nat, S # {}
  PROVE  Min(S) \in S /\ \A k \in S : Min(S) <= k
<1>1. \E k \in S : \A j \in S : ~(<<j, k>> \in OpToRel(<, Nat))
  BY NatLessThanWellFounded, WFMin
<1>2. \A j, k \in S : ~(<<j, k>> \in OpToRel(<, Nat)) => k <= j
  BY DEF OpToRel
<1>3. \E k \in S : \A j \in S : k <= j
  BY <1>1, <1>2
<1> QED  BY <1>3 DEF Min

\* Lemma: whatever the review says, an action that is greyed is one whose verb it denies.
LEMMA GreyedOnAccess ==
  ASSUME CheckAccess
  PROVE  call'.op = "access" /\ GreyedIsRefused'
<1>1. PICK review \in Reviews :
        Ask("access", review,
            [actions |-> PreflightActions(review, "pods", "", Actions),
             can |-> [verb \in Verbs |->
                        review.is = "rules" /\ Can(review.rules, verb, "pods", "")]])
  BY DEF CheckAccess
<1> DEFINE actions == PreflightActions(review, "pods", "", Actions)
           can == [verb \in Verbs |->
                     review.is = "rules" /\ Can(review.rules, verb, "pods", "")]
<1>2. /\ call'.op = "access" /\ call'.given = review
      /\ answer'.actions = actions /\ answer'.can = can
  BY <1>1 DEF Ask
<1> SUFFICES ASSUME NEW a \in DOMAIN Actions, actions[a] # Actions[a]
             PROVE  /\ review.is = "rules" /\ ~ can[ActionVerb(Actions[a].id)]
                    /\ \A r \in DOMAIN review.rules :
                         ~ Permits(review.rules[r], ActionVerb(Actions[a].id))
                    /\ actions[a].missing = <<ActionVerb(Actions[a].id), "pods">>
  BY <1>2 DEF GreyedIsRefused
<1> DEFINE verb == ActionVerb(Actions[a].id)
<1>3. verb \in Verbs
  BY DEF ActionVerb, Verbs
<1>4. review.is = "rules"
  BY AccessAssumption DEF PreflightActions
<1>5. actions[a] = DowngradeForbidden(Actions[a], Preflight(review.rules, "pods", "")[verb], "pods")
  BY <1>4 DEF PreflightActions
<1>6. ~ Preflight(review.rules, "pods", "")[verb]
  BY <1>5 DEF DowngradeForbidden
<1>7. \A r \in DOMAIN review.rules : ~ Grants(review.rules[r], verb, "pods", "")
  BY <1>3, <1>6 DEF Preflight
<1>8. ~ can[verb]
  BY <1>3, <1>7 DEF Can
<1>9. \A r \in DOMAIN review.rules : ~ Permits(review.rules[r], verb)
  BY <1>7 DEF Permits, Grants
<1>10. Actions[a] \in [id : STRING, state : STRING, missing : Seq(STRING)]
  <2> DEFINE Declared == [id : STRING, state : STRING, missing : Seq(STRING)]
  <2>1. Actions \in Seq(Declared)
    BY AccessAssumption
  <2> HIDE DEF Declared
  <2>2. a \in DOMAIN Actions
    OBVIOUS
  <2>3. Actions[a] \in Declared
    BY ONLY <2>1, <2>2
  <2> QED  BY <2>3 DEF Declared
<1>11. actions[a] = [Actions[a] EXCEPT !.state = "forbidden", !.missing = <<verb, "pods">>]
  BY <1>5, <1>6 DEF DowngradeForbidden
<1> HIDE DEF actions, can, verb
<1>12. actions[a].missing = <<verb, "pods">>
  BY ONLY <1>10, <1>11
<1> QED  BY <1>4, <1>8, <1>9, <1>12 DEF verb

\* Lemma: the pattern found by a search for the first that matches a context.
LEMMA FirstMatch ==
  ASSUME NEW patterns \in Seq([valid : BOOLEAN, names : SUBSET ContextNames]), NEW context,
         MatchesAny(patterns, context),
         NEW by, by = SelectInSeq(patterns, LAMBDA p : p.valid /\ context \in p.names)
  PROVE  /\ by \in DOMAIN patterns
         /\ patterns[by].valid /\ context \in patterns[by].names
         /\ ~ MatchesAny(SubSeq(patterns, 1, by - 1), context)
<1> DEFINE I == {i \in 1 .. Len(patterns) : patterns[i].valid /\ context \in patterns[i].names}
<1>0. patterns \in Seq([valid : BOOLEAN, names : SUBSET ContextNames])
  OBVIOUS
<1>1. I \in SUBSET Nat /\ I # {}
  BY <1>0 DEF MatchesAny
<1>2. by = Min(I)
  BY <1>1 DEF SelectInSeq
<1>3. by \in I /\ \A k \in I : by <= k
  BY <1>1, <1>2, MinOfSome
<1>4. by \in 1 .. Len(patterns) /\ Len(patterns) \in Nat
  BY <1>3, <1>0
<1>5. \A i \in 1 .. by - 1 : i \in 1 .. Len(patterns) /\ i \notin I
  BY ONLY <1>3, <1>4
<1>6. /\ DOMAIN SubSeq(patterns, 1, by - 1) = 1 .. by - 1
      /\ \A i \in 1 .. by - 1 : SubSeq(patterns, 1, by - 1)[i] = patterns[i]
  BY ONLY <1>0, <1>4
<1>7. ~ MatchesAny(SubSeq(patterns, 1, by - 1), context)
  BY <1>5, <1>6 DEF MatchesAny
<1> QED  BY <1>0, <1>3, <1>7

\* Lemma: a context is gated as its patterns say, and the cause shown is the first of them.
LEMMA GatedOnExplain ==
  ASSUME ExplainGate
  PROVE  ValidConfigMeansItself' /\ ProdIsGated'
<1>1. PICK chosen \in Configs, context \in ContextNames :
        Ask("gate", [config |-> chosen, context |-> context],
            [valid |-> Validate(chosen) = {}, gate |-> ExplainContext(chosen, context),
             policy |-> ToPolicy(chosen)])
  BY DEF ExplainGate
<1> DEFINE g == chosen.guardrails
           class == Classify(g, context)
           by == ExplainContext(chosen, context).by
<1>2. /\ call'.given.config = chosen /\ call'.given.context = context
      /\ answer'.valid = (Validate(chosen) = {})
      /\ answer'.gate = ExplainContext(chosen, context)
  BY <1>1 DEF Ask
<1>3. ExplainContext(chosen, context).class = class
  BY DEF ExplainContext
<1>4. /\ g.prod \in Seq([valid : BOOLEAN, names : SUBSET ContextNames])
      /\ g.staging \in Seq([valid : BOOLEAN, names : SUBSET ContextNames])
  BY AccessAssumption
<1>5. ASSUME Validate(chosen) = {}
      PROVE  /\ class = "prod" <=> Meant(g.prod, context)
             /\ class = "staging" <=> Meant(g.staging, context) /\ ~ Meant(g.prod, context)
  <2>1. /\ \A p \in DOMAIN g.prod : g.prod[p].valid
        /\ \A p \in DOMAIN g.staging : g.staging[p].valid
    BY <1>5 DEF Validate
  <2>2. /\ MatchesAny(g.prod, context) <=> Meant(g.prod, context)
        /\ MatchesAny(g.staging, context) <=> Meant(g.staging, context)
    BY <2>1 DEF MatchesAny, Meant
  <2> QED  BY <2>2 DEF Classify
<1>6. ValidConfigMeansItself'
  BY <1>2, <1>3, <1>5 DEF ValidConfigMeansItself
<1>7. MatchesAny(g.prod, context) => class = "prod"
  BY DEF Classify
<1>8. CASE class = "prod"
  <2>1. MatchesAny(g.prod, context)
    BY <1>8 DEF Classify
  <2>2. by = SelectInSeq(g.prod, LAMBDA p : p.valid /\ context \in p.names)
    BY <1>8 DEF ExplainContext
  <2>3. /\ by \in DOMAIN g.prod /\ g.prod[by].valid /\ context \in g.prod[by].names
        /\ ~ MatchesAny(SubSeq(g.prod, 1, by - 1), context)
    BY ONLY <1>4, <2>1, <2>2, FirstMatch
  <2> QED  BY <1>2, <1>3, <1>6, <1>7, <1>8, <2>3 DEF ProdIsGated
<1>9. CASE class = "staging"
  <2>1. MatchesAny(g.staging, context)
    BY <1>9 DEF Classify
  <2>2. by = SelectInSeq(g.staging, LAMBDA p : p.valid /\ context \in p.names)
    BY <1>9 DEF ExplainContext
  <2>3. /\ by \in DOMAIN g.staging /\ g.staging[by].valid /\ context \in g.staging[by].names
        /\ ~ MatchesAny(SubSeq(g.staging, 1, by - 1), context)
    BY ONLY <1>4, <2>1, <2>2, FirstMatch
  <2> QED  BY <1>2, <1>3, <1>6, <1>7, <1>9, <2>3 DEF ProdIsGated
<1>10. CASE class \notin {"prod", "staging"}
  <2>1. class = "unknown"
    BY <1>10 DEF Classify
  <2> QED  BY <1>2, <1>3, <1>6, <1>7, <2>1 DEF ProdIsGated
<1> QED  BY <1>8, <1>9, <1>10

\* Lemma: the MCP server knows whose credentials its client carries, and takes
\* it or not by its major version.
LEMMA WarnedOnServe ==
  ASSUME ServeAgent
  PROVE  OwnCredentialsAreWarnedOf' /\ MajorsDecide'
<1>1. PICK env \in Environments, declared \in Versions :
        Ask("agent", [env |-> env, declared |-> declared],
            [start |-> StartMcp(env), accepts |-> AcceptsClient(declared)])
  BY DEF ServeAgent
<1>2. /\ call'.given.env = env /\ answer'.start = StartMcp(env)
      /\ call'.given.declared = declared /\ answer'.accepts = AcceptsClient(declared)
  BY <1>1 DEF Ask
<1>3. ASSUME env.service => env.mounted, AgentClient(env) # "error"
      PROVE  AgentIdentityResolution(env) \in {"operator_kubeconfig", "named_agent"}
               <=> AgentClient(env) = "operator"
  BY <1>3 DEF AgentIdentityResolution, AgentClient
<1>4. /\ answer'.start.credentials = AgentClient(env)
      /\ answer'.start.warned
           = (AgentIdentityResolution(env) \in {"operator_kubeconfig", "named_agent"})
  BY <1>2 DEF StartMcp
<1>5. OwnCredentialsAreWarnedOf'
  BY <1>2, <1>3, <1>4 DEF OwnCredentialsAreWarnedOf
<1>6. ASSUME NEW v \in Versions
      PROVE  /\ AcceptsClient(v) => Len(v) \in {1, 2} /\ v[1] = McpApiVersion[1]
             /\ Len(v) \in {1, 2} => (AcceptsClient(v) <=> v[1] = McpApiVersion[1])
  <2>1. CASE Len(v) \in {1, 2}
    <3>1. ParsedVersion(v) = <<v[1], IF Len(v) = 2 THEN v[2] ELSE 0>>
      BY <2>1 DEF ParsedVersion
    <3>2. ParsedVersion(v) # << >> /\ ParsedVersion(v)[1] = v[1]
      BY <3>1
    <3> QED  BY <2>1, <3>2 DEF AcceptsClient, IsCompatible
  <2>2. CASE Len(v) \notin {1, 2}
    BY <2>2 DEF ParsedVersion, AcceptsClient
  <2> QED  BY <2>1, <2>2
<1>7. AcceptsClient(declared) => declared # << >>
  <2>1. Len(<< >>) = 0
    OBVIOUS
  <2> QED  BY <1>1, <1>6, <2>1
<1>8. \A v \in Versions : AcceptsClient(v) \in BOOLEAN
  BY DEF AcceptsClient, IsCompatible
<1>9. MajorsDecide'
  BY <1>1, <1>2, <1>6, <1>7, <1>8 DEF MajorsDecide
<1> QED  BY <1>5, <1>9

\* What is denied, asked a reason for or warned of is what the rules, the patterns and the
\* environment say, for any of them: a rule may leave its lists out, a pattern may not
\* compile, and any variable may be unset or blank (preflight_actions, explain_context,
\* validate, KapteinMcp::new, check_declared_version).
THEOREM PoliciesAlwaysMean == AccessSpec => []PoliciesMeanWhatTheySay
<1>1. AccessInit => PoliciesMeanWhatTheySay
  BY DEF AccessInit, NoCall, PoliciesMeanWhatTheySay, GreyedIsRefused, ValidConfigMeansItself,
         ProdIsGated, OwnCredentialsAreWarnedOf, MajorsDecide
<1>2. PoliciesMeanWhatTheySay /\ [AccessNext]_accessVars => PoliciesMeanWhatTheySay'
  <2> SUFFICES ASSUME PoliciesMeanWhatTheySay, [AccessNext]_accessVars
               PROVE  PoliciesMeanWhatTheySay'
    OBVIOUS
  <2> USE DEF PoliciesMeanWhatTheySay
  <2>1. /\ call'.op # "access" => GreyedIsRefused'
        /\ call'.op # "gate" => ValidConfigMeansItself' /\ ProdIsGated'
        /\ call'.op # "agent" => OwnCredentialsAreWarnedOf' /\ MajorsDecide'
    BY DEF GreyedIsRefused, ValidConfigMeansItself, ProdIsGated, OwnCredentialsAreWarnedOf,
           MajorsDecide
  <2>2. CASE CheckAccess
    BY <2>1, <2>2, GreyedOnAccess
  <2>3. CASE ExplainGate
    <3>1. call'.op = "gate"
      BY <2>3 DEF ExplainGate, Ask
    <3> QED  BY <2>1, <2>3, <3>1, GatedOnExplain
  <2>4. CASE ServeAgent
    <3>1. call'.op = "agent"
      BY <2>4 DEF ServeAgent, Ask
    <3> QED  BY <2>1, <2>4, <3>1, WarnedOnServe
  <2>5. CASE Return
    <3>1. call'.op = "none"
      BY <2>5 DEF Return, NoCall
    <3> QED  BY <2>1, <3>1
  <2>6. CASE UNCHANGED accessVars
    BY <2>6 DEF accessVars, GreyedIsRefused, ValidConfigMeansItself, ProdIsGated,
                OwnCredentialsAreWarnedOf, MajorsDecide
  <2> QED  BY <2>2, <2>3, <2>4, <2>5, <2>6 DEF AccessNext
<1> QED  BY <1>1, <1>2, PTL DEF AccessSpec
-----------------------------------------------------------------------------
(* Navigation: the trail that the two stacks and the view are.             *)

TrailOf(b, here, f) == Append(b, here) \o Reverse(f)

\* Lemma: a sequence that is turned round.
LEMMA ReverseFacts ==
  ASSUME NEW S, NEW f \in Seq(S)
  PROVE  /\ Reverse(f) \in Seq(S) /\ Len(Reverse(f)) = Len(f)
         /\ \A i \in 1 .. Len(f) : Reverse(f)[i] = f[Len(f) - i + 1]
<1>1. Len(f) \in Nat /\ \A i \in 1 .. Len(f) : f[i] \in S
  BY LenProperties, ElementOfSeq
<1>2. \A i \in 1 .. Len(f) : Len(f) - i + 1 \in 1 .. Len(f)
  BY <1>1
<1>3. Reverse(f) \in [1 .. Len(f) -> S]
  BY <1>1, <1>2 DEF Reverse
<1> QED  BY <1>1, <1>3, SeqDef DEF Reverse

\* Lemma: what a trail holds, place by place.
LEMMA TrailFacts ==
  ASSUME NEW S, NEW b \in Seq(S), NEW here \in S, NEW f \in Seq(S)
  PROVE  /\ TrailOf(b, here, f) \in Seq(S)
         /\ Len(TrailOf(b, here, f)) = Len(b) + 1 + Len(f)
         /\ \A i \in 1 .. Len(b) + 1 + Len(f) :
              TrailOf(b, here, f)[i] = IF i <= Len(b) THEN b[i]
                                       ELSE IF i = Len(b) + 1 THEN here
                                       ELSE f[Len(b) + 2 + Len(f) - i]
<1>1. Len(b) \in Nat /\ Len(f) \in Nat
  OBVIOUS
<1>2. /\ Append(b, here) \in Seq(S) /\ Len(Append(b, here)) = Len(b) + 1
      /\ \A i \in 1 .. Len(b) : Append(b, here)[i] = b[i]
      /\ Append(b, here)[Len(b) + 1] = here
  BY AppendProperties
<1>3. /\ Reverse(f) \in Seq(S) /\ Len(Reverse(f)) = Len(f)
      /\ \A i \in 1 .. Len(f) : Reverse(f)[i] = f[Len(f) - i + 1]
  BY ReverseFacts
<1> DEFINE a == Append(b, here)
           r == Reverse(f)
           n == Len(b) + 1 + Len(f)
<1> HIDE DEF a, r
<1>4. a \o r \in Seq(S) /\ Len(a \o r) = Len(a) + Len(r)
      /\ \A i \in 1 .. Len(a) + Len(r) :
           (a \o r)[i] = IF i <= Len(a) THEN a[i] ELSE r[i - Len(a)]
  <2>1. a \in Seq(S) /\ r \in Seq(S)
    BY <1>2, <1>3 DEF a, r
  <2> QED  BY ONLY <2>1, ConcatProperties
<1>5. Len(a) = Len(b) + 1 /\ Len(r) = Len(f) /\ Len(a) + Len(r) = n
  BY <1>1, <1>2, <1>3 DEF a, r
<1>6. TrailOf(b, here, f) = a \o r
  BY DEF TrailOf, a, r
<1>7. ASSUME NEW i \in 1 .. n
      PROVE  (a \o r)[i] = IF i <= Len(b) THEN b[i]
                           ELSE IF i = Len(b) + 1 THEN here
                           ELSE f[Len(b) + 2 + Len(f) - i]
  <2>1. (a \o r)[i] = IF i <= Len(b) + 1 THEN a[i] ELSE r[i - (Len(b) + 1)]
    BY <1>4, <1>5
  <2>2. CASE i <= Len(b)
    BY <1>1, <1>2, <2>1, <2>2 DEF a
  <2>3. CASE i = Len(b) + 1
    BY <1>1, <1>2, <2>1, <2>3 DEF a
  <2>4. CASE i > Len(b) + 1
    <3>1. /\ i - (Len(b) + 1) \in 1 .. Len(f) /\ ~(i <= Len(b) + 1) /\ ~(i <= Len(b))
          /\ Len(f) - (i - (Len(b) + 1)) + 1 = Len(b) + 2 + Len(f) - i /\ i # Len(b) + 1
      BY <1>1, <2>4
    <3> QED  BY <1>3, <2>1, <3>1 DEF r
  <2>5. i <= Len(b) \/ i = Len(b) + 1 \/ i > Len(b) + 1
    BY <1>1
  <2> QED  BY ONLY <2>2, <2>3, <2>4, <2>5
<1> QED  BY <1>4, <1>5, <1>6, <1>7

\* Lemma: a sequence that is not empty, without its last element.
LEMMA FrontFacts ==
  ASSUME NEW S, NEW b \in Seq(S), b # << >>
  PROVE  /\ Front(b) \in Seq(S) /\ Len(Front(b)) = Len(b) - 1 /\ Len(b) \in Nat \ {0}
         /\ \A i \in 1 .. Len(b) - 1 : Front(b)[i] = b[i]
         /\ Last(b) = b[Len(b)] /\ Last(b) \in S
<1>1. Len(b) \in Nat \ {0} /\ \A i \in 1 .. Len(b) : b[i] \in S
  BY EmptySeq, LenProperties, ElementOfSeq
<1>2. 1 \in Int /\ Len(b) - 1 \in Int /\ \A i \in 1 .. Len(b) - 1 : b[i] \in S
  BY <1>1
<1>3. /\ Front(b) \in Seq(S)
      /\ Len(Front(b)) = IF 1 <= Len(b) - 1 THEN Len(b) - 1 - 1 + 1 ELSE 0
      /\ \A i \in 1 .. Len(b) - 1 - 1 + 1 : Front(b)[i] = b[1 + i - 1]
  BY ONLY <1>2, SubSeqProperties DEF Front
<1>4. ASSUME NEW m \in Nat \ {0}
      PROVE  /\ m - 1 - 1 + 1 = m - 1
             /\ (IF 1 <= m - 1 THEN m - 1 - 1 + 1 ELSE 0) = m - 1
             /\ \A i \in 1 .. m - 1 : 1 + i - 1 = i
  BY ONLY TRUE
<1>5. Last(b) = b[Len(b)] /\ Last(b) \in S
  BY <1>1 DEF Last
<1>6. Len(Front(b)) = Len(b) - 1
  BY ONLY <1>1, <1>3, <1>4
<1>7. \A i \in 1 .. Len(b) - 1 : Front(b)[i] = b[i]
  BY ONLY <1>1, <1>3, <1>4
<1> QED  BY <1>1, <1>3, <1>5, <1>6, <1>7

\* Lemma: the point on top of the back stack may as well be the one shown, with the one
\* shown on top of the forward stack: it is the same trail.
LEMMA SameTrail ==
  ASSUME NEW S, NEW b \in Seq(S), NEW here \in S, NEW f \in Seq(S), b # << >>
  PROVE  TrailOf(Front(b), Last(b), Append(f, here)) = TrailOf(b, here, f)
<1>1. /\ Front(b) \in Seq(S) /\ Len(Front(b)) = Len(b) - 1 /\ Len(b) \in Nat \ {0}
      /\ \A i \in 1 .. Len(b) - 1 : Front(b)[i] = b[i]
      /\ Last(b) = b[Len(b)] /\ Last(b) \in S
  BY FrontFacts
<1>2. /\ Append(f, here) \in Seq(S) /\ Len(Append(f, here)) = Len(f) + 1 /\ Len(f) \in Nat
      /\ \A i \in 1 .. Len(f) : Append(f, here)[i] = f[i]
      /\ Append(f, here)[Len(f) + 1] = here
  BY AppendProperties
<1> DEFINE t == TrailOf(Front(b), Last(b), Append(f, here))
           u == TrailOf(b, here, f)
           n == Len(b) + 1 + Len(f)
<1>3. /\ t \in Seq(S) /\ Len(t) = n
      /\ \A i \in 1 .. n : t[i] = IF i <= Len(b) - 1 THEN Front(b)[i]
                                  ELSE IF i = Len(b) THEN Last(b)
                                  ELSE Append(f, here)[Len(b) + 2 + Len(f) - i]
  <2>1. /\ Len(Front(b)) + 1 + Len(Append(f, here)) = n
        /\ Len(Front(b)) + 1 = Len(b)
        /\ \A i \in 1 .. n :
             Len(Front(b)) + 2 + Len(Append(f, here)) - i = Len(b) + 2 + Len(f) - i
    BY <1>1, <1>2
  <2> DEFINE c == Front(b)
             x == Last(b)
             d == Append(f, here)
  <2>2. c \in Seq(S) /\ x \in S /\ d \in Seq(S)
    BY <1>1, <1>2
  <2> HIDE DEF c, x, d
  <2>3. /\ TrailOf(c, x, d) \in Seq(S)
        /\ Len(TrailOf(c, x, d)) = Len(c) + 1 + Len(d)
        /\ \A i \in 1 .. Len(c) + 1 + Len(d) :
             TrailOf(c, x, d)[i] = IF i <= Len(c) THEN c[i]
                                   ELSE IF i = Len(c) + 1 THEN x
                                   ELSE d[Len(c) + 2 + Len(d) - i]
    BY ONLY <2>2, TrailFacts
  <2> QED  BY <1>1, <2>1, <2>3 DEF c, x, d
<1>4. /\ u \in Seq(S) /\ Len(u) = n
      /\ \A i \in 1 .. n : u[i] = IF i <= Len(b) THEN b[i]
                                  ELSE IF i = Len(b) + 1 THEN here
                                  ELSE f[Len(b) + 2 + Len(f) - i]
  BY TrailFacts
<1> HIDE DEF t, u
<1>5. ASSUME NEW i \in 1 .. n
      PROVE  t[i] = u[i]
  <2>1. CASE i <= Len(b) - 1
    <3>1. i <= Len(b) /\ i \in 1 .. Len(b) - 1
      BY <1>1, <2>1
    <3> QED  BY <1>1, <1>3, <1>4, <2>1, <3>1
  <2>2. CASE i = Len(b)
    <3>1. ~(i <= Len(b) - 1) /\ i <= Len(b)
      BY <1>1, <2>2
    <3> QED  BY <1>1, <1>3, <1>4, <2>2, <3>1
  <2>3. CASE i = Len(b) + 1
    <3>1. Len(b) + 2 + Len(f) - i = Len(f) + 1 /\ ~(i <= Len(b)) /\ i # Len(b) /\ ~(i <= Len(b) - 1)
      BY <1>1, <1>2, <2>3
    <3> QED  BY <1>2, <1>3, <1>4, <2>3, <3>1
  <2>4. CASE i > Len(b) + 1
    <3>1. /\ Len(b) + 2 + Len(f) - i \in 1 .. Len(f) /\ ~(i <= Len(b)) /\ i # Len(b)
          /\ ~(i <= Len(b) - 1) /\ i # Len(b) + 1
      BY <1>1, <1>2, <2>4
    <3> QED  BY <1>2, <1>3, <1>4, <3>1
  <2>5. i \in Nat /\ Len(b) \in Nat
    BY <1>1
  <2>6. i <= Len(b) - 1 \/ i = Len(b) \/ i = Len(b) + 1 \/ i > Len(b) + 1
    BY ONLY <2>5
  <2> QED  BY ONLY <2>1, <2>2, <2>3, <2>4, <2>6
<1>6. t = u
  BY <1>3, <1>4, <1>5, SeqEqual
<1> QED  BY <1>6 DEF t, u

\* Lemma: a stack and its top: pushed and popped, popped and pushed back.
LEMMA PushPop ==
  ASSUME NEW S, NEW b \in Seq(S)
  PROVE  /\ \A x \in S : Append(b, x) # << >> /\ Front(Append(b, x)) = b /\ Last(Append(b, x)) = x
         /\ b # << >> => Append(Front(b), Last(b)) = b
<1>1. ASSUME NEW x \in S
      PROVE  Append(b, x) # << >> /\ Front(Append(b, x)) = b /\ Last(Append(b, x)) = x
  <2> DEFINE c == Append(b, x)
  <2>1. /\ c \in Seq(S) /\ c # << >> /\ Len(c) = Len(b) + 1 /\ Len(b) \in Nat
        /\ \A i \in 1 .. Len(b) : c[i] = b[i]
        /\ c[Len(b) + 1] = x
    BY AppendProperties, LenProperties
  <2> HIDE DEF c
  <2>2. /\ Front(c) \in Seq(S) /\ Len(Front(c)) = Len(c) - 1
        /\ \A i \in 1 .. Len(c) - 1 : Front(c)[i] = c[i]
        /\ Last(c) = c[Len(c)]
    BY <2>1, FrontFacts
  <2>3. Len(c) - 1 = Len(b)
    BY <2>1
  <2>4. Front(c) = b
    BY <2>1, <2>2, <2>3, SeqEqual
  <2> QED  BY <2>1, <2>2, <2>4 DEF c
<1>2. ASSUME b # << >>
      PROVE  Append(Front(b), Last(b)) = b
  <2> DEFINE a == Front(b)
             x == Last(b)
  <2>1. /\ a \in Seq(S) /\ Len(a) = Len(b) - 1 /\ Len(b) \in Nat \ {0}
        /\ \A i \in 1 .. Len(b) - 1 : a[i] = b[i]
        /\ x = b[Len(b)] /\ x \in S
    BY <1>2, FrontFacts
  <2> HIDE DEF a, x
  <2>2. /\ Append(a, x) \in Seq(S) /\ Len(Append(a, x)) = Len(a) + 1
        /\ \A i \in 1 .. Len(a) : Append(a, x)[i] = a[i]
        /\ Append(a, x)[Len(a) + 1] = x
    BY <2>1, AppendProperties
  <2>3. Len(a) + 1 = Len(b)
    BY <2>1
  <2>4. \A i \in 1 .. Len(b) : Append(a, x)[i] = b[i]
    <3>1. \A i \in 1 .. Len(b) : i \in 1 .. Len(b) - 1 \/ i = Len(b)
      BY <2>1
    <3> QED  BY <2>1, <2>2, <2>3, <3>1
  <2>5. Append(a, x) = b
    BY <2>2, <2>3, <2>4, SeqEqual
  <2> QED  BY <2>5 DEF a, x
<1> QED  BY <1>1, <1>2

\* Lemma: the trail up to the view shown, and the trail with another view shown.
LEMMA TrailCut ==
  ASSUME NEW S, NEW b \in Seq(S), NEW here \in S, NEW f \in Seq(S), NEW new \in S
  PROVE  /\ SubSeq(TrailOf(b, here, f), 1, Len(b) + 1) = Append(b, here)
         /\ TrailOf(b, new, << >>) = Append(b, new)
         /\ [TrailOf(b, here, f) EXCEPT ![Len(b) + 1] = new] = TrailOf(b, new, f)
<1>1. /\ Append(b, here) \in Seq(S) /\ Len(Append(b, here)) = Len(b) + 1 /\ Len(b) \in Nat
      /\ Append(b, new) \in Seq(S)
  BY AppendProperties
<1>2. Reverse(f) \in Seq(S) /\ Len(f) \in Nat
  BY ReverseFacts
<1>3. SubSeq(TrailOf(b, here, f), 1, Len(b) + 1) = SubSeq(Append(b, here), 1, Len(b) + 1)
  <2>1. 1 \in 1 .. Len(Append(b, here)) /\ Len(b) + 1 \in 1 .. Len(Append(b, here))
    BY <1>1
  <2> QED  BY <1>1, <1>2, <2>1, SubSeqOfConcat1 DEF TrailOf
<1>4. SubSeq(Append(b, here), 1, Len(b) + 1) = Append(b, here)
  BY <1>1, SubSeqFull
<1>5. TrailOf(b, new, << >>) = Append(b, new)
  <2>1. Reverse(<< >>) = << >>
    BY DEF Reverse
  <2> QED  BY <1>1, <2>1, ConcatEmptySeq DEF TrailOf
<1> DEFINE t == TrailOf(b, here, f)
           u == TrailOf(b, new, f)
           n == Len(b) + 1 + Len(f)
<1>6. /\ t \in Seq(S) /\ Len(t) = n
      /\ \A i \in 1 .. n : t[i] = IF i <= Len(b) THEN b[i]
                                  ELSE IF i = Len(b) + 1 THEN here
                                  ELSE f[Len(b) + 2 + Len(f) - i]
  BY TrailFacts
<1>7. /\ u \in Seq(S) /\ Len(u) = n
      /\ \A i \in 1 .. n : u[i] = IF i <= Len(b) THEN b[i]
                                  ELSE IF i = Len(b) + 1 THEN new
                                  ELSE f[Len(b) + 2 + Len(f) - i]
  BY TrailFacts
<1> HIDE DEF t, u
<1>8. Len(b) + 1 \in 1 .. Len(t)
  BY <1>1, <1>2, <1>6
<1>9. /\ [t EXCEPT ![Len(b) + 1] = new] \in Seq(S)
      /\ Len([t EXCEPT ![Len(b) + 1] = new]) = n
      /\ \A i \in 1 .. n : [t EXCEPT ![Len(b) + 1] = new][i] = IF i = Len(b) + 1 THEN new ELSE t[i]
  BY <1>6, <1>8, ExceptSeq
<1>10. ASSUME NEW i \in 1 .. n
       PROVE  [t EXCEPT ![Len(b) + 1] = new][i] = u[i]
  <2>1. i = Len(b) + 1 => ~(i <= Len(b))
    BY <1>1
  <2>2. [t EXCEPT ![Len(b) + 1] = new][i] = IF i = Len(b) + 1 THEN new ELSE t[i]
    BY <1>9
  <2>3. /\ t[i] = IF i <= Len(b) THEN b[i] ELSE IF i = Len(b) + 1 THEN here
                 ELSE f[Len(b) + 2 + Len(f) - i]
        /\ u[i] = IF i <= Len(b) THEN b[i] ELSE IF i = Len(b) + 1 THEN new
                 ELSE f[Len(b) + 2 + Len(f) - i]
    BY <1>6, <1>7
  <2> QED  BY ONLY <2>1, <2>2, <2>3
<1>11. [t EXCEPT ![Len(b) + 1] = new] = u
  BY <1>7, <1>9, <1>10, SeqEqual
<1> QED  BY <1>3, <1>4, <1>5, <1>11 DEF t, u
-----------------------------------------------------------------------------
(* Navigation: the views that the keys lead to.                            *)

Names == {AllNamespaces} \cup UNION {Range(names) : names \in NameLists}
View  == [kind : DOMAIN Kinds, namespace : Names]

\* Lemma: the list of kinds, one by one.
LEMMA KindFacts ==
  /\ Len(Kinds) \in Nat \ {0} /\ DOMAIN Kinds = 1 .. Len(Kinds)
  /\ \A k \in DOMAIN Kinds :
       Kinds[k] \in [label : STRING, gvk : STRING, scoped : BOOLEAN, clustered : BOOLEAN,
                    columns : Nat, name : Nat \ {0}, namespace : Nat, status : Nat,
                    created : Nat]
  /\ \A j, k \in DOMAIN Kinds :
       Kinds[j].gvk = Kinds[k].gvk => Kinds[j].clustered = Kinds[k].clustered
<1> DEFINE Kind == [label : STRING, gvk : STRING, scoped : BOOLEAN, clustered : BOOLEAN,
                    columns : Nat, name : Nat \ {0}, namespace : Nat, status : Nat,
                    created : Nat]
<1>1. Kinds \in Seq(Kind) /\ Kinds # << >>
  BY NavigationAssumption
<1> HIDE DEF Kind
<1>2. /\ Len(Kinds) \in Nat \ {0} /\ DOMAIN Kinds = 1 .. Len(Kinds)
      /\ \A k \in DOMAIN Kinds : Kinds[k] \in Kind
  BY ONLY <1>1, EmptySeq, LenProperties, ElementOfSeq
<1> QED  BY <1>2, NavigationAssumption DEF Kind

\* Lemma: Tab leads to a kind of the list.
LEMMA NextKindIn ==
  ASSUME NEW k \in DOMAIN Kinds
  PROVE  NextKind(k) \in DOMAIN Kinds
<1> DEFINE I == {i \in 1 .. Len(Kinds) : Kinds[i].label = Kinds[k].label /\ Kinds[i].gvk = Kinds[k].gvk}
<1>1. Len(Kinds) \in Nat \ {0} /\ DOMAIN Kinds = 1 .. Len(Kinds)
  BY KindFacts
<1>2. I \in SUBSET Nat /\ I # {}
  BY <1>1
<1>3. Min(I) \in Nat
  BY <1>2, MinOfSome
<1>4. NextKind(k) = (Min(I) % Len(Kinds)) + 1
  BY <1>2 DEF NextKind, SelectInSeq
<1> HIDE DEF I
<1>5. \A m, n \in Nat : n # 0 => (m % n) + 1 \in 1 .. n
  OBVIOUS
<1> QED  BY <1>1, <1>3, <1>4, <1>5

\* Lemma: a gvk is found again in the list, at a kind of that gvk.
LEMMA FindKindIn ==
  ASSUME NEW gvk
  PROVE  /\ FindKind(gvk) \in DOMAIN Kinds
         /\ gvk \in {Kinds[k].gvk : k \in DOMAIN Kinds} => Kinds[FindKind(gvk)].gvk = gvk
<1> DEFINE I == {i \in 1 .. Len(Kinds) : Kinds[i].gvk = gvk}
<1>1. Len(Kinds) \in Nat \ {0} /\ DOMAIN Kinds = 1 .. Len(Kinds)
  BY KindFacts
<1>2. CASE I = {}
  <2>1. FindKind(gvk) = 1
    BY <1>2 DEF FindKind, SelectInSeq
  <2>2. gvk \notin {Kinds[k].gvk : k \in DOMAIN Kinds}
    BY <1>1, <1>2
  <2> QED  BY <1>1, <2>1, <2>2
<1>3. CASE I # {}
  <2>1. I \in SUBSET Nat
    BY <1>1
  <2>2. Min(I) \in I
    BY <1>3, <2>1, MinOfSome
  <2>3. Min(I) \in 1 .. Len(Kinds) /\ Kinds[Min(I)].gvk = gvk /\ Min(I) # 0
    BY <2>2, <1>1
  <2>4. FindKind(gvk) = Min(I)
    BY <1>3, <2>3 DEF FindKind, SelectInSeq
  <2> QED  BY <1>1, <2>3, <2>4
<1> QED  BY <1>2, <1>3

\* Lemma: n leads to all namespaces or to one of the list.
LEMMA CycleIn ==
  ASSUME NEW names \in NameLists, NEW current
  PROVE  CycleNamespace(names, current) \in Names
<1> DEFINE S == STRING \cup {AllNamespaces}
           all  == <<AllNamespaces>>
           ring == all \o names
           I == {i \in 1 .. Len(ring) : ring[i] = current}
           i == IF I = {} THEN 1 ELSE Min(I)
<1>1. names \in Seq(S)
  BY NavigationAssumption, SeqMonotonic
<1>2. all \in Seq(S) /\ Len(all) = 1 /\ all[1] = AllNamespaces
  OBVIOUS
<1>3. CycleNamespace(names, current) = ring[((IF SelectInSeq(ring, LAMBDA n : n = current) = 0 THEN 1
                                              ELSE SelectInSeq(ring, LAMBDA n : n = current)) % Len(ring)) + 1]
  BY DEF CycleNamespace
<1>4. SelectInSeq(ring, LAMBDA n : n = current) = IF I = {} THEN 0 ELSE Min(I)
  BY DEF SelectInSeq
<1> HIDE DEF S, all
<1>5. /\ ring \in Seq(S) /\ Len(ring) = 1 + Len(names) /\ Len(names) \in Nat
      /\ \A j \in 1 .. Len(ring) : ring[j] = IF j <= 1 THEN all[j] ELSE names[j - 1]
  BY ONLY <1>1, <1>2, ConcatProperties, LenProperties
<1> HIDE DEF ring
<1>6. \A j \in 1 .. Len(ring) : ring[j] \in Names
  <2>1. \A j \in 1 .. Len(names) : names[j] \in Range(names)
    BY ONLY <1>1, LenProperties DEF Range
  <2>2. AllNamespaces \in Names /\ Range(names) \subseteq Names
    BY DEF Names
  <2> SUFFICES ASSUME NEW j \in 1 .. Len(ring) PROVE ring[j] \in Names
    OBVIOUS
  <2>3. j = 1 \/ (j - 1 \in 1 .. Len(names) /\ ~(j <= 1))
    BY ONLY <1>5, j \in 1 .. Len(ring)
  <2>4. CASE j = 1
    <3>1. ring[j] = all[j] /\ j <= 1
      BY ONLY <1>5, <2>4, j \in 1 .. Len(ring)
    <3> QED  BY ONLY <1>2, <2>2, <2>4, <3>1
  <2>5. CASE j - 1 \in 1 .. Len(names) /\ ~(j <= 1)
    <3>1. ring[j] = names[j - 1]
      BY ONLY <1>5, <2>5, j \in 1 .. Len(ring)
    <3> QED  BY ONLY <2>1, <2>2, <2>5, <3>1
  <2> QED  BY ONLY <2>3, <2>4, <2>5
<1>7. i \in Nat \ {0} /\ i = IF I = {} THEN 1 ELSE Min(I)
  <2>1. I \in SUBSET Nat /\ 0 \notin I
    BY ONLY <1>5
  <2> HIDE DEF I
  <2>2. CASE I = {}
    BY ONLY <2>2
  <2>3. CASE I # {}
    <3>1. Min(I) \in I
      BY <2>1, <2>3, MinOfSome
    <3>2. i = Min(I)
      BY ONLY <2>3
    <3> HIDE DEF i
    <3>3. i \in I
      BY ONLY <3>1, <3>2
    <3> QED  BY ONLY <2>1, <2>3, <3>2, <3>3
  <2> QED  BY ONLY <2>2, <2>3
<1> HIDE DEF I
<1>8. CycleNamespace(names, current) = ring[(i % Len(ring)) + 1]
  <2>1. (IF I = {} THEN 0 ELSE Min(I)) = 0 <=> I = {}
    BY ONLY <1>7
  <2> QED  BY ONLY <1>3, <1>4, <1>7, <2>1
<1> HIDE DEF i
<1>9. (i % Len(ring)) + 1 \in 1 .. Len(ring)
  <2>1. \A m, n \in Nat : n # 0 => (m % n) + 1 \in 1 .. n
    BY ONLY TRUE
  <2>2. Len(ring) \in Nat /\ Len(ring) # 0
    BY ONLY <1>5
  <2> QED  BY ONLY <1>7, <2>1, <2>2
<1> QED  BY ONLY <1>6, <1>8, <1>9

\* Lemma: views and what the history keeps of them.
LEMMA PointFacts ==
  /\ \A v \in View : NavPoint(v) \in Points
  /\ \A p \in Points : ViewOf(p) \in View /\ NavPoint(ViewOf(p)) = p
  /\ \A v \in View : Listable(v) => Listable(ViewOf(NavPoint(v)))
  /\ \A v \in View : ToNextKind(v) \in View /\ (Kinds[ToNextKind(v).kind].scoped => Listable(ToNextKind(v)))
  /\ \A v \in View, names \in NameLists :
       ToNextNamespace(names, v) \in View /\ ToNextNamespace(names, v).kind = v.kind
<1>1. \A v \in View : NavPoint(v) \in Points
  BY DEF View, NavPoint, Points, Names
<1>2. ASSUME NEW p \in Points
      PROVE  ViewOf(p) \in View /\ NavPoint(ViewOf(p)) = p
  <2>1. p.gvk \in {Kinds[k].gvk : k \in DOMAIN Kinds} /\ p.namespace \in Names
        /\ p = [gvk |-> p.gvk, namespace |-> p.namespace]
    BY DEF Points, Names
  <2>2. FindKind(p.gvk) \in DOMAIN Kinds /\ Kinds[FindKind(p.gvk)].gvk = p.gvk
    BY <2>1, FindKindIn
  <2> QED  BY <2>1, <2>2 DEF ViewOf, View, NavPoint
<1>3. ASSUME NEW v \in View, Listable(v)
      PROVE  Listable(ViewOf(NavPoint(v)))
  <2>1. v.kind \in DOMAIN Kinds
    BY DEF View
  <2>2. /\ ViewOf(NavPoint(v)).kind = FindKind(Kinds[v.kind].gvk)
        /\ ViewOf(NavPoint(v)).namespace = v.namespace
    BY DEF ViewOf, NavPoint
  <2>3. /\ FindKind(Kinds[v.kind].gvk) \in DOMAIN Kinds
        /\ Kinds[FindKind(Kinds[v.kind].gvk)].gvk = Kinds[v.kind].gvk
    BY <2>1, FindKindIn
  <2>4. Kinds[FindKind(Kinds[v.kind].gvk)].clustered = Kinds[v.kind].clustered
    BY <2>1, <2>3, KindFacts
  <2> QED  BY <1>3, <2>2, <2>4 DEF Listable
<1>4. ASSUME NEW v \in View
      PROVE  ToNextKind(v) \in View /\ (Kinds[ToNextKind(v).kind].scoped => Listable(ToNextKind(v)))
  <2>1. v.kind \in DOMAIN Kinds /\ v.namespace \in Names /\ AllNamespaces \in Names
    BY DEF View, Names
  <2>2. NextKind(v.kind) \in DOMAIN Kinds
    BY <2>1, NextKindIn
  <2> QED  BY <2>1, <2>2 DEF ToNextKind, View, Listable
<1>5. ASSUME NEW v \in View, NEW names \in NameLists
      PROVE  ToNextNamespace(names, v) \in View /\ ToNextNamespace(names, v).kind = v.kind
  <2>1. CycleNamespace(names, v.namespace) \in Names
    BY CycleIn
  <2> QED  BY <2>1 DEF ToNextNamespace, View
<1> QED  BY <1>1, <1>2, <1>3, <1>4, <1>5
-----------------------------------------------------------------------------
(* Navigation: the invariant.  Whatever the keys, the TUI runs only while  *)
(* it shows a view that has a list, so that only such views are recorded.  *)

Listed == {p \in Points : Listable(ViewOf(p))}
Streak   == [target : Targets, times : Nat \ {0}, sort : Nat, descending : BOOLEAN]

Route ==
  /\ view \in View
  /\ back \in Seq(Listed) /\ forward \in Seq(Listed)
  /\ running \in BOOLEAN /\ (running => Listable(view))

Order ==
  /\ sort \in Nat /\ descending \in BOOLEAN
  /\ streak = NoStreak \/ streak \in Streak

NavigationIInv == Route /\ Order /\ LastSortKeyWins

\* Lemma: listing a view or the next namespace leads to a view, and the TUI
\* goes on only if that has a list.
LEMMA RebuildKeeps ==
  /\ \A v \in View : Rebuild(v) =>
       /\ view' = v /\ running' \in BOOLEAN /\ (running' => Listable(view'))
       /\ UNCHANGED <<sort, descending>> /\ streak' = NoStreak
  /\ view \in View /\ RebuildNextNamespace =>
       /\ view' \in View /\ view'.kind = view.kind
       /\ running' \in BOOLEAN /\ (running' => Listable(view'))
       /\ UNCHANGED <<sort, descending>> /\ (streak' = NoStreak \/ UNCHANGED <<streak, view>>)
<1>1. ASSUME NEW v \in View, Rebuild(v)
      PROVE  /\ view' = v /\ running' \in BOOLEAN /\ (running' => Listable(view'))
             /\ UNCHANGED <<sort, descending>> /\ streak' = NoStreak
  BY <1>1 DEF Rebuild, Listable
<1>2. ASSUME view \in View, RebuildNextNamespace
      PROVE  /\ view' \in View /\ view'.kind = view.kind
             /\ running' \in BOOLEAN /\ (running' => Listable(view'))
             /\ UNCHANGED <<sort, descending>>
             /\ streak' = NoStreak \/ UNCHANGED <<streak, view>>
  <2>1. CASE \E names \in NameLists : Rebuild(ToNextNamespace(names, view))
    <3>1. PICK names \in NameLists : Rebuild(ToNextNamespace(names, view))
      BY <2>1
    <3>2. ToNextNamespace(names, view) \in View /\ ToNextNamespace(names, view).kind = view.kind
      BY <1>2, PointFacts
    <3> QED  BY <1>1, <3>1, <3>2
  <2>2. CASE running' = FALSE /\ UNCHANGED <<view, sorting>>
    BY <1>2, <2>2 DEF sorting
  <2> QED  BY <1>2, <2>1, <2>2 DEF RebuildNextNamespace
<1> QED  BY <1>1, <1>2

\* Lemma: what is recorded of a view that has a list, and what comes back.
LEMMA StackFacts ==
  ASSUME Route
  PROVE  /\ running => NavPoint(view) \in Listed
         /\ \A p \in Listed : Append(back, p) \in Seq(Listed) /\ Append(forward, p) \in Seq(Listed)
         /\ back # << >> => Front(back) \in Seq(Listed) /\ Last(back) \in Listed
         /\ forward # << >> => Front(forward) \in Seq(Listed) /\ Last(forward) \in Listed
         /\ \A p \in Listed : ViewOf(p) \in View /\ NavPoint(ViewOf(p)) = p
<1>1. view \in View /\ back \in Seq(Listed) /\ forward \in Seq(Listed)
  BY DEF Route
<1>2. running => NavPoint(view) \in Listed
  BY <1>1, PointFacts DEF Route, Listed
<1>3. \A p \in Listed : ViewOf(p) \in View /\ NavPoint(ViewOf(p)) = p
  BY PointFacts DEF Listed
<1> QED  BY <1>1, <1>2, <1>3, AppendProperties, FrontFacts

\* Lemma: every key keeps Route.
LEMMA RouteStays == Route /\ [NavigationNext]_navigationVars => Route'
<1> SUFFICES ASSUME Route, [NavigationNext]_navigationVars PROVE Route'
  OBVIOUS
<1>1. /\ view \in View /\ back \in Seq(Listed) /\ forward \in Seq(Listed)
      /\ running \in BOOLEAN /\ (running => Listable(view))
  BY DEF Route
<1>2. << >> \in Seq(Listed)
  BY EmptySeq
<1>3. ASSUME Key, RecordNav
      PROVE  back' \in Seq(Listed) /\ forward' \in Seq(Listed)
  BY <1>2, <1>3, StackFacts DEF Key, RecordNav
<1>4. ToNextKind(view) \in View
  BY <1>1, PointFacts
<1>5. ASSUME NEW v \in View, Rebuild(v)
      PROVE  view' \in View /\ running' \in BOOLEAN /\ (running' => Listable(view'))
  BY <1>5, RebuildKeeps
<1>6. ASSUME RebuildNextNamespace
      PROVE  view' \in View /\ running' \in BOOLEAN /\ (running' => Listable(view'))
  BY <1>1, <1>6, RebuildKeeps
<1>7. CASE Tab
  BY <1>3, <1>4, <1>5, <1>7 DEF Tab, Route
<1>8. CASE Namespace
  BY <1>3, <1>6, <1>8 DEF Namespace, Route
<1>9. CASE Back
  <2>1. Key /\ back # << >> /\ back' = Front(back) /\ forward' = Append(forward, NavPoint(view))
        /\ Rebuild(ViewOf(Last(back)))
    BY <1>9 DEF Back
  <2>2. back' \in Seq(Listed) /\ forward' \in Seq(Listed) /\ ViewOf(Last(back)) \in View
    BY <2>1, StackFacts DEF Key
  <2> QED  BY <1>5, <2>1, <2>2 DEF Route
<1>10. CASE Forward
  <2>1. Key /\ forward # << >> /\ forward' = Front(forward) /\ back' = Append(back, NavPoint(view))
        /\ Rebuild(ViewOf(Last(forward)))
    BY <1>10 DEF Forward
  <2>2. back' \in Seq(Listed) /\ forward' \in Seq(Listed) /\ ViewOf(Last(forward)) \in View
    BY <2>1, StackFacts DEF Key
  <2> QED  BY <1>5, <2>1, <2>2 DEF Route
<1>11. CASE PaletteKind
  BY <1>1, <1>4, <1>5, <1>11 DEF PaletteKind, stacks, Route
<1>12. CASE PaletteNamespace
  BY <1>1, <1>6, <1>12 DEF PaletteNamespace, stacks, Route
<1>13. CASE CycleSort \/ ToggleDirection \/ \E target \in Targets : NamedSort(target)
  <2>1. SortKey
    BY <1>13 DEF CycleSort, ToggleDirection, NamedSort
  <2>2. UNCHANGED <<view, back, forward, running>>
    BY <2>1 DEF SortKey, stacks
  <2> QED  BY <1>1, <2>2 DEF Route, Listable
<1>14. CASE UNCHANGED navigationVars
  <2>1. UNCHANGED <<view, back, forward, running>>
    BY <1>14 DEF navigationVars, stacks
  <2> QED  BY <1>1, <2>1 DEF Route, Listable
<1> QED
  BY <1>7, <1>8, <1>9, <1>10, <1>11, <1>12, <1>13, <1>14 DEF NavigationNext


\* Lemma: a key that chooses no order leaves the order as it is, and no sort
\* key counts as pressed last once the view may have changed.
LEMMA ViewKeysKeepOrder ==
  ASSUME Route, Tab \/ Namespace \/ Back \/ Forward \/ PaletteKind \/ PaletteNamespace
  PROVE  UNCHANGED <<sort, descending>> /\ (streak' = NoStreak \/ UNCHANGED <<streak, view>>)
<1>1. ASSUME NEW v, Rebuild(v)
      PROVE  UNCHANGED <<sort, descending>> /\ streak' = NoStreak
  BY <1>1 DEF Rebuild
<1>2. ASSUME RebuildNextNamespace
      PROVE  UNCHANGED <<sort, descending>> /\ (streak' = NoStreak \/ UNCHANGED <<streak, view>>)
  BY <1>2, RebuildKeeps DEF Route
<1>3. (\E v : Rebuild(v)) \/ RebuildNextNamespace
  BY DEF Tab, Namespace, Back, Forward, PaletteKind, PaletteNamespace
<1> QED  BY <1>1, <1>2, <1>3

\* Lemma: every key keeps the order's types.
LEMMA OrderStays == Route /\ Order /\ [NavigationNext]_navigationVars => Order'
<1> SUFFICES ASSUME Route, Order, [NavigationNext]_navigationVars PROVE Order'
  OBVIOUS
<1>1. sort \in Nat /\ descending \in BOOLEAN /\ (streak = NoStreak \/ streak \in Streak)
  BY DEF Order
<1>2. /\ Kinds[view.kind].columns \in Nat
      /\ \A target \in Targets : Kinds[view.kind][target] \in Nat
  <2>1. view.kind \in DOMAIN Kinds
    BY DEF Route, View
  <2> QED  BY <2>1, KindFacts DEF Targets
<1>3. CASE Tab \/ Namespace \/ Back \/ Forward \/ PaletteKind \/ PaletteNamespace
  BY <1>1, <1>3, ViewKeysKeepOrder DEF Order
<1>4. CASE CycleSort
  <2>1. NextSortKey \in Nat
    <3>1. \A m, n \in Nat : n # 0 => (m % n) + 1 \in Nat
      BY ONLY TRUE
    <3> QED  BY <1>1, <1>2, <3>1 DEF NextSortKey
  <2> QED  BY <1>1, <1>4, <2>1 DEF CycleSort, Order
<1>5. CASE ToggleDirection
  BY <1>1, <1>5 DEF ToggleDirection, Order
<1>6. ASSUME NEW target \in Targets, NamedSort(target)
      PROVE  Order'
  <2> DEFINE column == Kinds[view.kind][target]
  <2>1. CASE column = 0
    BY <1>1, <1>6, <2>1 DEF NamedSort, sorting, Order
  <2>2. CASE column # 0
    <3>1. /\ sort' = column /\ descending' = Turned(column, target)
          /\ streak' = IF streak.target = target THEN [streak EXCEPT !.times = @ + 1]
                       ELSE [target |-> target, times |-> 1, sort |-> sort,
                             descending |-> descending]
      BY <1>6, <2>2 DEF NamedSort
    <3>2. sort' \in Nat /\ descending' \in BOOLEAN
      BY <1>1, <1>2, <3>1 DEF Turned
    <3>3. streak' \in Streak
      <4>1. CASE streak.target = target
        <5>1. streak \in Streak
          BY <1>1, <4>1 DEF NoStreak, Targets
        <5> QED  BY <3>1, <4>1, <5>1 DEF Streak
      <4>2. CASE streak.target # target
        BY <1>1, <3>1, <4>2 DEF Streak
      <4> QED  BY <4>1, <4>2
    <3> QED  BY <3>2, <3>3 DEF Order
  <2> QED  BY <2>1, <2>2
<1>7. CASE UNCHANGED navigationVars
  BY <1>1, <1>7 DEF navigationVars, sorting, Order
<1> QED  BY <1>3, <1>4, <1>5, <1>6, <1>7 DEF NavigationNext

\* Lemma: every key keeps LastSortKeyWins.
LEMMA LastSortKeyStays ==
  NavigationIInv /\ [NavigationNext]_navigationVars => LastSortKeyWins'
<1> SUFFICES ASSUME NavigationIInv, [NavigationNext]_navigationVars PROVE LastSortKeyWins'
  OBVIOUS
<1>1. Route /\ LastSortKeyWins /\ descending \in BOOLEAN /\ (streak = NoStreak \/ streak \in Streak)
  BY DEF NavigationIInv, Order
<1>2. ASSUME UNCHANGED <<sort, descending, streak, view>>
      PROVE  LastSortKeyWins'
  BY <1>1, <1>2 DEF LastSortKeyWins
<1>3. ASSUME streak' = NoStreak
      PROVE  LastSortKeyWins'
  BY <1>3 DEF LastSortKeyWins
<1>4. CASE Tab \/ Namespace \/ Back \/ Forward \/ PaletteKind \/ PaletteNamespace
  BY <1>1, <1>2, <1>3, <1>4, ViewKeysKeepOrder
<1>5. CASE CycleSort \/ ToggleDirection
  BY <1>3, <1>5 DEF CycleSort, ToggleDirection
<1>6. ASSUME NEW target \in Targets, NamedSort(target)
      PROVE  LastSortKeyWins'
  <2> DEFINE column == Kinds[view.kind][target]
  <2>1. UNCHANGED view
    BY <1>6 DEF NamedSort, SortKey
  <2>2. CASE column = 0
    BY <1>2, <1>6, <2>1, <2>2 DEF NamedSort, sorting
  <2>3. CASE column # 0
    <3>1. /\ sort' = column /\ descending' = Turned(column, target)
          /\ streak' = IF streak.target = target THEN [streak EXCEPT !.times = @ + 1]
                       ELSE [target |-> target, times |-> 1, sort |-> sort,
                             descending |-> descending]
      BY <1>6, <2>3 DEF NamedSort
    <3>2. CASE streak.target = target
      <4>1. streak # NoStreak /\ streak \in Streak
        BY <1>1, <3>2 DEF NoStreak, Targets
      <4> DEFINE found == streak.sort = column
                 base  == IF found THEN streak.descending ELSE target = "created"
                 turns == IF found THEN streak.times ELSE streak.times - 1
      <4>2. sort = column /\ (descending <=> (turns % 2 = 1) # base)
        BY <1>1, <3>2, <4>1 DEF LastSortKeyWins
      <4>3. /\ streak'.target = target /\ streak'.sort = streak.sort
            /\ streak'.descending = streak.descending /\ streak'.times = streak.times + 1
        BY <3>1, <3>2, <4>1 DEF Streak
      <4>4. descending' = ~descending
        BY <3>1, <4>2 DEF Turned
      <4>5. ((turns + 1) % 2 = 1) = ~(turns % 2 = 1)
        <5>1. turns \in Nat
          BY <4>1 DEF Streak
        <5> HIDE DEF turns
        <5> QED  BY <5>1
      <4>6. turns + 1 = IF found THEN streak'.times ELSE streak'.times - 1
        BY <4>1, <4>3 DEF Streak
      <4>7. descending' <=> ((turns + 1) % 2 = 1) # base
        <5>1. base \in BOOLEAN
          BY <4>1 DEF Streak
        <5> DEFINE odd  == turns % 2 = 1
                   next == (turns + 1) % 2 = 1
        <5>2. odd \in BOOLEAN /\ next \in BOOLEAN /\ (next <=> ~odd)
          BY <4>5
        <5>3. descending \in BOOLEAN /\ descending' \in BOOLEAN /\ (descending' <=> ~descending)
          BY <1>1, <4>4
        <5>4. descending <=> odd # base
          BY <4>2
        <5>5. \A d, e, o, n, b \in BOOLEAN :
                (d <=> o # b) /\ (n <=> ~o) /\ (e <=> ~d) => (e <=> n # b)
          BY ONLY TRUE
        <5> HIDE DEF odd, next, base
        <5>6. descending' <=> next # base
          BY ONLY <5>1, <5>2, <5>3, <5>4, <5>5
        <5> QED  BY <5>6 DEF next
      <4> QED  BY <2>1, <3>1, <4>3, <4>6, <4>7 DEF LastSortKeyWins
    <3>3. CASE streak.target # target
      <4>1. /\ streak'.target = target /\ streak'.sort = sort
            /\ streak'.descending = descending /\ streak'.times = 1
        BY <3>1, <3>3
      <4>2. CASE sort = column
        <5>1. descending' <=> ~descending
          BY <3>1, <4>2 DEF Turned
        <5>2. 1 % 2 = 1
          OBVIOUS
        <5> QED  BY <1>1, <2>1, <3>1, <4>1, <4>2, <5>1, <5>2 DEF LastSortKeyWins
      <4>3. CASE sort # column
        <5>1. descending' <=> target = "created"
          BY <3>1, <4>3 DEF Turned
        <5>2. (1 - 1) % 2 = 0
          OBVIOUS
        <5> QED  BY <2>1, <3>1, <4>1, <4>3, <5>1, <5>2 DEF LastSortKeyWins
      <4> QED  BY <4>2, <4>3
    <3> QED  BY <3>2, <3>3
  <2> QED  BY <2>2, <2>3
<1>7. CASE UNCHANGED navigationVars
  BY <1>2, <1>7 DEF navigationVars, sorting
<1> QED  BY <1>4, <1>5, <1>6, <1>7 DEF NavigationNext

-----------------------------------------------------------------------------
(* Navigation: the theorems.                                               *)

\* Theorem: the inductive invariant holds in every state of every behaviour.
THEOREM NavigationInvariant == NavigationSpec => []NavigationIInv
<1>1. NavigationInit => NavigationIInv
  <2> SUFFICES ASSUME NavigationInit PROVE NavigationIInv
    OBVIOUS
  <2>1. /\ view = [kind |-> 1, namespace |-> AllNamespaces]
        /\ back = << >> /\ forward = << >> /\ sort = 1 /\ descending = FALSE
        /\ running = TRUE /\ streak = NoStreak
    BY DEF NavigationInit
  <2>2. view \in View
    BY <2>1, KindFacts DEF View, Names
  <2>3. << >> \in Seq(Listed)
    BY EmptySeq
  <2> QED  BY <2>1, <2>2, <2>3 DEF NavigationIInv, Route, Order, LastSortKeyWins, Listable
<1>2. NavigationIInv /\ [NavigationNext]_navigationVars => NavigationIInv'
  BY RouteStays, OrderStays, LastSortKeyStays DEF NavigationIInv
<1> QED  BY <1>1, <1>2, PTL DEF NavigationSpec

\* Theorem: the last sort key the kind has a column for decides the column, and
\* turns the rows round each time it is pressed (named_sort).
THEOREM LastSortKeyAlwaysWins == NavigationSpec => []LastSortKeyWins
<1>1. NavigationIInv => LastSortKeyWins
  BY DEF NavigationIInv
<1> QED  BY <1>1, NavigationInvariant, PTL

\* Theorem: the list that no server has, of a namespace of a kind without them,
\* is asked for only where a namespace was chosen over such a kind or kept by a
\* step to one not known as such, never on the way back or forward (record_nav,
\* rebuild_plane).
THEOREM NamespacesAlwaysByChoice == NavigationSpec => NamespacesOnlyByChoice
<1> DEFINE Step == running /\ ~Listable(view') =>
                     \/ (Namespace \/ PaletteNamespace) /\ Kinds[view.kind].clustered
                     \/ (Tab \/ PaletteKind) /\ ~Kinds[view'.kind].scoped
<1>1. NavigationIInv /\ [NavigationNext]_navigationVars => Step
  <2> SUFFICES ASSUME NavigationIInv, [NavigationNext]_navigationVars, running, ~Listable(view')
               PROVE  \/ (Namespace \/ PaletteNamespace) /\ Kinds[view.kind].clustered
                      \/ (Tab \/ PaletteKind) /\ ~Kinds[view'.kind].scoped
    OBVIOUS
  <2>1. Route /\ Listable(view)
    BY DEF NavigationIInv, Route
  <2>2. ASSUME NEW v, Rebuild(v)
        PROVE  view' = v /\ ~Listable(v)
    BY <2>2 DEF Rebuild
  <2>3. view' # view
    BY <2>1
  <2>4. ASSUME NEW q \in Listed
        PROVE  ~Rebuild(ViewOf(q))
    BY <2>2 DEF Listed
  <2>5. CASE Tab \/ PaletteKind
    <3>1. Rebuild(ToNextKind(view))
      BY <2>5 DEF Tab, PaletteKind
    <3>2. ~Kinds[view'.kind].scoped
      BY <2>1, <2>2, <3>1, PointFacts DEF Route
    <3> QED  BY <2>5, <3>2
  <2>6. CASE Namespace \/ PaletteNamespace
    <3>1. PICK names \in NameLists : Rebuild(ToNextNamespace(names, view))
      BY <2>3, <2>6 DEF Namespace, PaletteNamespace, RebuildNextNamespace
    <3>2. ToNextNamespace(names, view).kind = view.kind
      BY <2>1, PointFacts DEF Route
    <3>3. Kinds[view.kind].clustered
      BY <2>2, <3>1, <3>2 DEF Listable
    <3> QED  BY <2>6, <3>3
  <2>7. ~Back /\ ~Forward
    BY <2>1, <2>4, StackFacts DEF Back, Forward
  <2>8. ~CycleSort /\ ~ToggleDirection /\ \A target \in Targets : ~NamedSort(target)
    BY <2>3 DEF CycleSort, ToggleDirection, NamedSort, SortKey
  <2>9. ~UNCHANGED navigationVars
    BY <2>3 DEF navigationVars
  <2> QED  BY <2>5, <2>6, <2>7, <2>8, <2>9 DEF NavigationNext
<1>2. NavigationIInv /\ [NavigationNext]_navigationVars => [Step]_navigationVars
  BY <1>1
<1>3. NavigationSpec => [][Step]_navigationVars
  BY <1>2, NavigationInvariant, PTL DEF NavigationSpec
<1> QED  BY <1>3 DEF NamespacesOnlyByChoice

\* Theorem: the stacks and the view are a browser's trail and its place in it
\* (record_nav, the keys `[` and `]`).
THEOREM NavigationIsBrowser == NavigationSpec => IsBrowser
<1> DEFINE here == NavPoint(view)
           place == Len(back) + 1
<1>1. NavigationInit => B!BrowserInit
  <2> SUFFICES ASSUME NavigationInit PROVE B!BrowserInit
    OBVIOUS
  <2>1. back = << >> /\ forward = << >> /\ view = [kind |-> 1, namespace |-> AllNamespaces]
    BY DEF NavigationInit
  <2>2. view \in View
    BY <2>1, KindFacts DEF View, Names
  <2>3. here \in Points
    BY <2>2, PointFacts
  <2>4. << >> \in Seq(Points) /\ Len(<< >>) = 0
    BY EmptySeq
  <2>5. TrailOf(<< >>, here, << >>) = Append(<< >>, here)
    <3> DEFINE e == << >>
    <3>1. e \in Seq(Points)
      BY <2>4
    <3> HIDE DEF e, here
    <3>2. TrailOf(e, here, << >>) = Append(e, here)
      BY <2>3, <3>1, TrailCut
    <3> QED  BY <3>2 DEF e
  <2>6. Append(<< >>, here) = <<here>>
    OBVIOUS
  <2> HIDE DEF here
  <2>7. Append(back, here) \o Reverse(forward) = <<here>> /\ Len(back) + 1 = 1
    BY <2>1, <2>4, <2>5, <2>6 DEF TrailOf
  <2> QED  BY <2>3, <2>7 DEF B!BrowserInit, here
<1>2. NavigationIInv /\ NavigationIInv' /\ [NavigationNext]_navigationVars
        => [B!BrowserNext]_B!browserVars
  <2> SUFFICES ASSUME NavigationIInv, NavigationIInv', [NavigationNext]_navigationVars
               PROVE  [B!BrowserNext]_B!browserVars
    OBVIOUS
  <2> DEFINE t == TrailOf(back, here, forward)
  <2>1. /\ Route /\ view \in View /\ view' \in View
        /\ back \in Seq(Points) /\ forward \in Seq(Points)
    BY SeqMonotonic DEF NavigationIInv, Route, Listed
  <2>2. here \in Points /\ here' \in Points
    BY <2>1, PointFacts
  <2>3. /\ t = Append(back, NavPoint(view)) \o Reverse(forward)
        /\ t' = (Append(back, NavPoint(view)) \o Reverse(forward))'
    BY DEF TrailOf
  <2>4. Len(back) \in Nat /\ Len(forward) \in Nat /\ Len(t) = Len(back) + 1 + Len(forward)
    BY <2>1, <2>2, LenProperties, TrailFacts
  <2>5. ASSUME RecordNav
        PROVE  B!Visit(here')
    <3>1. back' = Append(back, here) /\ forward' = << >>
      BY <2>5 DEF RecordNav
    <3>2. back' \in Seq(Points) /\ Len(back') = Len(back) + 1
      BY <2>1, <2>2, <3>1, AppendProperties
    <3>3. SubSeq(t, 1, Len(back) + 1) = back'
      BY <2>1, <2>2, <3>1, TrailCut
    <3>4. t' = Append(back', here')
      <4>1. << >> \in Seq(Points)
        BY EmptySeq
      <4>2. TrailOf(back', here', << >>) = Append(back', here')
        BY <2>2, <3>2, <4>1, TrailCut
      <4> QED  BY <3>1, <4>2
    <3>5. (Len(back) + 1)' = Len(back) + 1 + 1
      BY <3>2
    <3> QED  BY <2>3, <3>3, <3>4, <3>5 DEF B!Visit
  <2>6. ASSUME UNCHANGED stacks
        PROVE  B!Replace(here')
    <3>1. back' = back /\ forward' = forward
      BY <2>6 DEF stacks
    <3>2. t' = TrailOf(back, here', forward)
      BY <3>1
    <3>3. [t EXCEPT ![Len(back) + 1] = here'] = TrailOf(back, here', forward)
      BY <2>1, <2>2, TrailCut
    <3> QED  BY <2>3, <3>1, <3>2, <3>3 DEF B!Replace
  <2>7. ASSUME UNCHANGED stacks, UNCHANGED view
        PROVE  UNCHANGED B!browserVars
    BY <2>7 DEF stacks, B!browserVars
  <2>8. CASE Tab \/ Namespace
    <3>1. RecordNav
      BY <2>8 DEF Tab, Namespace
    <3> QED  BY <2>2, <2>5, <3>1 DEF B!BrowserNext, Points, B!Visit
  <2>9. CASE PaletteKind \/ PaletteNamespace
    <3>1. UNCHANGED stacks
      BY <2>9 DEF PaletteKind, PaletteNamespace
    <3> QED  BY <2>2, <2>6, <3>1 DEF B!BrowserNext, Points, B!Replace
  <2>10. CASE Back
    <3>1. /\ Key /\ back # << >> /\ back' = Front(back) /\ forward' = Append(forward, here)
          /\ view' = ViewOf(Last(back))
      BY <2>10 DEF Back, Rebuild
    <3>2. here' = Last(back)
      BY <2>1, <3>1, StackFacts
    <3>3. t' = t
      BY <2>1, <2>2, <3>1, <3>2, SameTrail
    <3>4. Len(Front(back)) = Len(back) - 1 /\ Len(back) # 0
      BY <2>1, <3>1, FrontFacts
    <3>5. Len(back) + 1 > 1 /\ (Len(back) + 1)' = Len(back) + 1 - 1
      BY <2>4, <3>1, <3>4
    <3>6. B!GoBack
      BY <2>3, <3>3, <3>5 DEF B!GoBack
    <3> QED  BY <3>6 DEF B!BrowserNext
  <2>11. CASE Forward
    <3>1. /\ Key /\ forward # << >> /\ forward' = Front(forward) /\ back' = Append(back, here)
          /\ view' = ViewOf(Last(forward))
      BY <2>11 DEF Forward, Rebuild
    <3>2. here' = Last(forward)
      BY <2>1, <3>1, StackFacts
    <3>3. /\ back' \in Seq(Points) /\ Len(back') = Len(back) + 1 /\ back' # << >>
          /\ Front(back') = back /\ Last(back') = here
      BY <2>1, <2>2, <3>1, AppendProperties, PushPop
    <3>4. /\ forward' \in Seq(Points) /\ Append(forward', here') = forward /\ Len(forward) # 0
      BY <2>1, <3>1, <3>2, FrontFacts, PushPop, EmptySeq
    <3>5. t' = t
      BY <2>2, <3>3, <3>4, SameTrail
    <3>6. B!GoForward
      BY <2>3, <2>4, <3>3, <3>4, <3>5 DEF B!GoForward
    <3> QED  BY <3>6 DEF B!BrowserNext
  <2>12. CASE CycleSort \/ ToggleDirection \/ \E target \in Targets : NamedSort(target)
    BY <2>7, <2>12 DEF CycleSort, ToggleDirection, NamedSort, SortKey
  <2>13. CASE UNCHANGED navigationVars
    BY <2>7, <2>13 DEF navigationVars
  <2> QED  BY <2>8, <2>9, <2>10, <2>11, <2>12, <2>13 DEF NavigationNext
<1> QED  BY <1>1, <1>2, NavigationInvariant, PTL DEF NavigationSpec, IsBrowser, B!BrowserSpec

===============================================================================
