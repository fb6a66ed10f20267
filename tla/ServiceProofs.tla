--------------------------- MODULE ServiceProofs ---------------------------
(***************************************************************************)
(* Theorems about Service, for any number of pages and any texts, sizes    *)
(* and seeds: the service keeps its identity, and a file that does not     *)
(* hold the last save, or cannot be loaded, is the work of a save that     *)
(* failed, was killed or overlapped another.                               *)
(***************************************************************************)
EXTENDS Service, TLAPS

(* The identities the service appeared under are those of the seed file,    *)
(* and none while there is no file, or one that is still to be written.     *)
SeedInv ==
    /\ proc \in {"down", "loaded", "seeding", "up"}
    /\ known \subseteq seedFile
    /\ \A s, t \in seedFile : s = t
    /\ proc = "seeding" => known = {}

(* Whatever is saved was accepted.                                           *)
OnlyAccepted ==
    /\ lastSaved \in Valid
    /\ \A c \in Tab : saving[c] \in Valid \cup {NoText}
    /\ DOMAIN saving = Tab

(* As long as nothing is torn, at most one save is under way, and the file   *)
(* is empty while it is.                                                     *)
FileInv ==
    ~torn =>
        \/ Saving = {} /\ config = Holding(lastSaved)
        \/ \E c \in Tab : Saving = {c} /\ config = EmptyFile

IInv == SeedInv /\ OnlyAccepted /\ FileInv

-----------------------------------------------------------------------------
(* The seed file.                                                            *)

(* No step changes the seed file once the service has appeared under it.     *)
LEMMA SeedStep == SeedInv /\ [Next]_vars => SeedInv'
<1> SUFFICES ASSUME SeedInv, [Next]_vars PROVE SeedInv'
  OBVIOUS
<1>1. CASE Start
  BY <1>1 DEF SeedInv, Start
<1>2. CASE LoadSeed
  BY <1>2 DEF SeedInv, LoadSeed, Up
<1>3. CASE CreateSeed
  <2>1. PICK seed \in Seed : seedFile' = {seed} /\ known' = known \cup {seed}
    BY <1>3 DEF CreateSeed, Up, SavedSeed
  <2>2. proc = "seeding" /\ proc' = "up"
    BY <1>3 DEF CreateSeed, Up
  <2> QED
    BY <2>1, <2>2 DEF SeedInv
<1>4. CASE Exit \/ \E c \in Tab : HandleRestart(c)
  BY <1>4 DEF SeedInv, Exit, HandleRestart, Gone
<1>5. CASE \E c \in Tab : \/ \E text \in Text : BeginSave(c, text)
                          \/ EndSave(c) \/ SaveFails(c) \/ AskRestart(c)
                          \/ RestartFails(c) \/ SeeService(c) \/ GiveUp(c)
  <2>1. UNCHANGED <<proc, seedFile, known>>
    BY <1>5 DEF BeginSave, EndSave, SaveFails, AskRestart, RestartFails, SeeService, GiveUp
  <2> QED
    BY <2>1 DEF SeedInv
<1>6. CASE UNCHANGED vars
  BY <1>6 DEF SeedInv, vars
<1> QED
  BY <1>1, <1>2, <1>3, <1>4, <1>5, <1>6 DEF Next, TabStep

-----------------------------------------------------------------------------
(* The configuration file.                                                   *)

(* What a save does to a file that nothing else has touched.                 *)
LEMMA OverwriteEmpty ==
    ASSUME NEW text \in Text
    PROVE  Overwritten(EmptyFile, text) = Holding(text)
<1>1. Size[text] \in Nat
  BY ConstantsAssumption
<1> QED
  BY <1>1 DEF Overwritten, EmptyFile, File

(* The steps in which no save begins, ends or is cut off.                    *)
LEMMA NoSaveStep ==
    ASSUME [Next]_vars,
           ~\E c \in Tab : EndSave(c) \/ SaveFails(c) \/ \E text \in Text : BeginSave(c, text),
           ~Gone
    PROVE  UNCHANGED <<saving, config, lastSaved, torn>>
  BY DEF Next, TabStep, Start, LoadSeed, CreateSeed, Exit, AskRestart, HandleRestart,
         RestartFails, SeeService, GiveUp, fileVars, vars

(* Every step preserves what is known of the file and of the saves.          *)
LEMMA FileStep ==
    OnlyAccepted /\ FileInv /\ [Next]_vars => OnlyAccepted' /\ FileInv'
<1> SUFFICES ASSUME OnlyAccepted, FileInv, [Next]_vars
             PROVE  OnlyAccepted' /\ FileInv'
  OBVIOUS
<1>1. ASSUME NEW c \in Tab, NEW text \in Text, BeginSave(c, text)
      PROVE  OnlyAccepted' /\ FileInv'
  <2>1. /\ text \in Valid /\ saving[c] = NoText /\ lastSaved' = lastSaved
        /\ saving' = [saving EXCEPT ![c] = text]
        /\ config' = EmptyFile
    BY <1>1 DEF BeginSave, Accepted, Truncated
  <2>2. torn' = (Saving # {})
    BY <1>1 DEF BeginSave
  <2>3. text # NoText
    BY ConstantsAssumption
  <2>4. Saving' = Saving \cup {c}
    BY <2>1, <2>3 DEF OnlyAccepted, Saving
  <2>5. OnlyAccepted'
    BY <2>1 DEF OnlyAccepted
  <2>6. ~torn' => Saving = {}
    BY <2>2, Zenon
  <2>7. FileInv'
    BY <2>1, <2>4, <2>6 DEF FileInv, EmptyFile, File
  <2> QED
    BY <2>5, <2>7
<1>2. ASSUME NEW c \in Tab, EndSave(c)
      PROVE  OnlyAccepted' /\ FileInv'
  <2>1. /\ saving[c] # NoText /\ saving' = [saving EXCEPT ![c] = NoText]
        /\ lastSaved' = saving[c] /\ torn' = torn
        /\ config' = Overwritten(config, saving[c])
    BY <1>2 DEF EndSave
  <2>2. saving[c] \in Valid /\ saving[c] \in Text
    BY <2>1, ConstantsAssumption DEF OnlyAccepted
  <2>3. OnlyAccepted'
    BY <2>1, <2>2 DEF OnlyAccepted
  <2>4. ASSUME ~torn PROVE Saving' = {} /\ config' = Holding(lastSaved')
    <3>1. c \in Saving
      BY <2>1 DEF Saving
    <3>2. Saving = {c} /\ config = EmptyFile
      BY <2>4, <3>1 DEF FileInv
    <3>3. Saving' = {}
      BY <2>1, <3>2 DEF OnlyAccepted, Saving
    <3>4. config' = Holding(lastSaved')
      BY <2>1, <2>2, <3>2, OverwriteEmpty DEF Holding
    <3> QED
      BY <3>3, <3>4
  <2>5. FileInv'
    <3>1. torn' => FileInv'
      BY DEF FileInv
    <3>2. ~torn' => FileInv'
      BY <2>1, <2>4, Zenon DEF FileInv, Holding
    <3> QED
      BY <3>1, <3>2, Zenon
  <2> QED
    BY <2>3, <2>5
<1>3. ASSUME NEW c \in Tab, SaveFails(c)
      PROVE  OnlyAccepted' /\ FileInv'
  <2>1. saving' = [saving EXCEPT ![c] = NoText] /\ lastSaved' = lastSaved /\ torn'
    BY <1>3, Zenon DEF SaveFails
  <2> QED
    BY <2>1 DEF OnlyAccepted, FileInv
<1>4. CASE Gone
  <2>1. /\ saving' = [c \in Tab |-> NoText]
        /\ UNCHANGED <<config, lastSaved>>
    BY <1>4 DEF Gone
  <2>2. Saving' = {}
    BY <2>1 DEF Saving
  <2>3. OnlyAccepted'
    BY <2>1 DEF OnlyAccepted
  <2>4. ~torn' => ~torn /\ Saving = {}
    <3>1. torn' = (torn \/ Saving # {})
      BY <1>4 DEF Gone
    <3> QED
      BY <3>1, Zenon
  <2>5. FileInv'
    BY <2>1, <2>2, <2>4 DEF FileInv, Holding, File
  <2> QED
    BY <2>3, <2>5
<1>5. CASE UNCHANGED <<saving, config, lastSaved, torn>>
  <2>1. UNCHANGED Saving
    BY <1>5 DEF Saving
  <2>2. OnlyAccepted'
    BY <1>5 DEF OnlyAccepted
  <2>3. FileInv'
    BY <1>5, <2>1, Zenon DEF FileInv, Holding, EmptyFile
  <2> QED
    BY <2>2, <2>3
<1> QED
  BY <1>1, <1>2, <1>3, <1>4, <1>5, NoSaveStep

-----------------------------------------------------------------------------
(* The types.                                                                *)

FileType == [text : Text \cup {Mixed, NoText}, size : {0} \cup {Size[t] : t \in Text}]

(* What a save leaves is a file, of a size that some text has.               *)
LEMMA OverwrittenType ==
    ASSUME NEW file \in FileType, NEW text \in Text
    PROVE  Overwritten(file, text) \in FileType
  BY DEF Overwritten, Holding, File, FileType

(* A process that is gone leaves the types as they are.                      *)
LEMMA GoneType == TypeOK /\ Gone => TypeOK'
<1> SUFFICES ASSUME TypeOK, Gone PROVE TypeOK'
  OBVIOUS
<1>1. /\ proc' = "down" /\ running' = NoText
      /\ saving' \in [Tab -> Text \cup {NoText}]
      /\ page' \in [Tab -> {"idle", "restarting", "waiting", "restarted", "timedOut"}]
  BY DEF TypeOK, Gone
<1>2. torn' \in BOOLEAN
  BY Zenon DEF Gone
<1>3. UNCHANGED <<seedFile, known, replaced, config, lastSaved>>
  BY DEF Gone
<1> QED
  BY <1>1, <1>2, <1>3 DEF TypeOK

(* Every step keeps the types.                                               *)
LEMMA TypeStep == TypeOK /\ [Next]_vars => TypeOK'
<1> SUFFICES ASSUME TypeOK, [Next]_vars PROVE TypeOK'
  OBVIOUS
<1>1. CASE Start
  <2>1. config.text \in Text \cup {Mixed} /\ config.text # NoText
    BY <1>1, ConstantsAssumption DEF Start, Loadable
  <2> QED
    BY <1>1, <2>1 DEF Start, TypeOK, fileVars
<1>2. CASE LoadSeed
  <2>1. CASE \E seed \in seedFile : Up(seed) /\ UNCHANGED seedFile
    <3>1. PICK seed \in seedFile : Up(seed) /\ UNCHANGED seedFile
      BY <2>1
    <3>2. seed \in Seed \cup {EmptySeed}
      BY <3>1 DEF TypeOK
    <3>3. replaced' \in [Tab -> BOOLEAN]
      BY <3>1, Zenon DEF Up
    <3>4. proc' = "up" /\ proc = "loaded" /\ known' = known \cup {seed}
      BY <1>2, <3>1 DEF LoadSeed, Up
    <3> QED
      BY <1>2, <3>1, <3>2, <3>3, <3>4 DEF LoadSeed, TypeOK, fileVars
  <2>2. CASE /\ seedFile = {} /\ proc' = "seeding" /\ seedFile' = {EmptySeed}
             /\ UNCHANGED <<known, replaced>>
    BY <1>2, <2>2 DEF LoadSeed, TypeOK, fileVars
  <2> QED
    BY <1>2, <2>1, <2>2 DEF LoadSeed
<1>3. CASE CreateSeed
  BY <1>3 DEF CreateSeed, SavedSeed, Up, TypeOK, fileVars
<1>4. ASSUME NEW c \in Tab, NEW text \in Text, BeginSave(c, text)
      PROVE  TypeOK'
  <2>1. config' \in FileType
    BY <1>4 DEF BeginSave, Truncated, EmptyFile, File, FileType
  <2>2. saving' \in [Tab -> Text \cup {NoText}]
    BY <1>4 DEF BeginSave, TypeOK
  <2>3. torn' \in BOOLEAN
    BY <1>4, Zenon DEF BeginSave
  <2>4. UNCHANGED <<proc, running, seedFile, known, page, replaced, lastSaved>>
    BY <1>4 DEF BeginSave
  <2> QED
    BY <2>1, <2>2, <2>3, <2>4 DEF TypeOK, FileType
<1>5. ASSUME NEW c \in Tab, EndSave(c)
      PROVE  TypeOK'
  <2>1. saving[c] \in Text
    BY <1>5 DEF EndSave, TypeOK
  <2>2. config' \in FileType
    BY <1>5, <2>1, OverwrittenType DEF EndSave, TypeOK, FileType
  <2>3. saving' \in [Tab -> Text \cup {NoText}] /\ lastSaved' \in Text
    BY <1>5, <2>1 DEF EndSave, TypeOK
  <2>4. UNCHANGED <<proc, running, seedFile, known, page, replaced, torn>>
    BY <1>5 DEF EndSave
  <2> QED
    BY <2>2, <2>3, <2>4 DEF TypeOK, FileType
<1>6. ASSUME NEW c \in Tab, SaveFails(c)
      PROVE  TypeOK'
  <2>1. torn' \in BOOLEAN
    BY <1>6, Zenon DEF SaveFails
  <2>2. /\ saving' \in [Tab -> Text \cup {NoText}]
        /\ UNCHANGED <<proc, running, seedFile, known, page, replaced, config,
                       lastSaved>>
    BY <1>6 DEF SaveFails, TypeOK
  <2> QED
    BY <2>1, <2>2 DEF TypeOK
<1>7. CASE Exit \/ \E c \in Tab : HandleRestart(c)
  BY <1>7, GoneType DEF Exit, HandleRestart
<1>8. ASSUME NEW c \in Tab, AskRestart(c)
      PROVE  TypeOK'
  BY <1>8 DEF AskRestart, TypeOK, fileVars
<1>9. ASSUME NEW c \in Tab, RestartFails(c) \/ SeeService(c) \/ GiveUp(c)
      PROVE  TypeOK'
  BY <1>9 DEF RestartFails, SeeService, GiveUp, TypeOK, fileVars
<1>10. CASE UNCHANGED vars
  BY <1>10 DEF TypeOK, vars, fileVars
<1> QED
  BY <1>1, <1>2, <1>3, <1>4, <1>5, <1>6, <1>7, <1>8, <1>9, <1>10 DEF Next, TabStep

-----------------------------------------------------------------------------
(* The theorems.                                                             *)

(* The invariant holds in every reachable state.                             *)
LEMMA Inductive == Spec => []IInv
<1>1. Init => IInv
  <2> SUFFICES ASSUME Init PROVE IInv
    OBVIOUS
  <2>1. SeedInv
    BY DEF Init, SeedInv
  <2>2. OnlyAccepted
    BY ConstantsAssumption DEF Init, OnlyAccepted
  <2>3. Saving = {} /\ config = Holding(lastSaved)
    BY DEF Init, Saving, Holding
  <2> QED
    BY <2>1, <2>2, <2>3 DEF IInv, FileInv
<1>2. IInv /\ [Next]_vars => IInv'
  BY SeedStep, FileStep DEF IInv
<1> QED
  BY <1>1, <1>2, PTL DEF Spec

(* The files, the process and the pages have their types: no mixture of      *)
(* saves, failures and restarts leaves a process without a configuration.    *)
THEOREM TypeCorrect == Spec => []TypeOK
<1>1. Init => TypeOK
  <2> SUFFICES ASSUME Init PROVE TypeOK
    OBVIOUS
  <2>1. torn \in BOOLEAN /\ replaced \in [Tab -> BOOLEAN]
    BY Zenon DEF Init
  <2>2. lastSaved \in Text /\ config \in FileType
    BY ConstantsAssumption DEF Init, Holding, File, FileType
  <2> QED
    BY <2>1, <2>2 DEF Init, TypeOK, FileType
<1> QED
  BY <1>1, TypeStep, PTL DEF Spec

(* The service never appears under two identities.                           *)
THEOREM IdentityKept == Spec => []OneIdentity
<1>1. IInv => OneIdentity
  BY DEF IInv, SeedInv, OneIdentity
<1> QED
  BY <1>1, Inductive, PTL

(* An untorn file holds the last save that was reported.                     *)
THEOREM LastSaveKept == Spec => []FileIsLastSave
<1>1. IInv => FileIsLastSave
  BY DEF IInv, FileInv, FileIsLastSave
<1> QED
  BY <1>1, Inductive, PTL

(* Only a failed, killed or overlapped save leaves an unloadable file.       *)
THEOREM OnlyTornUnloadable == Spec => []UnloadableOnlyIfTorn
<1>1. IInv => UnloadableOnlyIfTorn
  <2> SUFFICES ASSUME IInv, Saving = {}, config.text \notin Valid, ~torn
               PROVE  FALSE
    BY DEF UnloadableOnlyIfTorn
  <2>1. config = Holding(lastSaved)
    BY DEF IInv, FileInv
  <2> QED
    BY <2>1 DEF IInv, OnlyAccepted, Holding, File
<1> QED
  BY <1>1, Inductive, PTL

=============================================================================
