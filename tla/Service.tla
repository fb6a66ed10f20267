------------------------------ MODULE Service ------------------------------
(***************************************************************************)
(* A bridge process as a service: how it starts from its configuration and *)
(* seed files (src/src/bin/gc/main.rs and src/src/lib.rs; fc is the same), *)
(* how its dashboard rewrites the configuration and restarts the service   *)
(* (src/src/bin/gc/dashboard.rs) and what the dashboard page makes of it   *)
(* (src/src/dashboard.rs).  The process may be killed between any two      *)
(* steps: a restart sends SIGTERM, which it does not handle.               *)
(*                                                                         *)
(* std::fs::write truncates the file and then writes it from the start;    *)
(* what a process has written survives it.  The handlers of two requests   *)
(* may run at the same time on two threads.                                *)
(***************************************************************************)
EXTENDS Integers

CONSTANTS
    Tab,      \* open dashboard pages
    Text,     \* texts that may be saved as the configuration
    Size,     \* their sizes in bytes
    Valid,    \* the texts that toml reads as a Config
    Shipped,  \* the configuration file that came with the package
    Mixed,    \* the start of one text followed by the end of a longer one
    NoText,   \* no text
    Seed,     \* seeds that may be drawn
    EmptySeed \* what is read from an empty seed file

ASSUME ConstantsAssumption ==
    /\ Size \in [Text -> Nat \ {0}]
    /\ Valid \subseteq Text
    /\ Shipped \in Valid
    /\ Mixed \notin Text
    /\ NoText \notin Text \cup {Mixed}
    /\ EmptySeed \notin Seed

VARIABLES
    proc,     \* "down", "loaded" the configuration, "seeding", or "up"
    config,   \* the configuration file
    running,  \* the configuration the process was started with
    seedFile, \* the seed file: not there, empty, or a seed
    known,    \* the seeds of the identities the service has appeared under
    saving,   \* what the save request of each page is writing
    page,     \* where the restart function of each page is, and what it shows
    replaced, \* whether a process came up since the page asked for a restart
    lastSaved,\* the text of the last save that was reported
    torn      \* a save was killed or overlapped since one last began alone

fileVars == <<config, lastSaved, torn>>
vars == <<proc, running, seedFile, known, saving, page, replaced, fileVars>>

File(text, size) == [text |-> text, size |-> size]
EmptyFile == File(NoText, 0)
Holding(text) == File(text, Size[text])

TypeOK ==
    /\ proc \in {"down", "loaded", "seeding", "up"}
    /\ config \in [text : Text \cup {Mixed, NoText}, size : {0} \cup {Size[t] : t \in Text}]
    /\ running \in Text \cup {Mixed, NoText}
    /\ running = NoText <=> proc = "down"
    /\ seedFile \in {{}} \cup {{s} : s \in Seed \cup {EmptySeed}}
    /\ known \subseteq Seed \cup {EmptySeed}
    /\ saving \in [Tab -> Text \cup {NoText}]
    /\ page \in [Tab -> {"idle", "restarting", "waiting", "restarted", "timedOut"}]
    /\ replaced \in [Tab -> BOOLEAN]
    /\ lastSaved \in Text
    /\ torn \in BOOLEAN

Init ==
    /\ proc = "down"
    /\ config = Holding(Shipped)
    /\ running = NoText
    /\ seedFile = {}
    /\ known = {}
    /\ saving = [c \in Tab |-> NoText]
    /\ page = [c \in Tab |-> "idle"]
    /\ replaced = [c \in Tab |-> FALSE]
    /\ lastSaved = Shipped
    /\ torn = FALSE

Saving == {c \in Tab : saving[c] # NoText}

-----------------------------------------------------------------------------
(* The process.                                                              *)

(* main reads the configuration; it panics, and systemd tries again, when   *)
(* the file is empty or does not parse.  A mixed text may or may not.       *)

AnyFile == TRUE
Loadable == config.size > 0 /\ config.text \in Valid \cup {Mixed}

Start ==
    /\ proc = "down"
    /\ Loadable
    /\ proc' = "loaded"
    /\ running' = config.text
    /\ UNCHANGED <<seedFile, known, saving, page, replaced, fileVars>>

(* load_or_create_id_seed: a seed file that is there is read as it is; one  *)
(* that is not is created here and written in the next step.                *)

Up(seed) ==
    /\ proc' = "up"
    /\ known' = known \cup {seed}
    /\ replaced' = [c \in Tab |-> TRUE]

LoadSeed ==
    /\ proc = "loaded"
    /\ \/ /\ \E seed \in seedFile : Up(seed)
          /\ UNCHANGED seedFile
       \/ /\ seedFile = {}
          /\ proc' = "seeding"
          /\ seedFile' = {EmptySeed}
          /\ UNCHANGED <<known, replaced>>
    /\ UNCHANGED <<running, saving, page, fileVars>>

SeedNotSaved(seed) == EmptySeed
SavedSeed(seed) == seed

CreateSeed ==
    /\ proc = "seeding"
    /\ \E seed \in Seed :
          /\ seedFile' = {SavedSeed(seed)}
          /\ Up(seed)
    /\ UNCHANGED <<running, saving, page, fileVars>>

(* The process is gone: what it was writing stays as it is, and the page    *)
(* that waits for the answer to its restart request goes on to wait for     *)
(* the service.                                                             *)

Gone ==
    /\ proc' = "down"
    /\ running' = NoText
    /\ torn' = (torn \/ Saving # {})
    /\ saving' = [c \in Tab |-> NoText]
    /\ page' = [c \in Tab |-> IF page[c] = "restarting" THEN "waiting" ELSE page[c]]
    /\ UNCHANGED <<seedFile, known, replaced, config, lastSaved>>

(* It exits, panics or is killed for another reason than the dashboard.      *)

Exit ==
    /\ proc # "down"
    /\ Gone

-----------------------------------------------------------------------------
(* The dashboard's handlers.                                                 *)

(* PUT /api/config: a text that does not parse is refused.  The file is     *)
(* truncated, and written in the next step.                                 *)

AcceptAnyText(text) == TRUE
Accepted(text) == text \in Valid

NotTruncated == config
Truncated == EmptyFile

BeginSave(c, text) ==
    /\ proc = "up"
    /\ saving[c] = NoText
    /\ Accepted(text)
    /\ config' = Truncated
    /\ saving' = [saving EXCEPT ![c] = text]
    /\ torn' = (Saving # {})
    /\ UNCHANGED <<proc, running, seedFile, known, page, replaced, lastSaved>>

(* Written from the start: the end of a longer text, that another request   *)
(* has written since, stays.                                                *)

Overwritten(file, text) ==
    IF Size[text] >= file.size THEN Holding(text) ELSE File(Mixed, file.size)

EndSave(c) ==
    /\ saving[c] # NoText
    /\ config' = Overwritten(config, saving[c])
    /\ saving' = [saving EXCEPT ![c] = NoText]
    /\ lastSaved' = saving[c]
    /\ UNCHANGED <<proc, running, seedFile, known, page, replaced, torn>>

(* The write fails, and the handler says so; the file was truncated before.  *)

SaveFails(c) ==
    /\ saving[c] # NoText
    /\ saving' = [saving EXCEPT ![c] = NoText]
    /\ torn' = TRUE
    /\ UNCHANGED <<proc, running, seedFile, known, page, replaced, config, lastSaved>>

(* POST /api/restart: systemctl restarts the service, the caller included,  *)
(* or fails, which the handler reports.                                     *)

HandleRestart(c) ==
    /\ page[c] = "restarting"
    /\ Gone

RestartFails(c) ==
    /\ page[c] = "restarting"
    /\ page' = [page EXCEPT ![c] = "waiting"]
    /\ UNCHANGED <<proc, running, seedFile, known, saving, replaced, fileVars>>

-----------------------------------------------------------------------------
(* The restart function of the page.                                         *)

(* The request is sent, and fails at once when the service is not up.  The  *)
(* save button works on meanwhile.                                          *)

AskRestart(c) ==
    /\ page[c] \in {"idle", "restarted", "timedOut"}
    /\ page' = [page EXCEPT ![c] = IF proc = "up" THEN "restarting" ELSE "waiting"]
    /\ replaced' = [replaced EXCEPT ![c] = FALSE]
    /\ UNCHANGED <<proc, running, seedFile, known, saving, fileVars>>

(* Whatever the answer was, waitForService polls the configuration: any     *)
(* answer counts as a restart, and after 30 polls without one it gives up.  *)

SeeService(c) ==
    /\ page[c] = "waiting"
    /\ proc = "up"
    /\ page' = [page EXCEPT ![c] = "restarted"]
    /\ UNCHANGED <<proc, running, seedFile, known, saving, replaced, fileVars>>

GiveUp(c) ==
    /\ page[c] = "waiting"
    /\ proc # "up"
    /\ page' = [page EXCEPT ![c] = "timedOut"]
    /\ UNCHANGED <<proc, running, seedFile, known, saving, replaced, fileVars>>

TabStep(c) ==
    \/ \E text \in Text : BeginSave(c, text)
    \/ EndSave(c) \/ SaveFails(c)
    \/ AskRestart(c) \/ HandleRestart(c) \/ RestartFails(c)
    \/ SeeService(c) \/ GiveUp(c)

Next ==
    \/ Start \/ LoadSeed \/ CreateSeed \/ Exit
    \/ \E c \in Tab : TabStep(c)

Spec == Init /\ [][Next]_vars

-----------------------------------------------------------------------------
(* Safety.                                                                   *)

(* The service keeps its identity, by which its peer is configured to know  *)
(* it, over any number of starts, even when the first one is killed between *)
(* creating the seed file and writing it.                                   *)

OneIdentity == \A s, t \in known : s = t

(* When no save is under way, the file holds the text of the last save that *)
(* was reported, unless a save failed, was killed or overlapped another.    *)

FileIsLastSave == Saving = {} /\ ~torn => config = Holding(lastSaved)

(* A process that cannot load its file cannot serve the dashboard that      *)
(* would repair it.  Only a failed, killed or overlapped save leads there.  *)

UnloadableOnlyIfTorn ==
    Saving = {} /\ config.text \notin Valid => torn

(* main.rs:55 asserts that a process never starts on an empty file.          *)

ConfigNotEmpty == proc = "down" => config.size > 0

(* dashboard.rs:549: "Service restarted successfully": when the page says   *)
(* so, the process that answers has come up since the page asked.           *)

RestartedMeansReplaced ==
    [][ \A c \in Tab : page[c] = "waiting" /\ page'[c] = "restarted"
                          => replaced[c] ]_vars

=============================================================================
