---------------------------- MODULE LibrarySession ----------------------------
(***************************************************************************)
(* One run of the library's command line after another over one store: the *)
(* management session (app/LibraryCliSession.hpp), the audio session       *)
(* around it (app/LibraryAudioSession.hpp) and their mains, composed with  *)
(* the service (LibraryService) and with the controller, which appears as  *)
(* what it promises (PlaybackGate).                                        *)
(*                                                                         *)
(* A line is answered by one reply, which is delivered or lost.  `believed`*)
(* is what the caller can conclude from the replies it got: the set of     *)
(* checkpoints that may be in the store.  Reading, parsing and rendering   *)
(* of text are their outcomes.                                             *)
(***************************************************************************)
EXTENDS LibraryService

VARIABLES
    held, audible, \* PlaybackGate
    entry,       \* the program of this run: the audio one, or management alone
    at,          \* where it is
    lastCommit,  \* the outcome the session keeps of its last management line
    reply,       \* the response about to be delivered
    ordinary,    \* the last exit code of an ordinary error
    exit,        \* the exit code chosen
    believed,    \* history: what the caller thinks the store may hold
    doubt,       \* history: what else the line in hand may have put there
    trouble      \* history: what went wrong in this run

Gate == INSTANCE PlaybackGate

gateVars == <<held, audible>>
knowledge == <<believed, doubt>>
outcome == <<ordinary, exit, trouble>>
sessionVars == <<vars, gateVars, entry, at, lastCommit, reply, knowledge, outcome>>

Outcomes == {"Unknown", "Saved", "NoChange", "Rejected", "Uncertain"}
Entries == {"management", "audio"}
Exits == {0, 1, 74, 76}
Verbs == {"register", "reattach", "scan", "relocate", "remove", "overrides", "query"}
Places == {"off", "creating", "greet", "prompt", "call", "format", "reply",
           "finish", "destroy", "close", "end"}

Reply == [commit : Outcomes, exit : Exits, terminal : BOOLEAN]
Answer(commit, code, terminal) == [commit |-> commit, exit |-> code, terminal |-> terminal]
NoReply == Answer("Unknown", 0, FALSE)

SessionInit ==
    /\ Init
    /\ Gate!Init
    /\ entry = "management"
    /\ at = "off"
    /\ lastCommit = "Unknown"
    /\ reply = NoReply
    /\ ordinary = 0 /\ exit = 0 /\ trouble = {}
    /\ believed = {Absent} /\ doubt = {}

SessionTypeOK ==
    /\ entry \in Entries
    /\ at \in Places
    /\ lastCommit \in Outcomes
    /\ reply \in Reply
    /\ {ordinary, exit} \subseteq Exits
    /\ {held, audible} \subseteq BOOLEAN
    /\ entry = "management" => ~held
    /\ trouble \subseteq {"error", "lost", "unconfirmed", "refused", "play"}
    /\ at \in {"off", "end"} => service = "none" \/ service = "Closed"

-----------------------------------------------------------------------------
(* Replies.                                                                *)

Respond(r) == reply' = r /\ at' = "reply"

\* Mutant: an error is always a rejection.
ForgetsCommit == "Rejected"

\* A known outcome outlives an error that follows it.
Kept == IF lastCommit = "Unknown" THEN "Rejected" ELSE lastCommit

\* localError: after a known commit it ends the session.
LocalError(code, terminal) ==
    /\ lastCommit' = Kept
    /\ Respond(IF lastCommit \in {"Saved", "NoChange"}
               THEN Answer(Kept, 74, TRUE)
               ELSE Answer(Kept, code, terminal))

\* Mutant: the session goes on without its service.
NeverTerminal == FALSE

\* The service the call leaves behind decides.
Recovery == service' = "RecoveryRequired"

\* serviceError; an error that leaves the service without authority ends the
\* session.
ServiceError(commit) ==
    /\ lastCommit' = commit
    /\ Respond(Answer(commit, IF Recovery THEN 76 ELSE 1, Recovery))

\* grammarError, and the errors of the audio lines.
Rejection == Answer("Rejected", 1, FALSE)

Quiet == UNCHANGED <<gateVars, entry, knowledge, outcome>>

-----------------------------------------------------------------------------
(* Starting the program.                                                   *)

NewRun ==
    /\ lastCommit' = "Unknown" /\ reply' = NoReply
    /\ ordinary' = 0 /\ exit' = 0 /\ trouble' = {}

OpenLibrary ==
    /\ at = "off" /\ service = "none"
    /\ Open
    /\ NewRun
    /\ entry' \in Entries
    /\ at' = "greet"
    /\ UNCHANGED <<gateVars, knowledge>>

OpenRefused ==
    /\ at = "off"
    /\ OpenFails
    /\ UNCHANGED <<gateVars, entry, at, lastCommit, reply, knowledge, outcome>>

\* createLinux saves an empty owner; whether it did is in the greeting or in
\* the factory's error.
CreateLibrary ==
    /\ at = "off"
    /\ Create(EmptyOwner)
    /\ NewRun
    /\ doubt' = {Capture(staged')}
    /\ entry' \in Entries
    /\ at' = "creating"
    /\ UNCHANGED <<gateVars, believed>>

Created ==
    /\ at = "creating"
    /\ Acknowledge
    /\ lastCommit' = "Saved"
    /\ at' = "greet"
    /\ UNCHANGED reply /\ Quiet

CreateFails ==
    /\ at = "creating"
    /\ \/ (NotCommitted \/ Distrusted) /\ Respond(Answer("Rejected", 1, TRUE))
       \/ CommitUncertain /\ Respond(Answer("Uncertain", 1, TRUE))
    /\ UNCHANGED lastCommit /\ Quiet

\* The backend does not come up: no session, no greeting and no reply to lose.
AudioRefused ==
    /\ at = "greet" /\ entry = "audio"
    /\ Crash
    /\ exit' = 1
    /\ trouble' = {"refused"}
    /\ at' = "end"
    /\ UNCHANGED <<gateVars, entry, lastCommit, reply, knowledge, ordinary>>

Greet ==
    /\ at = "greet"
    /\ Respond(Answer(lastCommit, 0, FALSE))
    /\ lastCommit' = "Unknown"
    /\ UNCHANGED vars /\ Quiet

-----------------------------------------------------------------------------
(* A line of the management session.                                       *)

\* Mutant: a scan is no mutation.
AllButScan == Verbs \ {"query", "scan"}

MutatingVerbs == Verbs \ {"query"}

\* libraryMutationAllowed of the controller; without audio always.
MutationAllowed == ~held

\* The session answers a management line only over a service in order.
Ready == at = "prompt" /\ service = "Ready"

NotReady ==
    /\ at = "prompt" /\ service # "Ready"
    /\ lastCommit' = "Rejected"
    /\ Respond(Answer("Rejected", 76, TRUE))
    /\ UNCHANGED vars /\ Quiet

\* A line too long, ill-formed, about nothing known, or refused by the guard.
RejectLine ==
    /\ at = "prompt"
    /\ lastCommit' = "Rejected"
    /\ Respond(Rejection)
    /\ UNCHANGED vars /\ Quiet

Admitted(verb) == MutationAllowed \/ verb \notin MutatingVerbs

\* roots, songs and help; a page that does not fit is an error.
Query ==
    /\ Ready /\ Admitted("query")
    /\ lastCommit' \in {"Unknown", "Rejected"}
    /\ Respond(IF lastCommit' = "Unknown" THEN NoReply ELSE Rejection)
    /\ UNCHANGED vars /\ Quiet

\* There is a song a line can name, and one whose directory is at hand.
SongKnown == DOMAIN owner.songs # {}
SongAttached == \E s \in DOMAIN owner.songs : Attached(owner, owner.songs[s].root)

\* prepare, which may find the authority gone.
PrepareLine ==
    /\ Ready
    /\ SongKnown
    /\ \/ SongAttached /\ lastCommit' = "Unknown" /\ Respond(NoReply) /\ UNCHANGED vars
       \/ (LoseAuthority \/ UNCHANGED vars) /\ ServiceError("Rejected")
    /\ Quiet

Quit ==
    /\ Ready
    /\ lastCommit' = "Unknown"
    /\ Respond(Answer("Unknown", 0, TRUE))
    /\ UNCHANGED vars /\ Quiet

Performs(verb) ==
    \/ verb = "register" /\ \E p \in Paths : RegisterRoot(p)
    \/ verb = "reattach" /\ \E r \in DOMAIN owner.roots, p \in Paths : ReattachRoot(r, p)
    \/ verb = "scan" /\ \E r \in DOMAIN owner.roots, found \in Findings : Scan(r, found)
    \/ verb = "relocate" /\ \E s \in DOMAIN owner.songs, r \in DOMAIN owner.roots, l \in Locators :
                               RelocateSong(s, r, l)
    \/ verb = "remove" /\ \E s \in DOMAIN owner.songs : RemoveSong(s)
    \/ verb = "overrides" /\ \E s \in DOMAIN owner.songs, v \in Overrides \cup {NoOverride} :
                                ReplaceUserOverrides(s, v)

MutateLine(verb) ==
    /\ Ready
    /\ Admitted(verb)
    /\ Performs(verb)
    /\ lastCommit' = "Unknown"
    /\ doubt' = {Capture(staged')}
    /\ at' = "call"
    /\ UNCHANGED <<gateVars, entry, reply, believed, outcome>>

\* The service refuses before it stages anything.
MutationRefused ==
    /\ Ready
    /\ MutationAllowed
    /\ LoseAuthority \/ UNCHANGED vars
    /\ ServiceError("Rejected")
    /\ Quiet

-----------------------------------------------------------------------------
(* The service call of a mutation, and the reply to it.                    *)

PublishCall ==
    /\ at \in {"creating", "call"}
    /\ Publish
    /\ UNCHANGED <<at, lastCommit, reply>> /\ Quiet

\* acknowledge: the outcome is recorded before anything is rendered.
AcknowledgeCall ==
    /\ at = "call"
    /\ \/ Acknowledge /\ lastCommit' = "Saved"
       \/ SaveUnchanged /\ lastCommit' = "NoChange"
    /\ at' = "format"
    /\ UNCHANGED reply /\ Quiet

SaveFails ==
    /\ at = "call"
    /\ \/ (NotCommitted \/ Distrusted) /\ ServiceError("Rejected")
       \/ CommitUncertain /\ ServiceError("Uncertain")
    /\ Quiet

\* The batch is complete, or a record did not fit.
Complete ==
    /\ at = "format"
    /\ \/ Respond(Answer(lastCommit, 0, FALSE)) /\ UNCHANGED lastCommit
       \/ LocalError(1, FALSE)
    /\ UNCHANGED vars /\ Quiet

-----------------------------------------------------------------------------
(* Lines of the audio session.  They leave lastCommit alone.               *)

AudioLine ==
    /\ at = "prompt" /\ entry = "audio"
    /\ UNCHANGED <<entry, lastCommit, knowledge, ordinary, exit>>

\* status, lyrics, help, and a play that names no song.
ShowLine ==
    /\ AudioLine
    /\ Respond(NoReply) \/ Respond(Rejection)
    /\ UNCHANGED <<vars, gateVars, trouble>>

\* The song cannot be prepared; that the authority is gone makes no difference
\* to the answer, and is marked.
PlayUnprepared ==
    /\ AudioLine
    /\ SongKnown
    /\ Respond(Rejection)
    /\ \/ LoseAuthority /\ trouble' = trouble \cup {"play"}
       \/ UNCHANGED <<vars, trouble>>
    /\ UNCHANGED gateVars

\* The controller starts it, and the reply may still be an error; or it
\* does not, or cannot undo what it started.
PlayLine ==
    /\ AudioLine
    /\ service = "Ready"
    /\ SongAttached
    /\ \/ Gate!Take /\ audible' /\ Respond(NoReply)
       \/ (Gate!Take \/ UNCHANGED gateVars) /\ Respond(Rejection)
    /\ UNCHANGED <<vars, trouble>>

\* A stop that is not confirmed may have silenced the backend.
Unconfirmed == held /\ (Gate!Silence \/ UNCHANGED gateVars)

StopLine ==
    /\ AudioLine
    /\ \/ Gate!LetGo /\ (Respond(NoReply) \/ Respond(Rejection))
       \/ Unconfirmed /\ Respond(Rejection)
    /\ UNCHANGED <<vars, trouble>>

\* The song ends on the audio thread; the controller retains it.
SongEnds ==
    /\ audible
    /\ Gate!Silence
    /\ UNCHANGED <<vars, entry, at, lastCommit, reply, knowledge, outcome>>

-----------------------------------------------------------------------------
(* Delivery and the end of the program.                                    *)

\* What the caller concludes from a reply it got.
Told(commit) ==
    /\ believed' = CASE commit = "Saved" -> doubt
                     [] commit = "Uncertain" -> believed \cup doubt
                     [] OTHER -> believed
    /\ doubt' = {}

\* What the caller has to allow for when a reply does not come.
Untold == believed' = believed \cup doubt /\ doubt' = {}

\* Mutant: only the last line decides the exit code.
LastOnly == reply.exit

\* An error is remembered to the end.
Ordinary == IF reply.exit # 0 THEN reply.exit ELSE ordinary

Deliver ==
    /\ at = "reply"
    /\ Told(reply.commit)
    /\ ordinary' = Ordinary
    /\ trouble' = IF reply.exit # 0 THEN trouble \cup {"error"} ELSE trouble
    /\ IF reply.terminal
       THEN at' = "finish" /\ exit' = Ordinary
       ELSE at' = "prompt" /\ UNCHANGED exit
    /\ reply' = NoReply
    /\ UNCHANGED <<vars, gateVars, entry, lastCommit>>

\* The reply cannot be rendered or written.
Lose ==
    /\ at = "reply"
    /\ at' = "finish" /\ reply' = NoReply
    /\ Untold
    /\ exit' = 74
    /\ trouble' = trouble \cup {"lost"}
    /\ UNCHANGED <<vars, gateVars, entry, lastCommit, ordinary>>

\* The input ends, in order or not, or a line runs out of memory.
EndOfInput ==
    /\ at = "prompt"
    /\ at' = "finish"
    /\ exit' \in {ordinary, 74}
    /\ UNCHANGED <<vars, gateVars, entry, lastCommit, reply, knowledge, ordinary, trouble>>

\* Mutant: the service is closed first.
ClosesFirst == "close"

AfterFinish == IF entry = "audio" THEN "destroy" ELSE "close"

\* finish: playback is stopped, once; a clean exit is not claimed for a stop
\* that was not confirmed.
Finish ==
    /\ at = "finish"
    /\ at' = AfterFinish
    /\ \/ Gate!LetGo /\ UNCHANGED <<exit, trouble>>
       \/ /\ Unconfirmed
          /\ exit' \in {IF exit = 0 THEN 1 ELSE exit, 74}
          /\ trouble' = trouble \cup {"unconfirmed"}
    /\ UNCHANGED <<vars, entry, lastCommit, reply, knowledge, ordinary>>

\* The controller's destructor stops or shuts down; then the service closes.
DestroyController ==
    /\ at = "destroy"
    /\ Gate!LetGo
    /\ at' = "close"
    /\ UNCHANGED <<vars, entry, lastCommit, reply, knowledge, outcome>>

CloseService ==
    /\ at = "close"
    /\ IF service \in {"Ready", "RecoveryRequired"} THEN Close ELSE UNCHANGED vars
    /\ at' = "end"
    /\ UNCHANGED <<gateVars, entry, lastCommit, reply, knowledge, outcome>>

Leave == IF service = "none" THEN UNCHANGED vars ELSE Crash

Exit ==
    /\ at = "end"
    /\ Leave
    /\ Untold
    /\ at' = "off"
    /\ entry' = "management"
    /\ UNCHANGED <<gateVars, lastCommit, reply, outcome>>

\* The program is killed.
Kill ==
    /\ at \notin {"off", "end"}
    /\ Leave
    /\ Untold
    /\ Gate!LetGo
    /\ NewRun
    /\ entry' = "management"
    /\ at' = "off"

CutPower ==
    /\ PowerCut
    /\ Untold
    /\ Gate!LetGo
    /\ NewRun
    /\ entry' = "management"
    /\ at' = "off"

Line ==
    \/ NotReady \/ RejectLine \/ Query \/ PrepareLine \/ Quit
    \/ \E verb \in Verbs : MutateLine(verb)
    \/ MutationRefused
    \/ ShowLine \/ PlayUnprepared \/ PlayLine \/ StopLine

Run ==
    \/ Created \/ CreateFails \/ AudioRefused \/ Greet
    \/ PublishCall \/ AcknowledgeCall \/ SaveFails \/ Complete
    \/ Deliver \/ Lose
    \/ Finish \/ DestroyController \/ CloseService \/ Exit

SessionNext ==
    \/ OpenLibrary \/ OpenRefused \/ CreateLibrary
    \/ Line \/ EndOfInput \/ Run
    \/ SongEnds \/ Kill \/ CutPower

SessionSpec == SessionInit /\ [][SessionNext]_sessionVars

-----------------------------------------------------------------------------
(* Properties.                                                             *)

\* Through failures, lost replies, kills and power cuts, what is in the store,
\* and what a power cut would leave there, is what the replies say: Saved is
\* durable, Rejected left nothing, and anything else was announced as open.
CallerKnowsTheStore == {value, confirmed} \subseteq believed \cup doubt

\* No mutation is under way while a song sounds, and the service is closed
\* only after playback is over, also when a stop was not confirmed.
SilentWhileSaving ==
    /\ call # "idle" => ~audible
    /\ service = "Closed" => ~held /\ ~audible

\* Exit code 0 means that every line was carried out, every reply delivered,
\* the backend up and playback confirmed as stopped; a reply that got lost ends
\* with 74 (README.md:399).  A line that finds the service in need of recovery
\* is the last, in a run with audio as in one without and after whatever
\* errors, and the run ends with 76, or 74 where input, output or memory fails.
\* One line is not so, and where it brought the need for recovery about
\* nothing is said here of 76: the audio session's play (RecoveryEndsWith76).
ExitIsHonest ==
    /\ at \in {"close", "end"} =>
          /\ exit = 0 => trouble = {}
          /\ "lost" \in trouble => exit = 74
    /\ service = "RecoveryRequired" /\ "play" \notin trouble =>
          /\ at # "prompt"
          /\ at = "close" => exit \in {74, 76}

\* "RecoveryRequired ends the session with exit 76" (README.md:352), whichever
\* line found it: a run that closes a service in need of recovery exits with
\* 76, or with the 74 of "output/input I/O failure" (README.md:399).
RecoveryEndsWith76 ==
    at = "close" /\ service = "RecoveryRequired" => exit \in {74, 76}
=============================================================================
