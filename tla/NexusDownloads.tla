--------------------------- MODULE NexusDownloads ---------------------------
(***************************************************************************)
(* In-app and nxm:// downloads: the one rate limiter every request goes    *)
(* through, the cooperative cancel flag, the untrusted archive beside the   *)
(* staging trees, its validation, the move into the mod's staging root, the *)
(* rows in the store and the row the window shows.                          *)
(*                                                                         *)
(* A task is one call of run_download_to_window.  Between two steps of a    *)
(* task any other task, the clock or the user may run: the AppState mutex   *)
(* is taken and released three times per task and never held across a       *)
(* request.  Times are whole seconds, a token is one request of the budget. *)
(***************************************************************************)
EXTENDS Naturals, Integers, FiniteSets

CONSTANTS Tasks,        \* the downloads of one session
          Invoked,      \* those the window started with start_download; the
                        \* others come from an nxm:// link
          Root, File,   \* Root[t]: the staging root its display name gives;
                        \* File[t]: the NexusMods file it downloads
          Cap,          \* the token bucket's size
          Resets,       \* the X-RL-*-Reset values the server sends
          MaxChunks     \* bound: chunks of a body (an empty body is no archive)

ASSUME DownloadAssumption ==
  /\ IsFiniteSet(Tasks) /\ Invoked \subseteq Tasks
  /\ Cap \in Nat \ {0} /\ MaxChunks \in Nat \ {0}
  /\ Resets \subseteq Nat /\ IsFiniteSet(Resets)

VARIABLES
  deadline,   \* backoff_until: seconds still to sleep, 0 = elapsed but recorded
  tokens,     \* tokens left in the bucket
  pc,         \* pc[t]: where the task stands
  req,        \* req[t]: the request it is making
  left,       \* left[t]: chunks of the body still to come
  registered, \* the tasks whose cancel flag AppState.downloads holds
  tripped,    \* the tasks whose cancel flag is set
  archive,    \* archive[t]: the .nextwist-dl-<id>.archive file
  staged,     \* staged[t]: how much of the mod's tree is in its staging root
              \* (mixed: files of another download came into it since)
  mods,       \* the tasks whose managed_mod row is in the store
  sourced,    \* ... and whose nexus_source row is
  outcome,    \* outcome[t]: the terminal event the task will emit
  row,        \* row[t]: the state of its row in the window
  stopped     \* history: tasks cancelled with at least one chunk to come

limiter == <<deadline, tokens>>
flags   == <<registered, tripped, stopped>>
disk    == <<archive, staged>>
store   == <<mods, sourced>>
vars    == <<limiter, pc, req, left, flags, disk, store, outcome, row>>

Unset == -1   \* no deadline is recorded

Window == {"stream", "extract", "move", "moving"}   \* the archive guard is in scope

Before == {"lookup", "register", "gate", "clear", "token", "sent", "open"}

Init ==
  /\ deadline = Unset /\ tokens = Cap
  /\ pc = [t \in Tasks |-> "idle"] /\ req = [t \in Tasks |-> "link"]
  /\ left = [t \in Tasks |-> 0]
  /\ registered = {} /\ tripped = {} /\ stopped = {}
  /\ archive = [t \in Tasks |-> "none"] /\ staged = [t \in Tasks |-> "none"]
  /\ mods = {} /\ sourced = {}
  /\ outcome = [t \in Tasks |-> "none"] /\ row = [t \in Tasks |-> "none"]

-----------------------------------------------------------------------------
\* The rate limiter.

\* Time passes: the deadline comes nearer and the bucket regains a token.
Tick ==
  /\ deadline > 0 \/ tokens < Cap
  /\ deadline' = IF deadline > 0 THEN deadline - 1 ELSE deadline
  /\ tokens' = IF tokens < Cap THEN tokens + 1 ELSE tokens
  /\ UNCHANGED <<pc, req, left, flags, disk, store, outcome, row>>

\* MUTANT of Arm: the new deadline replaces whatever was recorded.
ArmReplaces(reset) == deadline' = reset

\* A 429 or a low remaining budget: keep the later of the two deadlines.
Arm(reset) == deadline' = IF deadline > reset THEN deadline ELSE reset

\* A healthy response, or a task that finds no deadline ahead, drops one that
\* has elapsed; one still ahead was armed by another request and stays.
DropElapsed == deadline' = IF deadline = 0 THEN Unset ELSE deadline

\* until_ready: no deadline ahead at this look.
Gate(t) ==
  /\ pc[t] = "gate" /\ deadline <= 0
  /\ pc' = [pc EXCEPT ![t] = "clear"]
  /\ UNCHANGED <<limiter, req, left, flags, disk, store, outcome, row>>

\* ... the lock is taken again to drop it; another response may have come in
\* between.
ClearElapsed(t) ==
  /\ pc[t] = "clear" /\ DropElapsed
  /\ pc' = [pc EXCEPT ![t] = "token"]
  /\ UNCHANGED <<tokens, req, left, flags, disk, store, outcome, row>>

\* ... then the bucket.  The deadline is not looked at again.
TakeToken(t) ==
  /\ pc[t] = "token" /\ tokens > 0
  /\ tokens' = tokens - 1
  /\ pc' = [pc EXCEPT ![t] = "sent"]
  /\ UNCHANGED <<deadline, req, left, flags, disk, store, outcome, row>>

\* note_headers: what the response says of the budget.
NoteHeaders == DropElapsed \/ UNCHANGED deadline \/ \E r \in Resets : Arm(r)

-----------------------------------------------------------------------------
\* The window and the cancel flag.

\* The user starts (or retries) a download, or clicks an nxm:// link: the row
\* is there before the backend has done anything.
Begin(t) ==
  /\ pc[t] = "idle"
  /\ pc' = [pc EXCEPT ![t] = "lookup"] /\ row' = [row EXCEPT ![t] = "downloading"]
  /\ UNCHANGED <<limiter, req, left, flags, disk, store, outcome>>

\* Cancel trips the flag AppState holds for the id.  Before Register there is
\* none yet and the click is lost; after the last chunk nobody looks.
Cancel(t) ==
  /\ row[t] = "downloading" /\ t \in registered \ tripped
  /\ tripped' = tripped \cup {t}
  /\ stopped' = IF pc[t] \in Before \/ (pc[t] = "stream" /\ left[t] > 0)
                THEN stopped \cup {t} ELSE stopped
  /\ UNCHANGED <<limiter, pc, req, left, registered, disk, store, outcome, row>>

\* What the window makes of the error a command returns.  A link's task has no
\* caller: the error goes nowhere.
Caught(t) ==
  row' = IF t \in Invoked /\ row[t] # "removed"
         THEN [row EXCEPT ![t] = "failed"] ELSE row

\* An error before the flag is registered returns at once, with no event.
Refuse(t) ==
  /\ pc[t] \in {"lookup", "register"}   \* unknown game; not logged in
  /\ pc' = [pc EXCEPT ![t] = "ended"] /\ Caught(t)
  /\ UNCHANGED <<limiter, req, left, flags, disk, store, outcome>>

RequireGame(t) ==
  /\ pc[t] = "lookup" /\ pc' = [pc EXCEPT ![t] = "register"]
  /\ UNCHANGED <<limiter, req, left, flags, disk, store, outcome, row>>

Register(t) ==
  /\ pc[t] = "register" /\ pc' = [pc EXCEPT ![t] = "gate"]
  /\ registered' = registered \cup {t}
  /\ UNCHANGED <<limiter, req, left, tripped, stopped, disk, store, outcome, row>>

-----------------------------------------------------------------------------
\* run_download.

\* MUTANT of Unlinked: the archive is left for the next attempt to resume.
UnlinkedNever(t) == UNCHANGED archive

\* The guard unlinks the archive on every way out of the window.
Unlinked(t) == archive' = [archive EXCEPT ![t] = "none"]

Fails(t, how) == /\ pc' = [pc EXCEPT ![t] = "report"]
                 /\ outcome' = [outcome EXCEPT ![t] = how]

\* The link, then the metadata: each request passes the limiter.
Answered(t) ==
  /\ pc[t] = "sent" /\ NoteHeaders
  /\ \/ /\ req[t] = "link" /\ req' = [req EXCEPT ![t] = "meta"]
        /\ pc' = [pc EXCEPT ![t] = "gate"] /\ UNCHANGED outcome
     \/ /\ req[t] = "meta" /\ pc' = [pc EXCEPT ![t] = "open"]
        /\ UNCHANGED <<req, outcome>>
     \/ Fails(t, "failed") /\ UNCHANGED req        \* no link, a 4xx, no JSON
     \/ /\ req[t] = "link" /\ t \notin Invoked     \* a key that has expired
        /\ Fails(t, "removed") /\ UNCHANGED req
  /\ UNCHANGED <<tokens, left, flags, disk, store, row>>

TooManyRequests(t) ==
  /\ pc[t] = "sent" /\ \E r \in Resets : Arm(r)
  /\ Fails(t, "ratelimited")
  /\ UNCHANGED <<tokens, req, left, flags, disk, store, row>>

NoAnswer(t) ==
  /\ pc[t] = "sent" /\ Fails(t, "failed")
  /\ UNCHANGED <<limiter, req, left, flags, disk, store, row>>

\* The CDN answers and the archive file is created, or neither.
OpenStream(t) ==
  /\ pc[t] = "open"
  /\ \/ /\ archive' = [archive EXCEPT ![t] = "part"] /\ UNCHANGED outcome
        /\ \E n \in 1 .. MaxChunks : left' = [left EXCEPT ![t] = n]
        /\ pc' = [pc EXCEPT ![t] = "stream"]
     \/ Fails(t, "failed") /\ Unlinked(t) /\ UNCHANGED left
  /\ UNCHANGED <<limiter, req, flags, staged, store, row>>

\* MUTANT of Chunk: the flag is looked at before the first chunk only.
ChunkUnstoppable(t) ==
  /\ pc[t] = "stream" /\ left[t] > 0
  /\ \/ /\ left' = [left EXCEPT ![t] = @ - 1] /\ UNCHANGED <<pc, archive, outcome>>
     \/ Fails(t, "failed") /\ Unlinked(t) /\ UNCHANGED left
  /\ UNCHANGED <<limiter, req, flags, staged, store, row>>

\* One chunk: the flag is looked at first, and a tripped one ends the stream.
Chunk(t) ==
  /\ pc[t] = "stream" /\ left[t] > 0
  /\ \/ /\ t \notin tripped /\ left' = [left EXCEPT ![t] = @ - 1]
        /\ UNCHANGED <<pc, archive, outcome>>
     \/ Fails(t, "failed") /\ Unlinked(t) /\ UNCHANGED left
  /\ UNCHANGED <<limiter, req, flags, staged, store, row>>

Flush(t) ==
  /\ pc[t] = "stream" /\ left[t] = 0
  /\ archive' = [archive EXCEPT ![t] = "whole"]
  /\ pc' = [pc EXCEPT ![t] = "extract"] /\ row' = [row EXCEPT ![t] = "extracting"]
  /\ UNCHANGED <<limiter, req, left, flags, staged, store, outcome>>

\* install_archive, first half: every entry is validated into a directory of
\* its own, which is dropped with everything in it when one is refused.
Extract(t) ==
  /\ pc[t] = "extract"
  /\ \/ pc' = [pc EXCEPT ![t] = "move"] /\ UNCHANGED <<archive, outcome>>
     \/ Fails(t, "failed") /\ Unlinked(t)
  /\ UNCHANGED <<limiter, req, left, flags, staged, store, row>>

\* The root is named after the display name alone.
Shares(s, t) == Root[s] = Root[t] /\ File[s] # File[t]

\* Files moved into a root in use replace those of the same name, and the trees
\* of other files found there, or on their way there, are mixed with t's.
Merged(t, how) ==
  staged' = [s \in Tasks |->
               IF s = t THEN how
               ELSE IF Shares(s, t) /\ staged[s] # "none" THEN "mixed" ELSE staged[s]]

\* ... second half: the tree is renamed into the root, or moved file by file
\* into one that exists; another task may be moving its own there.
StartMove(t) ==
  /\ pc[t] = "move" /\ Merged(t, "part")
  /\ pc' = [pc EXCEPT ![t] = "moving"]
  /\ UNCHANGED <<limiter, req, left, flags, archive, store, outcome, row>>

\* MUTANT of MoveIntoStaging: an error in mid-move is logged and ignored.
MoveBestEffort(t) ==
  /\ pc[t] = "moving" /\ Unlinked(t)
  /\ Merged(t, IF staged[t] = "mixed" THEN "mixed" ELSE "whole") \/ Merged(t, staged[t])
  /\ pc' = [pc EXCEPT ![t] = "persist"]
  /\ UNCHANGED <<limiter, req, left, flags, store, outcome, row>>

\* ... an error leaves it half done.
MoveIntoStaging(t) ==
  /\ pc[t] = "moving" /\ Unlinked(t)
  /\ \/ /\ Merged(t, IF staged[t] = "mixed" THEN "mixed" ELSE "whole")
        /\ pc' = [pc EXCEPT ![t] = "persist"] /\ UNCHANGED outcome
     \/ Merged(t, staged[t]) /\ Fails(t, "failed")
  /\ UNCHANGED <<limiter, req, left, flags, store, row>>

\* The mod's row and its provenance, two statements without a transaction.
Persist(t) ==
  /\ pc[t] = "persist"
  /\ \/ mods' = mods \cup {t} /\ sourced' = sourced \cup {t}
        /\ pc' = [pc EXCEPT ![t] = "report"]
        /\ outcome' = [outcome EXCEPT ![t] = "done"]
     \/ mods' = mods \cup {t} /\ Fails(t, "failed") /\ UNCHANGED sourced
     \/ Fails(t, "failed") /\ UNCHANGED store
  /\ UNCHANGED <<limiter, req, left, flags, disk, row>>

\* The flag is dropped and the terminal event emitted.
Report(t) ==
  /\ pc[t] = "report"
  /\ registered' = registered \ {t}
  /\ row' = [row EXCEPT ![t] = outcome[t]]
  /\ pc' = [pc EXCEPT ![t] = IF outcome[t] = "done" THEN "ended" ELSE "reject"]
  /\ UNCHANGED <<limiter, req, left, tripped, stopped, disk, store, outcome>>

\* MUTANT of Rejected: a paused row is left for the resume the notice promises.
RejectedUnlessPaused(t) ==
  /\ pc[t] = "reject" /\ pc' = [pc EXCEPT ![t] = "ended"]
  /\ IF row[t] = "ratelimited" THEN UNCHANGED row ELSE Caught(t)
  /\ UNCHANGED <<limiter, req, left, flags, disk, store, outcome>>

\* ... and the command's error reaches its caller after it.
Rejected(t) ==
  /\ pc[t] = "reject" /\ pc' = [pc EXCEPT ![t] = "ended"] /\ Caught(t)
  /\ UNCHANGED <<limiter, req, left, flags, disk, store, outcome>>

\* The process is killed: files stay as they are, everything else is gone.
Kill ==
  /\ \E t \in Tasks : pc[t] \notin {"idle", "ended", "killed"}
  /\ pc' = [t \in Tasks |-> "killed"] /\ row' = [t \in Tasks |-> "none"]
  /\ registered' = {} /\ deadline' = Unset /\ tokens' = Cap
  /\ UNCHANGED <<req, left, tripped, stopped, disk, store, outcome>>

Step(t) ==
  \/ Refuse(t) \/ RequireGame(t) \/ Register(t)
  \/ Gate(t) \/ ClearElapsed(t) \/ TakeToken(t)
  \/ Answered(t) \/ TooManyRequests(t) \/ NoAnswer(t)
  \/ OpenStream(t) \/ Chunk(t) \/ Flush(t) \/ Extract(t)
  \/ StartMove(t) \/ MoveIntoStaging(t)
  \/ Persist(t) \/ Report(t) \/ Rejected(t)

Next == Tick \/ Kill \/ \E t \in Tasks : Begin(t) \/ Cancel(t) \/ Step(t)

\* A server that answers, a clock that runs and a runtime that polls its tasks.
Spec == Init /\ [][Next]_vars /\ WF_vars(Tick) /\ \A t \in Tasks : WF_vars(Step(t))

-----------------------------------------------------------------------------
States == {"idle", "ended", "killed", "report", "reject", "persist"} \cup Before \cup Window

TypeOK ==
  /\ deadline \in {Unset, 0} \cup UNION {0 .. r : r \in Resets}
  /\ tokens \in 0 .. Cap
  /\ pc \in [Tasks -> States] /\ req \in [Tasks -> {"link", "meta"}]
  /\ left \in [Tasks -> 0 .. MaxChunks]
  /\ registered \subseteq Tasks /\ tripped \subseteq Tasks /\ stopped \subseteq tripped
  /\ archive \in [Tasks -> {"none", "part", "whole"}]
  /\ staged \in [Tasks -> {"none", "part", "mixed", "whole"}]
  /\ mods \subseteq Tasks /\ sourced \subseteq mods
  /\ outcome \in [Tasks -> {"none", "done", "failed", "ratelimited", "removed"}]
  /\ row \in [Tasks -> {"none", "downloading", "extracting"}
                         \cup {"done", "failed", "ratelimited", "removed"}]

\* A backoff that one response armed is never cut short by another request's
\* response, nor by a task that clears what it took for an elapsed deadline:
\* only time brings the deadline nearer (ratelimit.rs, until_ready and
\* note_headers).
BackoffHeld ==
  [][(\E t \in Tasks : pc'[t] # pc[t] /\ pc'[t] # "killed") /\ deadline > 0
       => deadline' >= deadline]_vars

\* While the process lives, an untrusted archive is in the staging directory
\* only as long as the task that is downloading or extracting it
\* (downloads.rs, TempArchive).
NoOrphanArchive ==
  \A t \in Tasks : archive[t] # "none" => pc[t] \in Window \cup {"killed"}

\* A mod the store lists was moved into its staging root to the last file, and
\* is whole there unless another NexusMods file of the same display name has been
\* moved into that root meanwhile or since, wherever an error or a kill stopped
\* either of them (downloads.rs steps 4 and 5).
ListedIsStaged ==
  \A t \in mods :
    \/ staged[t] = "whole"
    \/ staged[t] = "mixed" /\ \E s \in Tasks : Shares(s, t) /\ staged[s] # "none"

\* A download cancelled while a chunk was still to come never becomes a mod
\* (download.rs, "a cancelled download must not look done").
CancelStops == stopped \cap mods = {}

\* The row of a download the window started leaves its transient states: it
\* ends done, failed (with its Retry) or removed, also when the server answered
\* 429 and whatever the others do to the limiter (downloads.rs, +page.svelte).
InvokedRowSettles ==
  \A t \in Invoked : row[t] # "none" ~> row[t] \in {"none", "done", "failed", "removed"}

=============================================================================
