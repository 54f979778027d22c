------------------------------ MODULE Screening ------------------------------
(***************************************************************************)
(* Attempts of the scheduler become results, candidates and receipts:      *)
(* the monitor (alerts/analytical_monitor.py) and its store                *)
(* (alerts/analytical_state.py), for one stream of results: one rule, one  *)
(* asset and one source.                                                   *)
(*                                                                         *)
(* The store keeps a journal, to which the records of an observation are   *)
(* appended one after another, and a document, replaced at the end, that   *)
(* says which of them count.  Before the first append an empty document    *)
(* and the journal itself are prepared, file by file.  Every start finds   *)
(* out from the files whether the store began with a document of the first *)
(* version, which is preserved: then it reads its journal alone.  The      *)
(* scheduler thread observes attempts; HTTP threads move candidates on;    *)
(* the process may be killed between any two writes.  Every reading of the *)
(* clock is a later instant than the one before.                           *)
(***************************************************************************)
EXTENDS Naturals, FiniteSets

CONSTANTS
  Attempts,    \* attempts of the job, in their order and in that of known_at
  Required,    \* confirmations_required of the rule
  Cooldown,    \* cooldown_seconds of the rule
  Moves,       \* bound: what the user may do with candidates
  MaxMoves,    \* bound: how often
  MaxCrashes,  \* bound: kills of the process
  MaxFaults    \* bound: failed writes

ASSUME AttemptsAssumption == Attempts \subseteq Nat \ {0} /\ IsFiniteSet(Attempts)
ASSUME RuleAssumption == Required \in Nat \ {0} /\ Cooldown \in Nat
ASSUME ScreeningBounds ==
  /\ Moves \subseteq {"seen", "closed", "resolved"}
  /\ MaxMoves \in Nat /\ MaxCrashes \in Nat /\ MaxFaults \in Nat

VARIABLES
  clock,     \* readings of the clock so far
  evidence,  \* durable: what each attempt left to be screened, or "none"
  period,    \* durable: as_of of that evidence
  stored,    \* durable: the document exists
  files,     \* durable: the directory of the journal: none, empty, some, manifest
  marker,    \* durable: it has the file .legacy_v1_preserved
  doc,       \* durable: the records of the document
  journal,   \* durable: the records of the journal
  preserved, \* _is_preexisting_legacy
  cache,     \* _cached_state
  thread,    \* the scheduler thread: down, boot, idle, retry, observe
  todo,      \* the attempts it has to observe before it goes on
  owed,      \* the attempts whose observer failed: _pending_notifications
  screened,  \* the attempt it has evaluated, with the reading of the clock
  lock,      \* who holds the lock of the store: free, thread, user
  tried,     \* the holder is not to touch the marker
  rest,      \* the records the holder has still to append
  goal,      \* the state the holder will cache
  orphaned,  \* history: records were left behind that the state does not have
  late,      \* history: an attempt was recorded after a later one
  moves, crashes, faults  \* bounds used so far

prepared == <<stored, files, marker>>
durable == <<evidence, period, prepared, doc, journal>>
writing == <<lock, tried, rest, goal>>
hist == <<orphaned, late>>
bounds == <<moves, crashes, faults>>
vars == <<clock, evidence, period, stored, files, marker, doc, journal, preserved, cache,
          thread, todo, owed, screened, lock, tried, rest, goal, orphaned, late,
          moves, crashes, faults>>

Empty == [results |-> {}, cands |-> {}, trans |-> {}, rcpts |-> {}]
Kinds == {"skipped", "met", "held", "cleared"}
NotScreened == [id |-> 0, at |-> 0]

First(n, S) == n \in S /\ \A m \in S : n <= m
Ids(S) == {r.id : r \in S}
Plus(s, r) == [results |-> s.results \cup r.results, cands |-> s.cands \cup r.cands,
               trans |-> s.trans \cup r.trans, rcpts |-> s.rcpts \cup r.rcpts]
Minus(s, r) == [results |-> s.results \ r.results, cands |-> s.cands \ r.cands,
                trans |-> s.trans \ r.trans, rcpts |-> s.rcpts \ r.rcpts]

-----------------------------------------------------------------------------
(* What a state says *)

Of(s, id) == {t \in s.trans : t.id = id}

\* The last transition of a candidate, in the order of recorded_at.
StatusIn(s, id) ==
  IF Of(s, id) = {} THEN "new"
  ELSE (CHOOSE t \in Of(s, id) : \A u \in Of(s, id) : u.at <= t.at).to

\* Fault: the exit of the evidence resolves what is resolved already.
OpenOrResolved(s) == s.cands

Open(s) == {c \in s.cands : StatusIn(s, c.id) # "resolved"}

Sequential(s, id) ==
  \A t \in Of(s, id) :
    LET before == {u \in Of(s, id) : u.at < t.at}
    IN t.from = StatusIn([s EXCEPT !.trans = before], id)

OnePerId(S) == \A r, q \in S : r.id = q.id => r = q

\* validate_history: unique identities, known references, and transitions that
\* follow each other.
Valid(s) ==
  /\ OnePerId(s.cands) /\ OnePerId(s.rcpts)
  /\ Ids(s.cands) \subseteq s.results
  /\ \A r \in s.rcpts : evidence[r.id] # "skipped" => r.id \in s.results
  /\ Ids(s.trans) \subseteq Ids(s.cands)
  /\ \A id \in Ids(s.cands) : Sequential(s, id)

\* What a start takes for a preserved document of the first version: the marker
\* says so, or there is a document and the journal has no file.
PreservedAtStart == marker \/ (stored /\ files \in {"none", "empty"})

\* The kind of the store for the process that is up, or for the next one.
JournalAlone == IF thread = "down" THEN PreservedAtStart ELSE preserved

\* load: what the document does not name is left out, except transitions; an
\* empty document names nothing, and before there is one the journal is empty.
Loaded ==
  IF JournalAlone THEN journal
  ELSE [results |-> doc.results,
        cands |-> doc.cands \cup {c \in journal.cands : c.id \in Ids(doc.cands)},
        trans |-> doc.trans \cup journal.trans,
        rcpts |-> doc.rcpts \cup {r \in journal.rcpts : r.id \in Ids(doc.rcpts)}]

-----------------------------------------------------------------------------
\* A store without any file, or with a document of the first version, which says
\* nothing of this stream.
Init ==
  /\ clock = 0
  /\ evidence = [a \in Attempts |-> "none"]
  /\ period = [a \in Attempts |-> 0]
  /\ stored \in BOOLEAN
  /\ files = "none"
  /\ marker = FALSE
  /\ doc = Empty
  /\ journal = Empty
  /\ preserved = FALSE
  /\ cache = Empty
  /\ thread = "down"
  /\ todo = {}
  /\ owed = {}
  /\ screened = NotScreened
  /\ lock = "free"
  /\ tried = FALSE
  /\ rest = Empty
  /\ goal = Empty
  /\ orphaned = FALSE
  /\ late = FALSE
  /\ moves = 0
  /\ crashes = 0
  /\ faults = 0

-----------------------------------------------------------------------------
(* The service starts *)

Done == {a \in Attempts : evidence[a] # "none"}

\* Fault: a start leaves what was not observed to the next attempts.
BootWithoutReplay ==
  /\ thread = "down"
  /\ Valid(Loaded)
  /\ preserved' = PreservedAtStart
  /\ cache' = Loaded
  /\ todo' = {}
  /\ thread' = "boot"
  /\ UNCHANGED <<clock, durable, owed, screened, writing, hist, bounds>>

\* The state is loaded once, and every finished attempt without a receipt is
\* observed before HTTP and the scheduler are up.
Boot ==
  /\ thread = "down"
  /\ Valid(Loaded)
  /\ preserved' = PreservedAtStart
  /\ cache' = Loaded
  /\ todo' = Done \ Ids(Loaded.rcpts)
  /\ thread' = "boot"
  /\ UNCHANGED <<clock, durable, owed, screened, writing, hist, bounds>>

Booted ==
  /\ thread = "boot"
  /\ todo = {}
  /\ thread' = "idle"
  /\ UNCHANGED <<clock, durable, preserved, cache, todo, owed, screened, writing, hist, bounds>>

\* The holder lets the lock of the store go.
Released == lock' = "free" /\ tried' = FALSE /\ rest' = Empty /\ goal' = Empty

\* Nothing is left of the process but what it wrote.
ProcessEnds ==
  /\ thread' = "down"
  /\ preserved' = FALSE
  /\ cache' = Empty
  /\ todo' = {}
  /\ owed' = {}
  /\ screened' = NotScreened
  /\ Released

-----------------------------------------------------------------------------
(* The scheduler thread *)

\* A tick begins with the attempts whose observer failed before.
Tick ==
  /\ thread = "idle"
  /\ owed # {}
  /\ todo' = owed
  /\ thread' = "retry"
  /\ UNCHANGED <<clock, durable, preserved, cache, owed, screened, writing, hist, bounds>>

\* An attempt of the job ends, at most one in a tick and after what failed
\* before has had another try; its evidence is of the period of the last one or
\* of a new one.
AttemptEnds(a, k) ==
  /\ \/ thread = "idle" /\ owed = {}
     \/ thread = "retry" /\ todo = {}
  /\ First(a, Attempts \ Done)
  /\ evidence' = [evidence EXCEPT ![a] = k]
  /\ \E p \in {0, 1} :
       /\ Done = {} => p = 1
       /\ period' = [period EXCEPT ![a] =
                       p + Cardinality({period[b] : b \in Done})]
  /\ todo' = {a}
  /\ thread' = "observe"
  /\ UNCHANGED <<clock, prepared, doc, journal, preserved, cache, owed, screened, writing, hist,
                 bounds>>

TickEnds ==
  /\ thread \in {"retry", "observe"}
  /\ todo = {}
  /\ thread' = "idle"
  /\ UNCHANGED <<clock, durable, preserved, cache, todo, owed, screened, writing, hist, bounds>>

\* contains_attempt: an attempt with a receipt is done.
AlreadyRecorded(a) ==
  /\ thread \in {"boot", "retry", "observe"}
  /\ screened = NotScreened
  /\ First(a, todo)
  /\ a \in Ids(cache.rcpts)
  /\ todo' = todo \ {a}
  /\ owed' = owed \ {a}
  /\ UNCHANGED <<clock, durable, preserved, cache, thread, screened, writing, hist, bounds>>

\* The engine evaluates the rule, outside the lock; a skipped attempt is
\* processed at the time it was completed, without a reading of the clock.
Evaluate(a) ==
  /\ thread \in {"boot", "retry", "observe"}
  /\ screened = NotScreened
  /\ First(a, todo)
  /\ a \notin Ids(cache.rcpts)
  /\ IF evidence[a] = "skipped"
     THEN screened' = [id |-> a, at |-> 0] /\ UNCHANGED clock
     ELSE screened' = [id |-> a, at |-> clock + 1] /\ clock' = clock + 1
  /\ UNCHANGED <<durable, preserved, cache, thread, todo, owed, writing, hist, bounds>>

\* The observer has failed: at the start the service ends with it, later the
\* attempt is kept for the next tick.
Observed(failed) ==
  LET a == screened.id
  IN /\ todo' = todo \ {a}
     /\ owed' = IF failed THEN owed \cup {a} ELSE owed \ {a}
     /\ screened' = NotScreened
     /\ UNCHANGED thread

-----------------------------------------------------------------------------
(* record_attempt *)

\* Fault: every matched result counts, the revisions of one period as well.
ConfirmationsOfRevisions(results, a) ==
  LET earlier == {b \in results : b <= a}
  IN Cardinality({b \in earlier : \A c \in earlier : c >= b => evidence[c] = "met"})

\* _confirmation_count: the periods before this result, latest first, each as
\* it was last seen, until one that did not match.
Confirmations(results, a) ==
  LET earlier == {b \in results : b <= a}
      last(p) == CHOOSE b \in earlier :
                   period[b] = p /\ \A c \in earlier : period[c] = p => c <= b
      periods == {period[b] : b \in earlier}
  IN Cardinality({p \in periods :
       \A q \in periods : q >= p => evidence[last(q)] = "met"})

\* Fault: a candidate the user closed no longer stands in the way.
ActivatesUnlessNew(s, a, at) ==
  /\ evidence[a] = "met"
  /\ \A c \in s.cands : StatusIn(s, c.id) \in {"closed", "resolved"}
  /\ Confirmations(s.results \cup {a}, a) >= Required
  /\ \A c \in s.cands : at >= c.at + Cooldown

\* A result opens a candidate when none is open, with enough confirmations and
\* outside the cooldown of the ones before.
Activates(s, a, at) ==
  /\ evidence[a] = "met"
  /\ Open(s) = {}
  /\ Confirmations(s.results \cup {a}, a) >= Required
  /\ \A c \in s.cands : at >= c.at + Cooldown

Move(s, c, to, at) == [id |-> c.id, from |-> StatusIn(s, c.id), to |-> to, at |-> at]

\* What the observation of an attempt adds to a state.
Observation(s, a, at) ==
  [results |-> IF evidence[a] = "skipped" THEN {} ELSE {a},
   cands |-> IF Activates(s, a, at) THEN {[id |-> a, at |-> at]} ELSE {},
   trans |-> IF evidence[a] = "cleared"
             THEN {Move(s, c, "resolved", at) : c \in Open(s)}
             ELSE {},
   rcpts |-> {[id |-> a, at |-> at]}]

\* Fault: the new state is built without being validated.
RecordUnchecked ==
  /\ screened # NotScreened
  /\ lock = "free"
  /\ lock' = "thread"
  /\ goal' = Plus(cache, Observation(cache, screened.id, screened.at))
  /\ rest' = Minus(Observation(cache, screened.id, screened.at),
                   [Empty EXCEPT !.results = cache.results])
  /\ tried' = FALSE
  /\ UNCHANGED <<clock, durable, preserved, cache, thread, todo, owed, screened, hist, bounds>>

\* A state that does not validate raises before anything is written: the user
\* moved the candidate after the clock was read for the evaluation.
Record ==
  /\ screened # NotScreened
  /\ lock = "free"
  /\ LET new == Observation(cache, screened.id, screened.at)
         next == Plus(cache, new)
     IN IF Valid(next)
        THEN /\ lock' = "thread"
             /\ goal' = next
             /\ rest' = Minus(new, [Empty EXCEPT !.results = cache.results])
             /\ late' = (late \/ \E b \in Ids(cache.rcpts) : b > screened.id)
             /\ UNCHANGED <<tried, thread, todo, owed, screened>>
        ELSE thread # "boot" /\ Observed(TRUE) /\ UNCHANGED <<writing, late>>
  /\ UNCHANGED <<clock, durable, preserved, cache, orphaned, bounds>>

-----------------------------------------------------------------------------
(* The writes of the holder of the lock *)

\* The next record: results, candidates, transitions, then the receipt.
NextRecord ==
  IF rest.results # {} THEN [Empty EXCEPT !.results = rest.results]
  ELSE IF rest.cands # {} THEN [Empty EXCEPT !.cands = rest.cands]
  ELSE IF rest.trans # {} THEN [Empty EXCEPT !.trans = rest.trans]
  ELSE [Empty EXCEPT !.rcpts = rest.rcpts]

\* A candidate, a transition or a receipt that the journal has and the state
\* of the store has not.
Behind(j, s) == Minus(j, s).cands \cup Minus(j, s).trans \cup Minus(j, s).rcpts # {}

\* The write raises: the start ends, the attempt is kept, or the user is told.
Raised ==
  IF lock = "user"
  THEN UNCHANGED <<preserved, cache, thread, todo, owed, screened>> /\ Released
  ELSE IF thread = "boot" THEN ProcessEnds
  ELSE Observed(TRUE) /\ UNCHANGED <<preserved, cache>> /\ Released

\* _ensure_legacy_v1_folded touches the marker of a store that is preserved when
\* its directory exists, before and after it prepares the journal.
Touchable == preserved /\ ~marker /\ files # "none" /\ ~tried

\* A touch that fails is suppressed.
Touch ==
  /\ lock # "free"
  /\ Touchable
  /\ \/ /\ marker' = TRUE
        /\ files' = IF files = "empty" THEN "some" ELSE files
        /\ UNCHANGED <<tried, faults>>
     \/ /\ faults < MaxFaults
        /\ faults' = faults + 1
        /\ tried' = TRUE
        /\ UNCHANGED <<marker, files>>
  /\ UNCHANGED <<clock, evidence, period, stored, doc, journal, preserved, cache, thread, todo,
                 owed, screened, lock, rest, goal, hist, moves, crashes>>

\* The next file: the empty document, then the directory of the journal, the
\* snapshot or a temporary file in it, and the manifest that takes its place.
NextFile ==
  /\ stored' = TRUE
  /\ files' = IF ~stored THEN files
              ELSE CASE files = "none" -> "empty"
                     [] files = "empty" -> "some"
                     [] files = "some" -> "manifest"

Prepare ==
  /\ lock # "free"
  /\ ~Touchable
  /\ files # "manifest"
  /\ NextFile
  /\ tried' = (files' # "manifest")
  /\ UNCHANGED <<clock, evidence, period, marker, doc, journal, preserved, cache, thread, todo,
                 owed, screened, lock, rest, goal, hist, bounds>>

\* A file cannot be written, or raises when it is there; a temporary file is
\* removed.
PrepareFails ==
  /\ lock # "free"
  /\ ~Touchable
  /\ files # "manifest"
  /\ faults < MaxFaults
  /\ faults' = faults + 1
  /\ \/ UNCHANGED <<stored, files>>
     \/ NextFile
     \/ files = "some" /\ ~marker /\ files' = "empty" /\ UNCHANGED stored
  /\ Raised
  /\ UNCHANGED <<clock, evidence, period, marker, doc, journal, hist, moves, crashes>>

\* The journal is there to be appended to.
Ready == lock # "free" /\ files = "manifest" /\ ~Touchable

Append ==
  /\ Ready
  /\ rest # Empty
  /\ journal' = Plus(journal, NextRecord)
  /\ rest' = Minus(rest, NextRecord)
  /\ UNCHANGED <<clock, evidence, period, prepared, doc, preserved, cache, thread, todo, owed,
                 screened, lock, tried, goal, hist, bounds>>

\* The append raises, with or without its record in the journal: the process
\* goes on with the cache, and without one the next start with what it loads.
AppendFails ==
  /\ Ready
  /\ rest # Empty
  /\ faults < MaxFaults
  /\ faults' = faults + 1
  /\ journal' \in {journal, Plus(journal, NextRecord)}
  /\ Raised
  /\ UNCHANGED <<clock, evidence, period, prepared, doc, late, moves, crashes>>
  /\ orphaned' = (orphaned \/ Behind(journal', IF thread' = "down" THEN Loaded' ELSE cache))

\* The cache takes the new state and the document is replaced with it, except
\* where the document of the first version is preserved.
Sync ==
  /\ Ready
  /\ rest = Empty
  /\ cache' = goal
  /\ doc' = IF preserved THEN doc ELSE goal
  /\ IF lock = "thread" THEN Observed(FALSE)
     ELSE UNCHANGED <<thread, todo, owed, screened>>
  /\ Released
  /\ UNCHANGED <<clock, evidence, period, prepared, journal, preserved, hist, bounds>>

\* The document is not replaced: the cache is ahead of it from now on, and what
\* an observation has appended is not named in it; a transition need not be.
SyncFails ==
  /\ Ready
  /\ rest = Empty
  /\ ~preserved
  /\ faults < MaxFaults
  /\ faults' = faults + 1
  /\ orphaned' = (orphaned \/ lock = "thread")
  /\ IF lock = "thread" /\ thread = "boot" THEN ProcessEnds
     ELSE /\ cache' = goal
          /\ IF lock = "thread" THEN Observed(TRUE)
             ELSE UNCHANGED <<thread, todo, owed, screened>>
          /\ UNCHANGED preserved
          /\ Released
  /\ UNCHANGED <<clock, durable, late, moves, crashes>>

-----------------------------------------------------------------------------
(* The user and the environment *)

\* The transitions a user may make; dismissed and silenced are closed here.
Allowed(s) == CASE s = "new" -> {"seen", "closed", "resolved"}
                [] s = "seen" -> {"closed", "resolved"}
                [] s = "closed" -> {"resolved"}
                [] s = "resolved" -> {}

\* transition: the user moves a candidate on.
Transition(c, to) ==
  /\ thread \in {"idle", "retry", "observe"}
  /\ lock = "free"
  /\ moves < MaxMoves
  /\ moves' = moves + 1
  /\ c \in cache.cands
  /\ to \in Allowed(StatusIn(cache, c.id)) \cap Moves
  /\ clock' = clock + 1
  /\ LET new == [Empty EXCEPT !.trans = {Move(cache, c, to, clock + 1)}]
     IN rest' = new /\ goal' = Plus(cache, new)
  /\ lock' = "user"
  /\ tried' = FALSE
  /\ UNCHANGED <<durable, preserved, cache, thread, todo, owed, screened, hist, crashes, faults>>

\* A kill leaves behind what the next start does not load.
Crash ==
  /\ thread # "down"
  /\ crashes < MaxCrashes
  /\ crashes' = crashes + 1
  /\ ProcessEnds
  /\ UNCHANGED <<clock, durable, late, moves, faults>>
  /\ orphaned' = (orphaned \/ Behind(journal, Loaded'))

-----------------------------------------------------------------------------
ThreadStep ==
  \/ Booted \/ Tick \/ TickEnds \/ Record
  \/ \E a \in Attempts : AlreadyRecorded(a) \/ Evaluate(a)

WriteStep == Touch \/ Prepare \/ PrepareFails \/ Append \/ AppendFails \/ Sync \/ SyncFails

Next ==
  \/ Boot \/ ThreadStep \/ WriteStep
  \/ \E a \in Attempts, k \in Kinds : AttemptEnds(a, k)
  \/ \E c \in cache.cands, to \in Moves : Transition(c, to)
  \/ Crash

Spec == Init /\ [][Next]_vars

Fairness == WF_vars(Boot) /\ WF_vars(ThreadStep) /\ WF_vars(WriteStep)

FairSpec == Spec /\ Fairness

-----------------------------------------------------------------------------
(* Properties *)

Instants == 0..clock

IsState(s) ==
  /\ s.results \subseteq Attempts
  /\ \A c \in s.cands \cup s.rcpts : c.id \in Attempts /\ c.at \in Instants
  /\ \A t \in s.trans :
       /\ t.id \in Attempts /\ t.at \in Instants
       /\ t.from \in {"new", "seen", "closed"} /\ t.to \in {"seen", "closed", "resolved"}

\* The types; every time that is recorded has been read from the clock.
TypeOK ==
  /\ clock \in Nat
  /\ evidence \in [Attempts -> Kinds \cup {"none"}]
  /\ period \in [Attempts -> 0..Cardinality(Attempts)]
  /\ stored \in BOOLEAN /\ marker \in BOOLEAN /\ preserved \in BOOLEAN /\ tried \in BOOLEAN
  /\ files \in {"none", "empty", "some", "manifest"}
  /\ IsState(doc) /\ IsState(journal) /\ IsState(cache) /\ IsState(rest) /\ IsState(goal)
  /\ thread \in {"down", "boot", "idle", "retry", "observe"}
  /\ todo \subseteq Attempts /\ owed \subseteq Attempts
  /\ screened \in [id: Attempts \cup {0}, at: Instants]
  /\ lock \in {"free", "thread", "user"}

\* Whatever is killed, fails or is moved on by the user between the reading of
\* the clock and the record, the next start finds a state that load accepts,
\* unless records were left behind of which the state knew nothing.
StateLoads == Valid(Loaded) \/ orphaned

\* Across replays, retries and restarts, and whatever the user does meanwhile,
\* there is one open candidate at most, no candidate comes up within the
\* cooldown of another, and none stays open that later evidence has cleared -
\* unless records were left behind or, for the last, an attempt was recorded
\* late.
CandidatesSound ==
  ~orphaned =>
    /\ Cardinality(Open(Loaded)) <= 1
    /\ \A c, d \in Loaded.cands : c.at < d.at => d.at - c.at >= Cooldown
    /\ ~late => \A c \in Open(Loaded), r \in Loaded.rcpts :
                  r.id > c.id => evidence[r.id] # "cleared"

\* A candidate stands on Required different periods whose evidence matched:
\* the revisions of one period count once.
ConfirmedByPeriods ==
  Valid(Loaded) =>
    \A c \in Loaded.cands :
      Cardinality({period[b] : b \in {a \in Loaded.results : a <= c.id /\ evidence[a] = "met"}})
        >= Required

\* Every attempt that ended is recorded by the process that is then up, through
\* kills, failed writes and conflicts with the user, unless no process can
\* start any more.
EveryAttemptScreened ==
  \A a \in Attempts :
    evidence[a] # "none" ~> a \in Ids(cache.rcpts) \/ (thread = "down" /\ ~Valid(Loaded))

\* The state that is on disk is always one that load accepts.
StateReadable == Valid(Loaded)
=============================================================================
