-------------------------- MODULE ScreeningProofs --------------------------
(***************************************************************************)
(* Proofs about Screening, for any attempts, rule, moves of the user,      *)
(* kills and failed writes: the types, that a start finds a state that     *)
(* load accepts, what the candidates stand on, and that they are sound.    *)
(*                                                                         *)
(* The operators below say again what Valid, Loaded and the properties     *)
(* say, with the states and the evidence as arguments, so that most of     *)
(* this is about states as such and not about the variables.               *)
(***************************************************************************)
EXTENDS Screening, FiniteSetTheorems, WellFoundedInduction, TLAPS

Records == [id: Attempts, at: Nat]
Transitions == [id: Attempts, from: {"new", "seen", "closed"},
                to: {"seen", "closed", "resolved"}, at: Nat]
States == [results: SUBSET Attempts, cands: SUBSET Records, trans: SUBSET Transitions,
           rcpts: SUBSET Records]
Evidences == [Attempts -> Kinds \cup {"none"}]
Periods == [Attempts -> 0..Cardinality(Attempts)]

-----------------------------------------------------------------------------
(* Numbers *)

\* A set of naturals that is not empty has a least element.
LEMMA Least ==
  ASSUME NEW T \in SUBSET Nat, T # {}
  PROVE  \E x \in T : \A y \in T : x <= y
<1>1. PICK x \in T : \A y \in T : ~ (<<y, x>> \in OpToRel(<, Nat))
  BY NatLessThanWellFounded, WFMin, Zenon
<1>2. ASSUME NEW y \in T PROVE x <= y
  <2>1. x \in Nat /\ y \in Nat
    OBVIOUS
  <2>2. ~(y < x)
    BY <1>1, <2>1, Zenon DEF OpToRel
  <2> QED
    BY <2>1, <2>2
<1> QED
  BY <1>2

\* One that is bounded has a greatest.
LEMMA Greatest ==
  ASSUME NEW n \in Nat, NEW T \in SUBSET (0..n), T # {}
  PROVE  \E x \in T : \A y \in T : y <= x
<1> DEFINE U == {n - x : x \in T}
<1>1. U \in SUBSET Nat /\ U # {}
  <2>1. \A x \in T : x \in Nat /\ n - x \in Nat
    OBVIOUS
  <2> QED
    BY <2>1
<1>2. PICK u \in U : \A v \in U : u <= v
  <2> HIDE DEF U
  <2> QED
    BY <1>1, Least
<1>3. PICK x \in T : u = n - x
  OBVIOUS
<1>4. ASSUME NEW y \in T PROVE y <= x
  <2>1. n - y \in U
    OBVIOUS
  <2>2. n - x <= n - y
    BY <1>2, <1>3, <2>1
  <2> QED
    BY <2>2
<1> QED
  BY <1>4

-----------------------------------------------------------------------------
(* States and their parts *)

\* The fields of the states the operators build.
LEMMA Parts ==
  /\ Empty \in States
  /\ Empty.results = {} /\ Empty.cands = {} /\ Empty.trans = {} /\ Empty.rcpts = {}
  /\ \A s \in States :
       s = Empty <=> s.results = {} /\ s.cands = {} /\ s.trans = {} /\ s.rcpts = {}
  /\ \A s, r \in States :
       /\ Plus(s, r) \in States /\ Minus(s, r) \in States
       /\ Plus(s, r).results = s.results \cup r.results
       /\ Plus(s, r).cands = s.cands \cup r.cands
       /\ Plus(s, r).trans = s.trans \cup r.trans
       /\ Plus(s, r).rcpts = s.rcpts \cup r.rcpts
       /\ Minus(s, r).results = s.results \ r.results
       /\ Minus(s, r).cands = s.cands \ r.cands
       /\ Minus(s, r).trans = s.trans \ r.trans
       /\ Minus(s, r).rcpts = s.rcpts \ r.rcpts
<1>1. Empty \in States /\ Empty.results = {} /\ Empty.cands = {} /\ Empty.trans = {}
      /\ Empty.rcpts = {}
  BY DEF Empty, States
<1>2. ASSUME NEW s \in States
      PROVE  s = Empty <=> s.results = {} /\ s.cands = {} /\ s.trans = {} /\ s.rcpts = {}
  BY DEF Empty, States
<1>3. ASSUME NEW s \in States, NEW r \in States
      PROVE  /\ Plus(s, r) \in States /\ Minus(s, r) \in States
             /\ Plus(s, r).results = s.results \cup r.results
             /\ Plus(s, r).cands = s.cands \cup r.cands
             /\ Plus(s, r).trans = s.trans \cup r.trans
             /\ Plus(s, r).rcpts = s.rcpts \cup r.rcpts
             /\ Minus(s, r).results = s.results \ r.results
             /\ Minus(s, r).cands = s.cands \ r.cands
             /\ Minus(s, r).trans = s.trans \ r.trans
             /\ Minus(s, r).rcpts = s.rcpts \ r.rcpts
  BY DEF Plus, Minus, States
<1> QED
  BY <1>1, <1>2, <1>3

\* The sets that make up a state.
LEMMA Fields ==
  ASSUME NEW s \in States
  PROVE  /\ s.results \subseteq Attempts /\ s.cands \subseteq Records
         /\ s.trans \subseteq Transitions /\ s.rcpts \subseteq Records
BY DEF States

Within(r, s) ==
  /\ r.results \subseteq s.results /\ r.cands \subseteq s.cands
  /\ r.trans \subseteq s.trans /\ r.rcpts \subseteq s.rcpts

\* Two states that differ in their results at most.
Agree(r, s) == r.cands = s.cands /\ r.trans = s.trans /\ r.rcpts = s.rcpts

\* Every instant a state mentions is one of the first n.
Past(s, n) ==
  /\ \A c \in s.cands \cup s.rcpts : c.at <= n
  /\ \A t \in s.trans : t.at <= n

-----------------------------------------------------------------------------
(* The status of a candidate *)

\* The status that these transitions of one candidate lead to.
StatusOf(T) == IF T = {} THEN "new" ELSE (CHOOSE t \in T : \A u \in T : u.at <= t.at).to

Before(T, t) == {u \in T : u.at < t.at}

\* Transitions that follow each other.
InOrder(T) == \A t \in T : t.from = StatusOf(Before(T, t))

\* The status is that of the transitions of the candidate, and Sequential is
\* about their order.
LEMMA StatusIs ==
  ASSUME NEW s \in States, NEW id
  PROVE  StatusIn(s, id) = StatusOf(Of(s, id)) /\ (Sequential(s, id) <=> InOrder(Of(s, id)))
<1>1. ASSUME NEW r PROVE StatusIn(r, id) = StatusOf(Of(r, id))
  BY DEF StatusIn, StatusOf
<1>2. ASSUME NEW t \in Of(s, id)
      PROVE  StatusIn([s EXCEPT !.trans = Before(Of(s, id), t)], id) = StatusOf(Before(Of(s, id), t))
  <2> DEFINE b == Before(Of(s, id), t)
             r == [s EXCEPT !.trans = b]
  <2>1. \A u \in b : u.id = id
    BY DEF Before, Of
  <2>2. r.trans = b
    BY DEF States
  <2> HIDE DEF r
  <2>3. Of(r, id) = b
    BY <2>1, <2>2 DEF Of
  <2> QED
    BY <1>1, <2>3 DEF r
<1> QED
  BY <1>1, <1>2 DEF Sequential, InOrder, Before

\* A transition after all the others gives the status.
LEMMA StatusLast ==
  ASSUME NEW T \in SUBSET Transitions, NEW t \in T, \A u \in T : u.at < t.at \/ u = t
  PROVE  StatusOf(T) = t.to
<1>1. \A u \in T : u.at \in Nat
  BY DEF Transitions
<1>2. \A u \in T : u.at <= t.at
  BY <1>1
<1>3. \A x \in T : (\A u \in T : u.at <= x.at) => x = t
  BY <1>1
<1>4. (CHOOSE x \in T : \A u \in T : u.at <= x.at) = t
  BY <1>2, <1>3
<1> QED
  BY <1>4 DEF StatusOf

\* A status is one of the four.
LEMMA StatusKnown ==
  ASSUME NEW T \in SUBSET Transitions, NEW n \in Nat, \A t \in T : t.at <= n
  PROVE  StatusOf(T) \in {"new", "seen", "closed", "resolved"}
<1>1. CASE T # {}
  <2> DEFINE I == {t.at : t \in T}
  <2>1. I \in SUBSET (0..n) /\ I # {}
    BY <1>1 DEF Transitions
  <2>2. PICK i \in I : \A j \in I : j <= i
    <3> HIDE DEF I
    <3> QED
      BY <2>1, Greatest
  <2>3. PICK t \in T : t.at = i
    OBVIOUS
  <2>4. \A u \in T : u.at <= t.at
    BY <2>2, <2>3
  <2>5. (CHOOSE x \in T : \A u \in T : u.at <= x.at) \in T
    BY <2>4
  <2> QED
    BY <1>1, <2>5 DEF StatusOf, Transitions
<1> QED
  BY <1>1 DEF StatusOf

\* Nothing follows a transition to resolved, if no other has its instant.
LEMMA ResolvedIsLast ==
  ASSUME NEW T \in SUBSET Transitions, InOrder(T), NEW t \in T, t.to = "resolved",
         \A u \in T : u.at = t.at => u = t
  PROVE  StatusOf(T) = "resolved"
<1>1. \A u \in T : u.at \in Nat /\ u.from # "resolved"
  BY DEF Transitions
<1>2. ASSUME NEW w \in T, w.at > t.at PROVE FALSE
  <2> DEFINE I == {u.at : u \in {v \in T : v.at > t.at}}
  <2>1. I \in SUBSET Nat /\ I # {}
    BY <1>1, <1>2
  <2>2. PICK i \in I : \A j \in I : i <= j
    <3> HIDE DEF I
    <3> QED
      BY <2>1, Least
  <2>3. PICK u \in T : u.at = i /\ u.at > t.at
    OBVIOUS
  <2>4. \A v \in T : v.at > t.at => u.at <= v.at
    BY <2>2, <2>3
  <2>5. Before(T, u) \in SUBSET Transitions /\ t \in Before(T, u)
    BY <1>1, <2>3 DEF Before
  <2>6. \A v \in Before(T, u) : v.at < t.at \/ v = t
    BY <1>1, <2>3, <2>4 DEF Before
  <2>7. StatusOf(Before(T, u)) = "resolved"
    BY <2>5, <2>6, StatusLast
  <2> QED
    BY <1>1, <2>3, <2>7 DEF InOrder
<1>3. \A u \in T : u.at < t.at \/ u = t
  BY <1>1, <1>2
<1> QED
  BY <1>3, StatusLast

\* A transition after all the others that starts from their status follows them.
LEMMA OrderedNext ==
  ASSUME NEW T \in SUBSET Transitions, InOrder(T), NEW t \in Transitions,
         t.from = StatusOf(T), \A u \in T : u.at < t.at
  PROVE  InOrder(T \cup {t})
<1>1. \A u \in T \cup {t} : u.at \in Nat
  BY DEF Transitions
<1>2. \A u \in T : Before(T \cup {t}, u) = Before(T, u)
  BY <1>1 DEF Before
<1>3. Before(T \cup {t}, t) = T
  BY <1>1 DEF Before
<1> QED
  BY <1>2, <1>3 DEF InOrder

-----------------------------------------------------------------------------
(* What is said of a state, and the invariant *)

ValidIn(s, e) ==
  /\ OnePerId(s.cands) /\ OnePerId(s.rcpts)
  /\ Ids(s.cands) \subseteq s.results
  /\ \A r \in s.rcpts : e[r.id] # "skipped" => r.id \in s.results
  /\ Ids(s.trans) \subseteq Ids(s.cands)
  /\ \A id \in Ids(s.cands) : Sequential(s, id)

LoadedIn(d, j, p) ==
  IF p THEN j
  ELSE [results |-> d.results,
        cands |-> d.cands \cup {c \in j.cands : c.id \in Ids(d.cands)},
        trans |-> d.trans \cup j.trans,
        rcpts |-> d.rcpts \cup {r \in j.rcpts : r.id \in Ids(d.rcpts)}]

\* One open candidate at most, cooldowns kept, and none that is open in spite
\* of later evidence, unless an attempt was recorded late (l).
CalmIn(s, e, l) ==
  /\ \A c, d \in Open(s) : c = d
  /\ \A c, d \in s.cands : c.at < d.at => d.at - c.at >= Cooldown
  /\ l \/ \A c \in Open(s), r \in s.rcpts : r.id > c.id => e[r.id] # "cleared"

Matched(results, a, e, p) == {p[b] : b \in {x \in results : x <= a /\ e[x] = "met"}}

\* Every candidate of a state has the periods it stands on.
ConfirmedIn(s, e, p) ==
  \A c \in s.cands : Cardinality(Matched(s.results, c.id, e, p)) >= Required

Types ==
  /\ clock \in Nat
  /\ evidence \in Evidences /\ period \in Periods
  /\ doc \in States /\ journal \in States /\ cache \in States
  /\ rest \in States /\ goal \in States
  /\ thread \in {"down", "boot", "idle", "retry", "observe"}
  /\ lock \in {"free", "thread", "user"}
  /\ Past(journal, clock) /\ Past(goal, clock)

\* What the threads hold is of attempts that have ended.
Work ==
  /\ todo \subseteq Done /\ owed \subseteq Done
  /\ screened \in [id: Done, at: 0..clock] \cup {NotScreened}
  /\ lock = "thread" => screened # NotScreened
  /\ lock = "free" => rest = Empty /\ goal = Empty
  /\ thread = "down" => lock = "free" /\ cache = Empty /\ screened = NotScreened
  /\ journal.results \subseteq Done /\ Ids(journal.rcpts) \subseteq Done
  /\ goal.results \subseteq Done /\ Ids(goal.rcpts) \subseteq Done

\* No transition has the instant of an evaluation that is still to be recorded.
Unused ==
  screened # NotScreened /\ lock # "thread" /\ evidence[screened.id] # "skipped" =>
    \A t \in cache.trans \cup goal.trans : t.at # screened.at

\* Whatever is known has been appended before.
Appended ==
  /\ Within(doc, journal) /\ Within(cache, journal)
  /\ lock # "free" =>
       /\ Within(cache, goal) /\ Within(rest, goal)
       /\ Within(goal, Plus(journal, rest))

\* The state of the store and the one that is being written validate.
Validated == ValidIn(cache, evidence) /\ ValidIn(goal, evidence)

Confirming ==
  /\ ConfirmedIn(doc, evidence, period) /\ ConfirmedIn(journal, evidence, period)
  /\ ConfirmedIn(cache, evidence, period) /\ ConfirmedIn(goal, evidence, period)

Base == Types /\ Work /\ Unused /\ Appended /\ Validated /\ Confirming

\* What the journal (j) has between the records of one observation: those of the
\* cache (c) and, until the rest (r) is appended, not yet all of the goal (g).
Stage(j, r, c, g, k) ==
  /\ Agree(g, Plus(j, r))
  /\ r.results # {} \/ r.cands # {} => Agree(j, c)
  /\ r.trans # {} => j.trans = c.trans
  /\ r.trans # {} \/ r.rcpts # {} => j.rcpts = c.rcpts
  /\ g.cands = c.cands \/ g.trans = c.trans
  /\ k = "user" => g.results = c.results /\ g.cands = c.cands /\ g.rcpts = c.rcpts

\* A state on the way from the cache (c) to the goal (g).
Between(s, c, g) ==
  /\ Within(c, s)
  /\ \/ Agree(s, c)
     \/ s.cands = g.cands /\ s.trans = g.trans /\ s.rcpts \in {c.rcpts, g.rcpts}
  /\ (s.cands = c.cands /\ s.rcpts = c.rcpts) \/ g.results \subseteq s.results

\* Where the document decides, nothing is known before it is in the document.
Known(d, p, s, c) == ~p => s.cands = c.cands /\ s.rcpts = c.rcpts

FileKinds == {"none", "empty", "some", "manifest"}

\* Nothing is written before the journal is prepared, and no document where the
\* journal is read alone; a marker is of a store that was taken for preserved.
Disk ==
  /\ stored \in BOOLEAN /\ marker \in BOOLEAN /\ preserved \in BOOLEAN /\ tried \in BOOLEAN
  /\ files \in FileKinds
  /\ files # "manifest" => doc = Empty /\ journal = Empty
  /\ marker => doc = Empty
  /\ thread # "down" => (preserved => doc = Empty) /\ (marker => preserved)

\* The state that a start would load, LoadedIn(doc, journal, JournalAlone).
InStep ==
  LET loaded == LoadedIn(doc, journal, JournalAlone)
  IN /\ ValidIn(loaded, evidence) /\ CalmIn(loaded, evidence, late)
     /\ CalmIn(cache, evidence, late) /\ CalmIn(goal, evidence, late)
     /\ thread # "down" => Within(cache, loaded)
     /\ lock = "free" => Agree(loaded, journal) /\ (thread # "down" => Agree(cache, journal))
     /\ lock # "free" =>
          /\ Stage(journal, rest, cache, goal, lock)
          /\ Between(loaded, cache, goal)
          /\ Known(doc, JournalAlone, loaded, cache)

Inv == Base /\ Disk /\ (~orphaned => InStep)

-----------------------------------------------------------------------------
(* Facts about states *)

\* The empty state has everything that is asked of a state.
LEMMA EmptyIsSound ==
  ASSUME NEW e, NEW p, NEW l, NEW n
  PROVE  ValidIn(Empty, e) /\ CalmIn(Empty, e, l) /\ ConfirmedIn(Empty, e, p) /\ Past(Empty, n)
<1>1. Empty.cands = {} /\ Empty.trans = {} /\ Empty.rcpts = {}
  BY Parts
<1>2. Open(Empty) = {} /\ Ids(Empty.cands) = {} /\ Ids(Empty.trans) = {}
  BY <1>1 DEF Open, Ids
<1> QED
  BY <1>1, <1>2 DEF ValidIn, CalmIn, ConfirmedIn, Past, OnePerId

\* Which candidates are open is said by the candidates and the transitions.
LEMMA SameOpen ==
  ASSUME NEW s, NEW r, s.cands = r.cands, s.trans = r.trans
  PROVE  Open(s) = Open(r)
<1>1. \A id : Of(s, id) = Of(r, id)
  BY DEF Of
<1>2. ASSUME NEW id PROVE StatusIn(s, id) = StatusIn(r, id)
  <2>1. \A q : StatusIn(q, id) = StatusOf(Of(q, id))
    BY DEF StatusIn, StatusOf
  <2> QED
    BY <1>1, <2>1
<1> QED
  BY <1>2 DEF Open

\* And so is whether the transitions follow each other.
LEMMA SameOrder ==
  ASSUME NEW s \in States, NEW r \in States, s.trans = r.trans, NEW id
  PROVE  Sequential(s, id) <=> Sequential(r, id)
<1>1. Of(s, id) = Of(r, id)
  BY DEF Of
<1> QED
  BY <1>1, StatusIs

\* A state that has the results of another one and is like it otherwise.
LEMMA NearIsSound ==
  ASSUME NEW s \in States, NEW r \in States, NEW e, NEW l,
         ValidIn(r, e), CalmIn(r, e, l), Agree(s, r), r.results \subseteq s.results
  PROVE  ValidIn(s, e) /\ CalmIn(s, e, l)
<1>1. Open(s) = Open(r)
  BY SameOpen DEF Agree
<1>2. \A id : Sequential(s, id) <=> Sequential(r, id)
  BY SameOrder DEF Agree
<1>3. ValidIn(s, e)
  BY <1>2 DEF ValidIn, Agree
<1>4. CalmIn(s, e, l)
  BY <1>1 DEF CalmIn, Agree
<1> QED
  BY <1>3, <1>4

\* Whatever is between two sound states is sound.
LEMMA BetweenIsSound ==
  ASSUME NEW s \in States, NEW c \in States, NEW g \in States, NEW e, NEW l,
         ValidIn(c, e), CalmIn(c, e, l), ValidIn(g, e), CalmIn(g, e, l),
         Within(c, g), Between(s, c, g)
  PROVE  ValidIn(s, e) /\ CalmIn(s, e, l)
<1>1. CASE Agree(s, c)
  <2>1. c.results \subseteq s.results
    BY DEF Between, Within
  <2> QED
    BY <1>1, <2>1, NearIsSound
<1>2. CASE s.cands = g.cands /\ s.trans = g.trans /\ s.rcpts \in {c.rcpts, g.rcpts}
  <2>1. Open(s) = Open(g)
    BY <1>2, SameOpen
  <2>2. \A id : Sequential(s, id) <=> Sequential(g, id)
    BY <1>2, SameOrder
  <2>3. s.rcpts \subseteq g.rcpts
    BY <1>2 DEF Within
  <2>4. CalmIn(s, e, l)
    BY <1>2, <2>1, <2>3 DEF CalmIn
  <2>5. c.results \subseteq s.results
    BY DEF Between, Within
  <2>6. Ids(s.cands) \subseteq s.results
    BY <1>2, <2>5 DEF Between, ValidIn
  <2>7. \A r \in s.rcpts : e[r.id] # "skipped" => r.id \in s.results
    BY <1>2, <2>5 DEF Between, ValidIn
  <2>8. OnePerId(s.rcpts)
    BY <1>2 DEF ValidIn
  <2>9. ValidIn(s, e)
    BY <1>2, <2>2, <2>6, <2>7, <2>8 DEF ValidIn
  <2> QED
    BY <2>4, <2>9
<1> QED
  BY <1>1, <1>2 DEF Between

\* What load gives is a state, of records of the journal.
LEMMA LoadedParts ==
  ASSUME NEW d \in States, NEW j \in States, NEW p, Within(d, j)
  PROVE  LET s == LoadedIn(d, j, p)
         IN /\ s \in States /\ Within(s, j) /\ s.trans = j.trans
            /\ p => s = j
            /\ ~p =>
                 /\ s.results = d.results
                 /\ s.cands = d.cands \cup {c \in j.cands : c.id \in Ids(d.cands)}
                 /\ s.rcpts = d.rcpts \cup {c \in j.rcpts : c.id \in Ids(d.rcpts)}
<1>1. CASE p
  BY <1>1 DEF LoadedIn, Within
<1>2. CASE ~p
  <2> DEFINE s == [results |-> d.results,
        cands |-> d.cands \cup {c \in j.cands : c.id \in Ids(d.cands)},
        trans |-> d.trans \cup j.trans,
        rcpts |-> d.rcpts \cup {r \in j.rcpts : r.id \in Ids(d.rcpts)}]
  <2>1. LoadedIn(d, j, p) = s
    BY <1>2 DEF LoadedIn
  <2>2. s.results \subseteq j.results /\ s.cands \subseteq j.cands /\ s.trans = j.trans
        /\ s.rcpts \subseteq j.rcpts
    BY DEF Within
  <2>3. s \in States
    BY <2>2, Fields DEF States
  <2> QED
    BY <1>2, <2>1, <2>2, <2>3 DEF Within
<1> QED
  BY <1>1, <1>2

\* Valid, Loaded and the record that is appended next, in these terms.
LEMMA Reading ==
  /\ Loaded = LoadedIn(doc, journal, JournalAlone)
  /\ Valid(Loaded) <=> ValidIn(LoadedIn(doc, journal, JournalAlone), evidence)
  /\ \A s : Valid(s) <=> ValidIn(s, evidence)
<1>1. Loaded = LoadedIn(doc, journal, JournalAlone)
  BY DEF Loaded, LoadedIn
<1>2. \A s : Valid(s) <=> ValidIn(s, evidence)
  BY Zenon DEF Valid, ValidIn
<1> QED
  BY <1>1, <1>2

\* Of no records nothing is loaded, in either kind of store.
LEMMA NothingLoaded ==
  ASSUME NEW p
  PROVE  LoadedIn(Empty, Empty, p) = Empty
<1> DEFINE s == LoadedIn(Empty, Empty, p)
<1>1. Empty \in States /\ Empty.results = {} /\ Empty.cands = {} /\ Empty.trans = {}
      /\ Empty.rcpts = {}
  BY Parts
<1>2. Within(Empty, Empty)
  BY DEF Within
<1>3. s \in States /\ Within(s, Empty)
  BY <1>1, <1>2, LoadedParts
<1> HIDE DEF s
<1>4. s.results = {} /\ s.cands = {} /\ s.trans = {} /\ s.rcpts = {}
  BY <1>1, <1>3 DEF Within
<1>5. s = Empty
  BY <1>3, <1>4, Parts
<1> QED
  BY <1>5 DEF s

\* A state within the empty one is empty.
LEMMA WithinEmpty ==
  ASSUME NEW s \in States, Within(s, Empty)
  PROVE  s = Empty
<1>1. Empty.results = {} /\ Empty.cands = {} /\ Empty.trans = {} /\ Empty.rcpts = {}
  BY Parts
<1>2. s.results = {} /\ s.cands = {} /\ s.trans = {} /\ s.rcpts = {}
  BY <1>1 DEF Within
<1> QED
  BY <1>2, Parts

-----------------------------------------------------------------------------
(* The appends of an observation *)

NextIn(r) ==
  IF r.results # {} THEN [Empty EXCEPT !.results = r.results]
  ELSE IF r.cands # {} THEN [Empty EXCEPT !.cands = r.cands]
  ELSE IF r.trans # {} THEN [Empty EXCEPT !.trans = r.trans]
  ELSE [Empty EXCEPT !.rcpts = r.rcpts]

\* The record that is appended next is one kind of what is left.
LEMMA NextParts ==
  ASSUME NEW r \in States
  PROVE  LET n == NextIn(r)
         IN /\ n \in States /\ Within(n, r)
            /\ \/ /\ r.results # {} /\ n.results = r.results
                  /\ n.cands = {} /\ n.trans = {} /\ n.rcpts = {}
               \/ /\ r.results = {} /\ r.cands # {}
                  /\ n.results = {} /\ n.cands = r.cands /\ n.trans = {} /\ n.rcpts = {}
               \/ /\ r.results = {} /\ r.cands = {} /\ r.trans # {}
                  /\ n.results = {} /\ n.cands = {} /\ n.trans = r.trans /\ n.rcpts = {}
               \/ /\ r.results = {} /\ r.cands = {} /\ r.trans = {}
                  /\ n.results = {} /\ n.cands = {} /\ n.trans = {} /\ n.rcpts = r.rcpts
<1> DEFINE n == NextIn(r)
<1>1. CASE r.results # {}
  BY <1>1 DEF NextIn, Empty, States, Within
<1>2. CASE r.results = {} /\ r.cands # {}
  BY <1>2 DEF NextIn, Empty, States, Within
<1>3. CASE r.results = {} /\ r.cands = {} /\ r.trans # {}
  BY <1>3 DEF NextIn, Empty, States, Within
<1>4. CASE r.results = {} /\ r.cands = {} /\ r.trans = {}
  BY <1>4 DEF NextIn, Empty, States, Within
<1> QED
  BY <1>1, <1>2, <1>3, <1>4

\* A longer journal gives at least what it gave before.
LEMMA LoadedGrows ==
  ASSUME NEW d \in States, NEW j \in States, NEW i \in States, NEW p,
         Within(d, j), Within(j, i)
  PROVE  Within(LoadedIn(d, j, p), LoadedIn(d, i, p))
<1>1. Within(d, i)
  BY DEF Within
<1>2. CASE p
  <2>1. LoadedIn(d, j, p) = j /\ LoadedIn(d, i, p) = i
    BY <1>1, <1>2, LoadedParts
  <2> QED
    BY <2>1
<1>3. CASE ~p
  <2> DEFINE s == LoadedIn(d, j, p)
             q == LoadedIn(d, i, p)
  <2>1. /\ s.results = d.results /\ s.trans = j.trans
        /\ s.cands = d.cands \cup {c \in j.cands : c.id \in Ids(d.cands)}
        /\ s.rcpts = d.rcpts \cup {c \in j.rcpts : c.id \in Ids(d.rcpts)}
    BY <1>3, LoadedParts
  <2>2. /\ q.results = d.results /\ q.trans = i.trans
        /\ q.cands = d.cands \cup {c \in i.cands : c.id \in Ids(d.cands)}
        /\ q.rcpts = d.rcpts \cup {c \in i.rcpts : c.id \in Ids(d.rcpts)}
    BY <1>1, <1>3, LoadedParts
  <2> HIDE DEF s, q
  <2>3. Within(s, q)
    BY <2>1, <2>2 DEF Within
  <2> QED
    BY <2>3 DEF s, q
<1> QED
  BY <1>2, <1>3

\* Records of identities that the document names add nothing, as long as what
\* is known of them already is in the document.
LEMMA NamedStays ==
  ASSUME NEW D, NEW J, NEW I, NEW C, NEW G,
         J \subseteq I, I \subseteq J \cup G, C \subseteq G, OnePerId(G), D \subseteq C,
         \A x \in J : x.id \in Ids(D) => x \in C
  PROVE  \A x \in I : x.id \in Ids(D) => x \in C
<1> SUFFICES ASSUME NEW x \in I, x.id \in Ids(D) PROVE x \in C
  OBVIOUS
<1>1. PICK y \in D : y.id = x.id
  BY DEF Ids
<1>2. CASE x \in J
  BY <1>2
<1>3. CASE x \in G
  <2>1. y \in C /\ y \in G
    OBVIOUS
  <2> QED
    BY <1>1, <1>3, <2>1, Zenon DEF OnePerId
<1> QED
  BY <1>2, <1>3

\* An append takes the journal one step on the way to the goal, and what would
\* be loaded as well.
LEMMA AppendStep ==
  ASSUME NEW d \in States, NEW j \in States, NEW c \in States, NEW r \in States,
         NEW g \in States, NEW k, NEW p,
         Within(d, j), Within(c, j), Within(c, g), Within(r, g), Within(g, Plus(j, r)),
         OnePerId(g.cands), OnePerId(g.rcpts), Stage(j, r, c, g, k),
         Between(LoadedIn(d, j, p), c, g), Known(d, p, LoadedIn(d, j, p), c)
  PROVE  LET i == Plus(j, NextIn(r))
             m == Minus(r, NextIn(r))
         IN /\ i \in States /\ m \in States
            /\ Within(j, i) /\ Within(m, g) /\ Within(g, Plus(i, m))
            /\ Stage(i, m, c, g, k)
            /\ Between(LoadedIn(d, i, p), c, g) /\ Known(d, p, LoadedIn(d, i, p), c)
<1> DEFINE n == NextIn(r)
           i == Plus(j, n)
           m == Minus(r, n)
           s == LoadedIn(d, j, p)
           q == LoadedIn(d, i, p)
<1>1. n \in States /\ Within(n, r)
  BY NextParts
<1>2. \/ /\ r.results # {} /\ n.results = r.results
         /\ n.cands = {} /\ n.trans = {} /\ n.rcpts = {}
      \/ /\ r.results = {} /\ r.cands # {}
         /\ n.results = {} /\ n.cands = r.cands /\ n.trans = {} /\ n.rcpts = {}
      \/ /\ r.results = {} /\ r.cands = {} /\ r.trans # {}
         /\ n.results = {} /\ n.cands = {} /\ n.trans = r.trans /\ n.rcpts = {}
      \/ /\ r.results = {} /\ r.cands = {} /\ r.trans = {}
         /\ n.results = {} /\ n.cands = {} /\ n.trans = {} /\ n.rcpts = r.rcpts
  BY NextParts
<1> HIDE DEF n
<1>3. /\ i \in States /\ m \in States
      /\ i.results = j.results \cup n.results /\ i.cands = j.cands \cup n.cands
      /\ i.trans = j.trans \cup n.trans /\ i.rcpts = j.rcpts \cup n.rcpts
      /\ m.results = r.results \ n.results /\ m.cands = r.cands \ n.cands
      /\ m.trans = r.trans \ n.trans /\ m.rcpts = r.rcpts \ n.rcpts
  BY <1>1, Parts
<1> DEFINE J == Plus(j, r)
           I == Plus(i, m)
<1>4. /\ J.results = j.results \cup r.results /\ J.cands = j.cands \cup r.cands
      /\ J.trans = j.trans \cup r.trans /\ J.rcpts = j.rcpts \cup r.rcpts
  BY Parts
<1> HIDE DEF i, m
<1>5. /\ I.results = i.results \cup m.results /\ I.cands = i.cands \cup m.cands
      /\ I.trans = i.trans \cup m.trans /\ I.rcpts = i.rcpts \cup m.rcpts
  BY <1>3, Parts
<1> HIDE DEF I, J
<1>6. I.results = J.results /\ I.cands = J.cands /\ I.trans = J.trans /\ I.rcpts = J.rcpts
  BY <1>1, <1>3, <1>4, <1>5 DEF Within
<1>7. Within(j, i) /\ Within(m, g) /\ Within(g, I)
  <2>1. Within(g, J)
    BY DEF J
  <2> QED
    BY <1>3, <1>6, <2>1 DEF Within
<1>8. Agree(g, J) /\ Agree(g, I)
  <2>1. Agree(g, J)
    BY DEF Stage, J
  <2> QED
    BY <1>6, <2>1 DEF Agree
<1>9. Stage(i, m, c, g, k)
  <2>1. m.results # {} \/ m.cands # {} => Agree(i, c)
    BY <1>2, <1>3 DEF Stage, Agree
  <2>2. m.trans # {} => i.trans = c.trans
    BY <1>2, <1>3 DEF Stage
  <2>3. m.trans # {} \/ m.rcpts # {} => i.rcpts = c.rcpts
    BY <1>2, <1>3 DEF Stage
  <2> QED
    BY <1>8, <2>1, <2>2, <2>3 DEF Stage, I
<1>10. Within(d, i)
  BY <1>7 DEF Within
<1>11. Within(s, q)
  BY <1>3, <1>7, LoadedGrows
<1>12. Within(c, q)
  BY <1>11 DEF Within, Between
<1>13. CASE p
  <2>1. s = j /\ q = i
    BY <1>3, <1>10, <1>13, LoadedParts
  <2> HIDE DEF s, q
  <2>2. Between(j, c, g)
    BY <2>1 DEF s
  <2>3. r.results = {} => g.results \subseteq j.results
    BY <1>4 DEF Within, J
  <2>5. (i.cands = c.cands /\ i.rcpts = c.rcpts) \/ g.results \subseteq i.results
    <3>1. r.results # {} => g.results \subseteq i.results
      BY <1>2, <1>3, <1>4 DEF Within, J
    <3> QED
      BY <1>3, <2>3, <3>1
  <2>6. Agree(i, c) \/ (i.cands = g.cands /\ i.trans = g.trans /\ i.rcpts \in {c.rcpts, g.rcpts})
    <3>1. CASE n.cands = {} /\ n.trans = {} /\ n.rcpts = {}
      <4>1. Agree(i, j)
        BY <1>3, <3>1 DEF Agree
      <4> QED
        BY <2>2, <4>1 DEF Between, Agree
    <3>2. CASE r.results = {} /\ r.cands # {} /\ n.cands = r.cands /\ n.trans = {} /\ n.rcpts = {}
      <4>1. Agree(j, c)
        BY <3>2 DEF Stage
      <4>2. i.cands = g.cands /\ i.trans = c.trans /\ i.rcpts = c.rcpts
        BY <1>3, <1>4, <1>8, <3>2, <4>1 DEF Agree
      <4> QED
        BY <4>2 DEF Stage, Agree
    <3>3. CASE r.cands = {} /\ r.trans # {} /\ n.cands = {} /\ n.trans = r.trans /\ n.rcpts = {}
      <4>1. j.rcpts = c.rcpts
        BY <3>3 DEF Stage
      <4> QED
        BY <1>3, <1>4, <1>8, <3>3, <4>1 DEF Agree
    <3>4. CASE r.cands = {} /\ r.trans = {} /\ n.cands = {} /\ n.trans = {} /\ n.rcpts = r.rcpts
      BY <1>3, <1>4, <1>8, <3>4 DEF Agree
    <3> QED
      BY <1>2, <3>1, <3>2, <3>3, <3>4
  <2>7. Between(q, c, g) /\ Known(d, p, q, c)
    BY <1>12, <1>13, <2>1, <2>5, <2>6 DEF Between, Known
  <2> QED
    BY <1>3, <1>7, <1>9, <2>7, Zenon DEF i, m, n, q, I
<1>14. CASE ~p
  <2>1. /\ s.trans = j.trans
        /\ s.cands = d.cands \cup {x \in j.cands : x.id \in Ids(d.cands)}
        /\ s.rcpts = d.rcpts \cup {x \in j.rcpts : x.id \in Ids(d.rcpts)}
    BY <1>14, LoadedParts
  <2>2. /\ q.trans = i.trans
        /\ q.cands = d.cands \cup {x \in i.cands : x.id \in Ids(d.cands)}
        /\ q.rcpts = d.rcpts \cup {x \in i.rcpts : x.id \in Ids(d.rcpts)}
    BY <1>3, <1>10, <1>14, LoadedParts
  <2>3. s.cands = c.cands /\ s.rcpts = c.rcpts
    BY <1>14 DEF Known
  <2> HIDE DEF s, q
  <2>4. n.cands \subseteq g.cands /\ n.rcpts \subseteq g.rcpts
    BY <1>1 DEF Within
  <2>5. q.cands = c.cands
    <3>1. j.cands \subseteq i.cands /\ i.cands \subseteq j.cands \cup g.cands /\ c.cands \subseteq g.cands
      BY <1>3, <2>4 DEF Within
    <3>2. /\ d.cands \subseteq c.cands
          /\ \A x \in j.cands : x.id \in Ids(d.cands) => x \in c.cands
      BY <2>1, <2>3
    <3>3. \A x \in i.cands : x.id \in Ids(d.cands) => x \in c.cands
      BY <3>1, <3>2, NamedStays
    <3>4. q.cands \subseteq c.cands
      BY <2>2, <3>2, <3>3
    <3>5. c.cands \subseteq q.cands
      BY <1>12 DEF Within
    <3> QED
      BY <3>4, <3>5
  <2>6. q.rcpts = c.rcpts
    <3>1. j.rcpts \subseteq i.rcpts /\ i.rcpts \subseteq j.rcpts \cup g.rcpts /\ c.rcpts \subseteq g.rcpts
      BY <1>3, <2>4 DEF Within
    <3>2. /\ d.rcpts \subseteq c.rcpts
          /\ \A x \in j.rcpts : x.id \in Ids(d.rcpts) => x \in c.rcpts
      BY <2>1, <2>3
    <3>3. \A x \in i.rcpts : x.id \in Ids(d.rcpts) => x \in c.rcpts
      BY <3>1, <3>2, NamedStays
    <3>4. q.rcpts \subseteq c.rcpts
      BY <2>2, <3>2, <3>3
    <3>5. c.rcpts \subseteq q.rcpts
      BY <1>12 DEF Within
    <3> QED
      BY <3>4, <3>5
  <2>7. Agree(q, c) \/ (q.cands = g.cands /\ q.trans = g.trans /\ q.rcpts \in {c.rcpts, g.rcpts})
    <3>1. CASE n.trans = {}
      <4>1. q.trans = s.trans
        BY <1>3, <2>1, <2>2, <3>1
      <4>2. Between(s, c, g)
        BY DEF s
      <4> QED
        BY <2>3, <2>5, <2>6, <4>1, <4>2 DEF Between, Agree
    <3>2. CASE r.trans # {} /\ n.trans = r.trans
      <4>1. q.trans = g.trans
        BY <1>3, <1>4, <1>8, <2>2, <3>2 DEF Agree
      <4> QED
        BY <2>5, <2>6, <4>1 DEF Stage, Agree
    <3> QED
      BY <1>2, <3>1, <3>2
  <2>8. Between(q, c, g) /\ Known(d, p, q, c)
    BY <1>12, <2>5, <2>6, <2>7 DEF Between, Known
  <2> QED
    BY <1>3, <1>7, <1>9, <2>8, Zenon DEF i, m, n, q, I
<1> QED
  BY <1>13, <1>14

-----------------------------------------------------------------------------
(* Confirmations *)

\* The periods that matched are finitely many, and more results have not fewer.
LEMMA MatchedGrows ==
  ASSUME NEW R \in SUBSET Attempts, NEW Q \in SUBSET Attempts, R \subseteq Q,
         NEW a, NEW e, NEW p \in Periods
  PROVE  /\ IsFiniteSet(Matched(Q, a, e, p))
         /\ Cardinality(Matched(R, a, e, p)) \in Nat /\ Cardinality(Matched(Q, a, e, p)) \in Nat
         /\ Cardinality(Matched(R, a, e, p)) <= Cardinality(Matched(Q, a, e, p))
<1> DEFINE n == Cardinality(Attempts)
<1>1. n \in Nat
  BY AttemptsAssumption, FS_CardinalityType
<1>2. IsFiniteSet(0..n)
  BY <1>1, FS_Interval
<1>3. Matched(Q, a, e, p) \in SUBSET (0..n)
  BY DEF Matched, Periods
<1>4. IsFiniteSet(Matched(Q, a, e, p))
  BY <1>2, <1>3, FS_Subset
<1>5. Matched(R, a, e, p) \in SUBSET Matched(Q, a, e, p)
  BY DEF Matched
<1>6. /\ IsFiniteSet(Matched(R, a, e, p))
      /\ Cardinality(Matched(R, a, e, p)) <= Cardinality(Matched(Q, a, e, p))
  BY <1>4, <1>5, FS_Subset
<1> QED
  BY <1>4, <1>6, FS_CardinalityType

\* Every confirmation is a period that matched before or with the result.
LEMMA ConfirmationsMatched ==
  ASSUME evidence \in Evidences, period \in Periods,
         NEW R \in SUBSET Attempts, NEW a \in R
  PROVE  /\ Confirmations(R, a) \in Nat
         /\ Confirmations(R, a) <= Cardinality(Matched(R, a, evidence, period))
<1> DEFINE earlier == {b \in R : b <= a}
           last(p) == CHOOSE b \in earlier :
                        period[b] = p /\ \A c \in earlier : period[c] = p => c <= b
           periods == {period[b] : b \in earlier}
           C == {p \in periods : \A q \in periods : q >= p => evidence[last(q)] = "met"}
<1>1. a \in Nat /\ earlier \in SUBSET (0..a)
  <2>1. a \in Nat /\ \A b \in R : b \in Nat
    BY AttemptsAssumption
  <2>2. ASSUME NEW b \in earlier PROVE b \in 0..a
    <3>1. b \in Nat /\ b <= a
      BY <2>1
    <3> QED
      BY <2>1, <3>1
  <2> HIDE DEF earlier
  <2> QED
    BY <2>1, <2>2
<1>2. ASSUME NEW p \in periods
      PROVE  last(p) \in earlier /\ period[last(p)] = p
  <2> DEFINE T == {b \in earlier : period[b] = p}
  <2>1. T \in SUBSET (0..a) /\ T # {}
    BY <1>1
  <2>2. PICK b \in T : \A c \in T : c <= b
    <3> HIDE DEF T
    <3> QED
      BY <1>1, <2>1, Greatest
  <2>3. b \in earlier /\ period[b] = p /\ \A c \in earlier : period[c] = p => c <= b
    BY <2>2
  <2> HIDE DEF earlier
  <2> QED
    BY <2>3
<1>3. ASSUME NEW p \in C PROVE p \in Matched(R, a, evidence, period)
  <2>1. p \in periods /\ p \in Nat
    BY DEF Periods
  <2>2. evidence[last(p)] = "met"
    <3> HIDE DEF last, periods
    <3> QED
      BY <2>1
  <2>3. last(p) \in earlier /\ period[last(p)] = p
    BY <1>2, <2>1
  <2> HIDE DEF last
  <2> QED
    BY <2>2, <2>3 DEF Matched
<1>4. C \in SUBSET Matched(R, a, evidence, period)
  <2> HIDE DEF C
  <2> QED
    BY <1>3
<1>5. Confirmations(R, a) = Cardinality(C)
  BY DEF Confirmations
<1> HIDE DEF C
<1>6. IsFiniteSet(Matched(R, a, evidence, period))
  BY MatchedGrows
<1>7. IsFiniteSet(C) /\ Cardinality(C) <= Cardinality(Matched(R, a, evidence, period))
  BY <1>4, <1>6, FS_Subset
<1> QED
  BY <1>5, <1>7, FS_CardinalityType

\* What is confirmed stays so with more results.
LEMMA ConfirmedMore ==
  ASSUME NEW s \in States, NEW R \in SUBSET Attempts, s.results \subseteq R,
         NEW e, NEW p \in Periods, NEW c, c \in s.cands, ConfirmedIn(s, e, p)
  PROVE  Cardinality(Matched(R, c.id, e, p)) >= Required
<1>1. s.results \in SUBSET Attempts
  BY Fields
<1>2. Cardinality(Matched(s.results, c.id, e, p)) >= Required
  BY DEF ConfirmedIn
<1>3. /\ Cardinality(Matched(s.results, c.id, e, p)) \in Nat
      /\ Cardinality(Matched(R, c.id, e, p)) \in Nat
      /\ Cardinality(Matched(s.results, c.id, e, p)) <= Cardinality(Matched(R, c.id, e, p))
  BY <1>1, MatchedGrows
<1> QED
  BY <1>2, <1>3, RuleAssumption

\* Candidates that load adds to the document share the identity, and so the
\* periods, of one that is in it.
LEMMA LoadedConfirmed ==
  ASSUME NEW d \in States, NEW j \in States, NEW p, Within(d, j), NEW e, NEW f,
         ConfirmedIn(d, e, f), ConfirmedIn(j, e, f)
  PROVE  ConfirmedIn(LoadedIn(d, j, p), e, f)
<1>1. CASE p
  BY <1>1, LoadedParts
<1>2. CASE ~p
  <2> DEFINE s == LoadedIn(d, j, p)
  <2>1. /\ s.results = d.results
        /\ s.cands = d.cands \cup {c \in j.cands : c.id \in Ids(d.cands)}
    BY <1>2, LoadedParts
  <2> HIDE DEF s
  <2>2. ASSUME NEW c \in s.cands
        PROVE  Cardinality(Matched(s.results, c.id, e, f)) >= Required
    <3>1. PICK b \in d.cands : b.id = c.id
      BY <2>1, <2>2 DEF Ids
    <3>2. Cardinality(Matched(d.results, b.id, e, f)) >= Required
      BY DEF ConfirmedIn
    <3> QED
      BY <2>1, <3>1, <3>2
  <2> QED
    BY <2>2 DEF ConfirmedIn, s
<1> QED
  BY <1>1, <1>2

\* An append confirms the journal as well: the results come first.
LEMMA AppendConfirmed ==
  ASSUME NEW j \in States, NEW r \in States, NEW g \in States, NEW e, NEW f \in Periods,
         Within(r, g), Within(g, Plus(j, r)), ConfirmedIn(j, e, f), ConfirmedIn(g, e, f)
  PROVE  ConfirmedIn(Plus(j, NextIn(r)), e, f)
<1> DEFINE n == NextIn(r)
           i == Plus(j, n)
<1>1. n \in States /\ Within(n, r) /\ (n.cands # {} => r.results = {})
  BY NextParts
<1> HIDE DEF n
<1>2. i \in States /\ i.results = j.results \cup n.results /\ i.cands = j.cands \cup n.cands
  BY <1>1, Parts
<1> HIDE DEF i
<1>3. i.results \in SUBSET Attempts
  BY <1>2, Fields
<1>4. r.results = {} => g.results \subseteq j.results
  BY Parts DEF Within
<1>5. ASSUME NEW c \in i.cands
      PROVE  Cardinality(Matched(i.results, c.id, e, f)) >= Required
  <2>1. CASE c \in j.cands
    BY <1>2, <1>3, <2>1, ConfirmedMore
  <2>2. CASE c \in n.cands
    <3>1. c \in g.cands /\ g.results \subseteq i.results
      BY <1>1, <1>2, <1>4, <2>2 DEF Within
    <3> QED
      BY <1>3, <3>1, ConfirmedMore
  <2> QED
    BY <1>2, <2>1, <2>2
<1> QED
  BY <1>5 DEF ConfirmedIn, i, n

-----------------------------------------------------------------------------
(* The observation of an attempt *)

\* What an observation adds is a state; an open candidate has one of the three
\* statuses that can be left.
LEMMA ObservationParts ==
  ASSUME evidence \in Evidences, NEW s \in States, NEW n \in Nat, Past(s, n),
         NEW a \in Attempts, NEW at \in 0..n
  PROVE  LET o == Observation(s, a, at)
         IN /\ o \in States
            /\ o.results = IF evidence[a] = "skipped" THEN {} ELSE {a}
            /\ o.cands = IF Activates(s, a, at) THEN {[id |-> a, at |-> at]} ELSE {}
            /\ o.trans = IF evidence[a] = "cleared"
                         THEN {Move(s, c, "resolved", at) : c \in Open(s)} ELSE {}
            /\ o.rcpts = {[id |-> a, at |-> at]}
            /\ Past(o, n)
            /\ o.cands = {} \/ o.trans = {}
<1> DEFINE o == Observation(s, a, at)
<1>1. /\ o.results = IF evidence[a] = "skipped" THEN {} ELSE {a}
      /\ o.cands = IF Activates(s, a, at) THEN {[id |-> a, at |-> at]} ELSE {}
      /\ o.trans = IF evidence[a] = "cleared"
                   THEN {Move(s, c, "resolved", at) : c \in Open(s)} ELSE {}
      /\ o.rcpts = {[id |-> a, at |-> at]}
      /\ o = [results |-> o.results, cands |-> o.cands, trans |-> o.trans, rcpts |-> o.rcpts]
  BY DEF Observation
<1> HIDE DEF o
<1>2. at \in Nat /\ at <= n
  OBVIOUS
<1>3. ASSUME NEW c \in Open(s)
      PROVE  Move(s, c, "resolved", at) \in Transitions /\ Move(s, c, "resolved", at).at = at
  <2>1. c \in s.cands /\ StatusIn(s, c.id) # "resolved"
    BY DEF Open
  <2>2. c.id \in Attempts
    BY <2>1, Fields DEF Records
  <2>3. Of(s, c.id) \in SUBSET Transitions /\ \A t \in Of(s, c.id) : t.at <= n
    BY Fields DEF Of, Past
  <2>4. StatusOf(Of(s, c.id)) \in {"new", "seen", "closed", "resolved"}
    BY <2>3, StatusKnown
  <2>5. StatusIn(s, c.id) \in {"new", "seen", "closed"}
    BY <2>1, <2>4, StatusIs
  <2> QED
    BY <1>2, <2>2, <2>5 DEF Move, Transitions
<1>4. o.trans \subseteq Transitions /\ \A t \in o.trans : t.at <= n
  BY <1>1, <1>2, <1>3
<1>5. o.cands \subseteq Records /\ o.rcpts \subseteq Records
      /\ \A c \in o.cands \cup o.rcpts : c.at <= n
  BY <1>1, <1>2 DEF Records
<1>6. o.results \subseteq Attempts
  BY <1>1
<1>7. o \in States
  BY <1>1, <1>4, <1>5, <1>6 DEF States
<1>8. o.cands = {} \/ o.trans = {}
  BY <1>1 DEF Activates
<1> QED
  BY <1>1, <1>4, <1>5, <1>7, <1>8, Zenon DEF Past, o

\* Every candidate of the new state is confirmed.
LEMMA RecordConfirmed ==
  ASSUME evidence \in Evidences, period \in Periods,
         NEW s \in States, NEW n \in Nat, Past(s, n), NEW a \in Attempts, NEW at \in 0..n,
         ConfirmedIn(s, evidence, period)
  PROVE  ConfirmedIn(Plus(s, Observation(s, a, at)), evidence, period)
<1> DEFINE o == Observation(s, a, at)
           g == Plus(s, o)
<1>0. o \in States
  BY ObservationParts
<1>1. /\ o \in States
      /\ o.results = IF evidence[a] = "skipped" THEN {} ELSE {a}
      /\ o.cands = IF Activates(s, a, at) THEN {[id |-> a, at |-> at]} ELSE {}
  BY <1>0 DEF Observation
<1> HIDE DEF o
<1>2. g \in States /\ g.results = s.results \cup o.results /\ g.cands = s.cands \cup o.cands
  BY <1>1, Parts
<1> HIDE DEF g
<1>3. g.results \in SUBSET Attempts
  BY <1>2, Fields
<1>4. ASSUME NEW c \in g.cands
      PROVE  Cardinality(Matched(g.results, c.id, evidence, period)) >= Required
  <2>1. CASE c \in s.cands
    BY <1>2, <1>3, <2>1, ConfirmedMore
  <2>2. CASE c \in o.cands
    <3>1. c.id = a /\ Activates(s, a, at)
      BY <1>1, <2>2
    <3>2. g.results = s.results \cup {a}
      BY <1>1, <1>2, <3>1 DEF Activates
    <3>3. Confirmations(g.results, a) >= Required
      BY <3>1, <3>2 DEF Activates
    <3>4. /\ Confirmations(g.results, a) \in Nat
          /\ Confirmations(g.results, a)
               <= Cardinality(Matched(g.results, a, evidence, period))
      BY <1>3, <3>2, ConfirmationsMatched
    <3>5. Cardinality(Matched(g.results, a, evidence, period)) \in Nat
      BY <1>3, MatchedGrows
    <3> QED
      BY <3>1, <3>3, <3>4, <3>5, RuleAssumption
  <2> QED
    BY <1>2, <2>1, <2>2
<1> QED
  BY <1>4 DEF ConfirmedIn, g, o

\* The new state is as calm as the one before.
LEMMA RecordCalm ==
  ASSUME evidence \in Evidences,
         NEW s \in States, NEW n \in Nat, Past(s, n), NEW a \in Attempts, NEW at \in 0..n,
         ValidIn(Plus(s, Observation(s, a, at)), evidence),
         evidence[a] # "skipped" => \A t \in s.trans : t.at # at,
         NEW l, NEW m, CalmIn(s, evidence, l), m \/ (~l /\ \A r \in s.rcpts : ~(r.id > a))
  PROVE  CalmIn(Plus(s, Observation(s, a, at)), evidence, m)
<1> DEFINE o == Observation(s, a, at)
           g == Plus(s, o)
<1>1. o \in States /\ (o.cands = {} \/ o.trans = {})
  BY ObservationParts
<1>2. /\ o.cands = IF Activates(s, a, at) THEN {[id |-> a, at |-> at]} ELSE {}
      /\ o.trans = IF evidence[a] = "cleared"
                   THEN {Move(s, c, "resolved", at) : c \in Open(s)} ELSE {}
      /\ o.rcpts = {[id |-> a, at |-> at]}
  BY DEF Observation
<1> HIDE DEF o
<1>3. /\ g \in States /\ g.cands = s.cands \cup o.cands
      /\ g.trans = s.trans \cup o.trans /\ g.rcpts = s.rcpts \cup o.rcpts
  BY <1>1, Parts
<1>4. ValidIn(g, evidence)
  BY DEF o
<1> HIDE DEF g
<1>5. /\ a \in Nat /\ at \in Nat
      /\ \A c \in g.cands \cup g.rcpts : c.at \in Nat /\ c.id \in Nat
  <2>1. a \in Nat /\ at \in Nat
    BY AttemptsAssumption
  <2>2. g.cands \subseteq Records /\ g.rcpts \subseteq Records
    BY <1>3, Fields
  <2>3. \A c \in Records : c.at \in Nat /\ c.id \in Nat
    BY AttemptsAssumption DEF Records
  <2> QED
    BY <2>1, <2>2, <2>3
<1>6. CASE Activates(s, a, at)
  <2> DEFINE b == [id |-> a, at |-> at]
  <2>1. evidence[a] = "met" /\ Open(s) = {} /\ \A c \in s.cands : at >= c.at + Cooldown
    BY <1>6 DEF Activates
  <2>2. g.cands = s.cands \cup {b} /\ g.trans = s.trans /\ g.rcpts = s.rcpts \cup {b}
    BY <1>2, <1>3, <1>6, <2>1
  <2>3. \A id : StatusIn(g, id) = StatusIn(s, id)
    <3>1. \A id : Of(g, id) = Of(s, id)
      BY <2>2 DEF Of
    <3> QED
      BY <1>3, <3>1, StatusIs
  <2>4. Open(g) \subseteq {b}
    BY <2>1, <2>2, <2>3 DEF Open
  <2>5. \A c, d \in g.cands : c.at < d.at => d.at - c.at >= Cooldown
    <3>1. ASSUME NEW c \in g.cands, NEW d \in g.cands, c.at < d.at
          PROVE  d.at - c.at >= Cooldown
      <4>1. CASE c \in s.cands /\ d \in s.cands
        BY <3>1, <4>1 DEF CalmIn
      <4>2. CASE c \in s.cands /\ d = b
        BY <1>5, <2>1, <4>2, RuleAssumption
      <4>3. CASE c = b /\ d \in s.cands
        BY <1>5, <2>1, <3>1, <4>3, RuleAssumption
      <4>4. CASE c = b /\ d = b
        BY <1>5, <3>1, <4>4
      <4> QED
        BY <2>2, <4>1, <4>2, <4>3, <4>4
    <3> QED
      BY <3>1
  <2>6. m \/ \A c \in Open(g), r \in g.rcpts : r.id > c.id => evidence[r.id] # "cleared"
    BY <1>5, <2>1, <2>2, <2>4
  <2> QED
    BY <2>4, <2>5, <2>6 DEF CalmIn, g, o
<1>7. CASE ~Activates(s, a, at) /\ evidence[a] = "cleared"
  <2>1. g.cands = s.cands /\ o.trans = {Move(s, c, "resolved", at) : c \in Open(s)}
    BY <1>2, <1>3, <1>7
  <2>2. ASSUME NEW c \in g.cands PROVE StatusIn(g, c.id) = "resolved"
    <3>1. \A d \in s.cands : d.id = c.id => d = c
      BY <1>4, <2>1 DEF ValidIn, OnePerId
    <3>2. CASE c \in Open(s)
      <4> DEFINE t == Move(s, c, "resolved", at)
                 T == Of(g, c.id)
      <4>1. t \in T /\ t.to = "resolved" /\ t.at = at
        BY <1>3, <2>1, <3>2 DEF Of, Move
      <4>2. T \in SUBSET Transitions /\ InOrder(T)
        <5>1. Sequential(g, c.id)
          BY <1>4 DEF ValidIn, Ids
        <5> QED
          BY <1>3, <5>1, Fields, StatusIs DEF Of
      <4>3. \A u \in T : u.at = t.at => u = t
        <5>1. ASSUME NEW u \in T, u.at = t.at PROVE u = t
          <6>1. u \in o.trans /\ u.id = c.id
            BY <1>3, <1>7, <4>1, <5>1 DEF Of
          <6>2. PICK d \in Open(s) : u = Move(s, d, "resolved", at)
            BY <2>1, <6>1
          <6>3. d \in s.cands /\ d.id = c.id
            BY <6>1, <6>2 DEF Move, Open
          <6> QED
            BY <3>1, <6>2, <6>3
        <5> QED
          BY <5>1
      <4> HIDE DEF t, T
      <4>4. StatusOf(T) = "resolved"
        BY <4>1, <4>2, <4>3, ResolvedIsLast
      <4> QED
        BY <1>3, <4>4, StatusIs DEF T
    <3>3. CASE c \notin Open(s)
      <4>1. StatusIn(s, c.id) = "resolved"
        BY <2>1, <3>3 DEF Open
      <4>2. \A u \in o.trans : u.id # c.id
        <5>1. ASSUME NEW d \in Open(s) PROVE Move(s, d, "resolved", at).id # c.id
          BY <3>1, <3>3 DEF Open, Move
        <5> QED
          BY <2>1, <5>1
      <4>3. Of(g, c.id) = Of(s, c.id)
        BY <1>3, <4>2 DEF Of
      <4> QED
        BY <1>3, <4>1, <4>3, StatusIs
    <3> QED
      BY <3>2, <3>3
  <2>3. Open(g) = {}
    BY <2>2 DEF Open
  <2>4. CalmIn(g, evidence, m)
    BY <2>1, <2>3 DEF CalmIn
  <2> QED
    BY <2>4 DEF g, o
<1>8. CASE ~Activates(s, a, at) /\ evidence[a] # "cleared"
  <2>1. g.cands = s.cands /\ g.trans = s.trans
    BY <1>2, <1>3, <1>8
  <2>2. Open(g) = Open(s)
    BY <2>1, SameOpen
  <2>3. \A r \in g.rcpts : r \in s.rcpts \/ r.id = a
    BY <1>2, <1>3
  <2>4. CalmIn(g, evidence, m)
    BY <1>8, <2>1, <2>2, <2>3 DEF CalmIn
  <2> QED
    BY <2>4 DEF g, o
<1> QED
  BY <1>6, <1>7, <1>8

-----------------------------------------------------------------------------
(* A transition of the user *)

\* A move of a candidate that is not resolved is a transition.
LEMMA MoveParts ==
  ASSUME NEW s \in States, NEW n \in Nat, Past(s, n),
         NEW c \in s.cands, NEW to \in {"seen", "closed", "resolved"},
         StatusIn(s, c.id) # "resolved"
  PROVE  LET t == Move(s, c, to, n + 1)
         IN /\ t \in Transitions /\ t.id = c.id /\ t.from = StatusIn(s, c.id)
            /\ t.at = n + 1
<1>1. Of(s, c.id) \in SUBSET Transitions /\ \A u \in Of(s, c.id) : u.at <= n
  BY Fields DEF Of, Past
<1>2. StatusOf(Of(s, c.id)) \in {"new", "seen", "closed", "resolved"}
  BY <1>1, StatusKnown
<1>3. StatusIn(s, c.id) \in {"new", "seen", "closed"}
  BY <1>2, StatusIs
<1>4. c.id \in Attempts
  BY Fields DEF Records
<1> QED
  BY <1>3, <1>4 DEF Move, Transitions

\* A later transition from the status of its candidate keeps the state valid and
\* calm: what is resolved is not moved again.
LEMMA MoveIsSound ==
  ASSUME NEW s \in States, NEW n \in Nat, Past(s, n), NEW e, NEW l, ValidIn(s, e),
         NEW c \in s.cands, StatusIn(s, c.id) # "resolved",
         NEW t \in Transitions, t.id = c.id, t.from = StatusIn(s, c.id), t.at = n + 1,
         NEW o \in States, o.results = {}, o.cands = {}, o.rcpts = {}, o.trans = {t}
  PROVE  /\ ValidIn(Plus(s, o), e)
         /\ CalmIn(s, e, l) => CalmIn(Plus(s, o), e, l)
<1> DEFINE g == Plus(s, o)
<1>1. Of(s, c.id) \in SUBSET Transitions /\ \A u \in Of(s, c.id) : u.at <= n
  BY Fields DEF Of, Past
<1>2. t \in Transitions /\ t.id = c.id /\ t.from = StatusOf(Of(s, c.id)) /\ t.at = n + 1
  BY StatusIs
<1>3. /\ g \in States /\ g.results = s.results /\ g.cands = s.cands /\ g.rcpts = s.rcpts
      /\ g.trans = s.trans \cup {t}
  <2>1. /\ g \in States /\ g.results = s.results \cup o.results /\ g.cands = s.cands \cup o.cands
        /\ g.trans = s.trans \cup o.trans /\ g.rcpts = s.rcpts \cup o.rcpts
    BY ZenonT(60), Parts
  <2> HIDE DEF g
  <2> QED
    BY <2>1
<1> HIDE DEF g
<1>4. \A id : id # c.id => Of(g, id) = Of(s, id)
  BY <1>2, <1>3 DEF Of
<1>5. Of(g, c.id) = Of(s, c.id) \cup {t}
  BY <1>2, <1>3 DEF Of
<1>6. c.id \in Ids(s.cands)
  BY DEF Ids
<1>7. ASSUME NEW id \in Ids(s.cands) PROVE Sequential(g, id)
  <2>1. InOrder(Of(s, id))
    <3>1. Sequential(s, id)
      BY DEF ValidIn
    <3> QED
      BY <3>1, StatusIs
  <2>2. CASE id = c.id
    <3>1. \A u \in Of(s, c.id) : u.at < t.at
      <4>1. \A u \in Of(s, c.id) : u.at \in Nat
        BY <1>1 DEF Transitions
      <4> QED
        BY <1>1, <1>2, <4>1
    <3>2. InOrder(Of(s, c.id))
      BY <2>1, <2>2
    <3>3. InOrder(Of(s, c.id) \cup {t})
      BY <1>1, <1>2, <3>1, <3>2, OrderedNext
    <3> QED
      BY <1>3, <1>5, <2>2, <3>3, StatusIs
  <2>3. CASE id # c.id
    BY <1>3, <1>4, <2>1, <2>3, StatusIs
  <2> QED
    BY <2>2, <2>3
<1>8. Ids(g.trans) \subseteq Ids(g.cands)
  <2>1. \A u \in g.trans : u.id \in Ids(s.cands)
    BY <1>2, <1>3, <1>6 DEF ValidIn, Ids
  <2> QED
    BY <1>3, <2>1 DEF Ids
<1>9. ValidIn(g, e)
  BY <1>3, <1>7, <1>8 DEF ValidIn
<1>10. Open(g) \subseteq Open(s)
  <2>1. ASSUME NEW d \in Open(g) PROVE d \in Open(s)
    <3>1. d \in s.cands /\ StatusIn(g, d.id) # "resolved"
      BY <1>3 DEF Open
    <3>2. CASE d.id = c.id
      BY <3>1, <3>2 DEF Open
    <3>3. CASE d.id # c.id
      <4>1. StatusIn(g, d.id) = StatusIn(s, d.id)
        BY <1>3, <1>4, <3>3, StatusIs
      <4> QED
        BY <3>1, <4>1 DEF Open
    <3> QED
      BY <3>2, <3>3
  <2> QED
    BY <2>1
<1>11. CalmIn(s, e, l) => CalmIn(g, e, l)
  BY <1>3, <1>10 DEF CalmIn
<1> QED
  BY <1>9, <1>11 DEF g

-----------------------------------------------------------------------------
(* The beginning of an observation *)

\* A holder of the lock begins with the cache (s), the journal (j) and what
\* would be loaded (q) in step: o is added, and what of it is new is appended.
LEMMA BeginStep ==
  ASSUME NEW s \in States, NEW j \in States, NEW o \in States, NEW r \in States,
         r.results = o.results \ s.results,
         r.cands = o.cands, r.trans = o.trans, r.rcpts = o.rcpts, Within(s, j)
  PROVE  LET g == Plus(s, o)
         IN /\ Within(s, g) /\ Within(r, g) /\ Within(g, Plus(j, r))
            /\ \A q, k, d, p :
                 /\ Agree(s, j) /\ Agree(q, j) /\ Within(s, q) /\ (o.cands = {} \/ o.trans = {})
                 /\ k = "user" => o.results = {} /\ o.cands = {} /\ o.rcpts = {}
                 => Stage(j, r, s, g, k) /\ Between(q, s, g) /\ Known(d, p, q, s)
<1> DEFINE g == Plus(s, o)
           i == Plus(j, r)
<1>1. /\ g.results = s.results \cup o.results /\ g.cands = s.cands \cup o.cands
      /\ g.trans = s.trans \cup o.trans /\ g.rcpts = s.rcpts \cup o.rcpts
      /\ i.results = j.results \cup r.results /\ i.cands = j.cands \cup r.cands
      /\ i.trans = j.trans \cup r.trans /\ i.rcpts = j.rcpts \cup r.rcpts
  BY Parts
<1> HIDE DEF g, i
<1>2. Within(s, g) /\ Within(r, g) /\ Within(g, i)
  BY <1>1 DEF Within
<1>3. ASSUME NEW q, NEW k, NEW d, NEW p,
             Agree(s, j) /\ Agree(q, j) /\ Within(s, q), o.cands = {} \/ o.trans = {},
             k = "user" => o.results = {} /\ o.cands = {} /\ o.rcpts = {}
      PROVE  Stage(j, r, s, g, k) /\ Between(q, s, g) /\ Known(d, p, q, s)
  <2>1. Agree(g, i) /\ Agree(j, s)
    BY <1>1, <1>3 DEF Agree
  <2>2. g.cands = s.cands \/ g.trans = s.trans
    BY <1>1, <1>3
  <2>3. k = "user" => g.results = s.results /\ g.cands = s.cands /\ g.rcpts = s.rcpts
    BY <1>1, <1>3
  <2>4. Stage(j, r, s, g, k)
    BY <2>1, <2>2, <2>3 DEF Stage, Agree, i
  <2>5. Agree(q, s)
    BY <1>3 DEF Agree
  <2> QED
    BY <1>3, <2>4, <2>5 DEF Between, Known, Agree
<1> QED
  BY <1>2, <1>3, Zenon DEF g, i

-----------------------------------------------------------------------------
(* Steps that leave the store alone, and the end of a hold of its lock *)

Phases == {"down", "boot", "idle", "retry", "observe"}

\* The invariant holds at the beginning.
LEMMA InitHolds ==
  Init => Inv
<1> SUFFICES ASSUME Init PROVE Inv
  OBVIOUS
<1>1. /\ clock = 0 /\ evidence = [a \in Attempts |-> "none"] /\ period = [a \in Attempts |-> 0]
      /\ stored \in BOOLEAN /\ files = "none" /\ marker = FALSE /\ preserved = FALSE /\ tried = FALSE
      /\ doc = Empty /\ journal = Empty /\ cache = Empty
      /\ thread = "down" /\ todo = {} /\ owed = {} /\ screened = NotScreened
      /\ lock = "free" /\ rest = Empty /\ goal = Empty
  BY DEF Init
<1>2. Cardinality(Attempts) \in Nat
  BY AttemptsAssumption, FS_CardinalityType
<1>3. Empty \in States /\ Empty.results = {} /\ Empty.trans = {} /\ Empty.rcpts = {}
  BY Parts
<1>4. /\ ValidIn(Empty, evidence) /\ CalmIn(Empty, evidence, late)
      /\ ConfirmedIn(Empty, evidence, period) /\ Past(Empty, clock)
  BY EmptyIsSound
<1>5. Within(Empty, Empty) /\ Agree(Empty, Empty)
  BY DEF Within, Agree
<1>6. Types
  BY <1>1, <1>2, <1>3, <1>4 DEF Types, Evidences, Periods
<1>7. Work /\ Unused
  <2>1. Ids(Empty.rcpts) = {}
    BY <1>3 DEF Ids
  <2> QED
    BY <1>1, <1>3, <2>1 DEF Work, Unused
<1>8. Appended /\ Validated /\ Confirming
  BY <1>1, <1>4, <1>5 DEF Appended, Validated, Confirming
<1>9. LoadedIn(doc, journal, JournalAlone) = Empty
  BY <1>1, NothingLoaded
<1>10. InStep
  BY <1>1, <1>4, <1>5, <1>9 DEF InStep
<1>11. Disk
  BY <1>1 DEF Disk, FileKinds
<1> QED
  BY <1>6, <1>7, <1>8, <1>10, <1>11 DEF Inv, Base

\* As long as nothing is prepared and no process starts or ends, what has been
\* prepared stays, and the kind of the store.
LEMMA DiskStays ==
  ASSUME Disk, UNCHANGED <<stored, files, marker, preserved, doc, journal>>,
         tried' \in BOOLEAN, thread' = "down" <=> thread = "down"
  PROVE  Disk' /\ JournalAlone' = JournalAlone
BY DEF Disk, JournalAlone, PreservedAtStart

\* Records are written to a journal that is prepared, and to the document where
\* it decides.
LEMMA DiskWritten ==
  ASSUME Disk, thread # "down", files = "manifest", UNCHANGED <<stored, files, marker>>,
         preserved' \in BOOLEAN, tried' \in BOOLEAN,
         thread' # "down" => preserved' = preserved,
         doc' = doc \/ ~preserved
  PROVE  Disk'
BY DEF Disk

\* A step that leaves the store, the evidence and the lock alone.
LEMMA QuietStep ==
  ASSUME Inv,
         UNCHANGED <<evidence, period, doc, journal, cache, lock, rest, goal, orphaned, late>>,
         Disk', JournalAlone' = JournalAlone,
         clock' \in {clock, clock + 1}, thread' \in Phases, thread' = "down" <=> thread = "down",
         todo' \subseteq Done, owed' \subseteq Done,
         screened' \in [id: Done, at: 0..clock'] \cup {NotScreened},
         lock = "thread" => screened' # NotScreened,
         thread = "down" => screened' = NotScreened, Unused'
  PROVE  Inv'
<1>1. Base
  BY DEF Inv
<1>2. Done' = Done
  BY DEF Done
<1>3. Types'
  <2>1. clock \in Nat /\ Past(journal, clock) /\ Past(goal, clock)
        /\ journal \in States /\ goal \in States
    BY <1>1 DEF Base, Types
  <2>2. \A s \in States : Past(s, clock) => Past(s, clock')
    <3>1. \A c \in Records : c.at \in Nat
      BY DEF Records
    <3>2. \A t \in Transitions : t.at \in Nat
      BY DEF Transitions
    <3>3. ASSUME NEW s \in States, Past(s, clock) PROVE Past(s, clock')
      <4>1. \A c \in s.cands \cup s.rcpts : c.at \in Nat
        BY <3>1, Fields
      <4>2. \A t \in s.trans : t.at \in Nat
        BY <3>2, Fields
      <4> QED
        BY <2>1, <3>3, <4>1, <4>2 DEF Past
    <3> QED
      BY <3>3
  <2>3. Past(journal, clock') /\ Past(goal, clock')
    BY <2>1, <2>2
  <2> QED
    BY <1>1, <2>1, <2>3 DEF Base, Types, Phases
<1>4. Work'
  BY <1>1, <1>2 DEF Base, Work
<1>5. Appended' /\ Validated' /\ Confirming'
  BY <1>1 DEF Base, Appended, Validated, Confirming
<1>6. Base'
  BY <1>3, <1>4, <1>5 DEF Base
<1>7. InStep => InStep'
  BY DEF InStep
<1> QED
  BY <1>6, <1>7 DEF Inv

\* The holder lets the lock go, with this document, journal and cache.
LEMMA LetGo ==
  ASSUME Base, UNCHANGED <<clock, evidence, period>>,
         doc' \in States, journal' \in States, cache' \in States, thread' \in Phases,
         lock' = "free", rest' = Empty, goal' = Empty,
         Past(journal', clock), Within(doc', journal'), Within(cache', journal'),
         ValidIn(cache', evidence),
         ConfirmedIn(doc', evidence, period), ConfirmedIn(journal', evidence, period),
         ConfirmedIn(cache', evidence, period),
         journal'.results \subseteq Done, Ids(journal'.rcpts) \subseteq Done,
         todo' \subseteq Done, owed' \subseteq Done,
         \/ screened' = NotScreened
         \/ /\ screened' = screened /\ lock # "thread"
            /\ cache'.trans \subseteq cache.trans \cup goal.trans,
         thread' = "down" => cache' = Empty /\ screened' = NotScreened
  PROVE  Base'
<1>1. Done' = Done
  BY DEF Done
<1>2. Empty \in States /\ Empty.results = {} /\ Empty.trans = {} /\ Ids(Empty.rcpts) = {}
  <2>1. Empty.rcpts = {}
    BY Parts
  <2> QED
    BY <2>1, Parts DEF Ids
<1>3. /\ ValidIn(Empty, evidence) /\ ConfirmedIn(Empty, evidence, period) /\ Past(Empty, clock)
  BY EmptyIsSound
<1>4. Types'
  BY <1>2, <1>3 DEF Base, Types, Phases
<1>5. Work'
  <2>1. screened' \in [id: Done, at: 0..clock] \cup {NotScreened}
    BY DEF Base, Work
  <2> QED
    BY <1>1, <1>2, <2>1 DEF Work
<1>6. Unused'
  BY <1>2 DEF Base, Unused
<1>7. Appended'
  BY DEF Appended
<1>8. Validated' /\ Confirming'
  BY <1>3 DEF Validated, Confirming
<1> QED
  BY <1>4, <1>5, <1>6, <1>7, <1>8 DEF Base

\* It leaves the store in step, when what would be loaded is sound and has what
\* the journal has, and the cache as well, if there is one.
LEMMA LetGoInStep ==
  ASSUME UNCHANGED <<evidence, late>>, lock' = "free", goal' = Empty,
         ValidIn(LoadedIn(doc', journal', JournalAlone'), evidence),
         CalmIn(LoadedIn(doc', journal', JournalAlone'), evidence, late),
         CalmIn(cache', evidence, late),
         Agree(LoadedIn(doc', journal', JournalAlone'), journal'),
         thread' # "down" => Within(cache', LoadedIn(doc', journal', JournalAlone'))
                             /\ Agree(cache', journal')
  PROVE  InStep'
<1>1. CalmIn(Empty, evidence, late)
  BY EmptyIsSound
<1> QED
  BY <1>1 DEF InStep

\* The observed attempt is one that has ended.
LEMMA ObservedWork ==
  ASSUME Base, screened # NotScreened, NEW failed \in BOOLEAN, Observed(failed)
  PROVE  /\ screened.id \in Done /\ screened.at \in 0..clock
         /\ todo' \subseteq Done /\ owed' \subseteq Done /\ screened' = NotScreened
         /\ thread' = thread
BY DEF Base, Work, Observed

-----------------------------------------------------------------------------
(* The steps *)

\* The thread goes from one phase to the next, or finds an attempt recorded.
LEMMA ThreadHolds ==
  ASSUME Inv, Booted \/ Tick \/ TickEnds \/ \E a \in Attempts : AlreadyRecorded(a)
  PROVE  Inv'
<1>1. /\ UNCHANGED <<clock, evidence, period, stored, files, marker, doc, journal, preserved,
                     cache, screened, lock, tried, rest, goal, orphaned, late>>
      /\ thread' \in Phases /\ thread # "down" /\ thread' # "down"
      /\ todo' \subseteq todo \cup owed /\ owed' \subseteq owed
  BY DEF Booted, Tick, TickEnds, AlreadyRecorded, durable, prepared, writing, hist, Phases
<1>2. Work /\ Unused /\ clock \in Nat
  BY DEF Inv, Base, Types
<1>3. todo' \subseteq Done /\ owed' \subseteq Done
  BY <1>1, <1>2 DEF Work
<1>4. /\ screened' \in [id: Done, at: 0..clock'] \cup {NotScreened}
      /\ lock = "thread" => screened' # NotScreened
  BY <1>1, <1>2 DEF Work
<1>5. Unused'
  BY <1>1, <1>2 DEF Unused
<1>6. clock' \in {clock, clock + 1} /\ (thread' = "down" <=> thread = "down")
      /\ (thread = "down" => screened' = NotScreened)
  BY <1>1
<1>7. UNCHANGED <<evidence, period, doc, journal, cache, lock, rest, goal, orphaned, late>>
  BY <1>1
<1>8. thread' \in Phases
  BY <1>1
<1>9. Disk' /\ JournalAlone' = JournalAlone
  <2>1. Disk /\ tried' \in BOOLEAN
    BY <1>1 DEF Inv, Disk
  <2> QED
    BY <1>1, <2>1, DiskStays
<1> QED
  BY <1>3, <1>4, <1>5, <1>6, <1>7, <1>8, <1>9, QuietStep

\* The instant of an evaluation is later than any that is recorded.
LEMMA EvaluateHolds ==
  ASSUME Inv, NEW a \in Attempts, Evaluate(a)
  PROVE  Inv'
<1>1. /\ UNCHANGED <<evidence, period, stored, files, marker, doc, journal, preserved, cache,
                     thread, todo, owed, lock, tried, rest, goal, orphaned, late>>
      /\ thread # "down" /\ screened = NotScreened /\ a \in todo
      /\ \/ evidence[a] = "skipped" /\ screened' = [id |-> a, at |-> 0] /\ clock' = clock
         \/ screened' = [id |-> a, at |-> clock + 1] /\ clock' = clock + 1
  BY DEF Evaluate, First, durable, prepared, writing, hist
<1>2. Types /\ Work /\ Appended /\ clock \in Nat
  BY DEF Inv, Base, Types
<1>3. a \in Done /\ a # 0
  BY <1>1, <1>2, AttemptsAssumption DEF Work
<1>4. screened' \in [id: Done, at: 0..clock'] \cup {NotScreened} /\ screened' # NotScreened
      /\ screened'.id = a
  BY <1>1, <1>2, <1>3 DEF NotScreened
<1>5. Unused'
  <2>1. journal \in States /\ goal \in States /\ Past(journal, clock) /\ Past(goal, clock)
        /\ cache.trans \subseteq journal.trans
    BY <1>2 DEF Types, Appended, Within
  <2>2. \A t \in cache.trans \cup goal.trans : t.at \in Nat /\ t.at <= clock
    <3>1. \A t \in Transitions : t.at \in Nat
      BY DEF Transitions
    <3>2. journal.trans \subseteq Transitions /\ goal.trans \subseteq Transitions
      BY <2>1, Fields
    <3> QED
      BY <2>1, <3>1, <3>2 DEF Past
  <2>3. evidence[a] = "skipped" \/ screened'.at = clock + 1
    BY <1>1
  <2> QED
    BY <1>1, <1>2, <1>4, <2>2, <2>3 DEF Unused
<1>6. clock' \in {clock, clock + 1} /\ thread' \in Phases
      /\ (thread' = "down" <=> thread = "down")
  BY <1>1, <1>2 DEF Types, Phases
<1>7. todo' \subseteq Done /\ owed' \subseteq Done
  BY <1>1, <1>2 DEF Work
<1>8. UNCHANGED <<evidence, period, doc, journal, cache, lock, rest, goal, orphaned, late>>
  BY <1>1
<1>10. Disk' /\ JournalAlone' = JournalAlone
  <2>1. Disk /\ tried' \in BOOLEAN
    BY <1>1 DEF Inv, Disk
  <2> QED
    BY <1>1, <2>1, DiskStays
<1>9. (lock = "thread" => screened' # NotScreened) /\ (thread = "down" => screened' = NotScreened)
  BY <1>1, <1>4
<1> QED
  BY <1>4, <1>5, <1>6, <1>7, <1>8, <1>9, <1>10, QuietStep

\* The process starts with a state that validates.
LEMMA BootHolds ==
  ASSUME Inv, Boot
  PROVE  Inv'
<1> DEFINE loaded == LoadedIn(doc, journal, JournalAlone)
<1>1. /\ UNCHANGED <<clock, evidence, period, stored, files, marker, doc, journal, owed,
                     screened, lock, tried, rest, goal, orphaned, late>>
      /\ thread = "down" /\ thread' = "boot" /\ preserved' = PreservedAtStart
      /\ cache' = loaded /\ ValidIn(loaded, evidence) /\ todo' \subseteq Done
  BY Reading DEF Boot, durable, prepared, writing, hist
<1>2. Base
  BY DEF Inv
<1>3. lock = "free" /\ screened = NotScreened /\ rest = Empty /\ goal = Empty
  BY <1>1, <1>2 DEF Base, Work
<1>4. doc \in States /\ journal \in States /\ Within(doc, journal)
  BY <1>2 DEF Base, Types, Appended
<1>5. loaded \in States /\ Within(loaded, journal)
  BY <1>4, LoadedParts
<1>6. ConfirmedIn(loaded, evidence, period)
  BY <1>2, <1>4, LoadedConfirmed DEF Base, Confirming
<1> HIDE DEF loaded
<1>7. Base'
  <2>1. lock' = "free" /\ rest' = Empty /\ goal' = Empty
    BY <1>1, <1>3
  <2>2. doc' \in States /\ journal' \in States /\ cache' \in States
    BY <1>1, <1>4, <1>5
  <2>3. Past(journal', clock) /\ Within(doc', journal') /\ Within(cache', journal')
    BY <1>1, <1>2, <1>4, <1>5 DEF Base, Types
  <2>4. ValidIn(cache', evidence)
    BY <1>1
  <2>5. ConfirmedIn(doc', evidence, period) /\ ConfirmedIn(journal', evidence, period)
        /\ ConfirmedIn(cache', evidence, period)
    BY <1>1, <1>2, <1>6 DEF Base, Confirming
  <2>6. journal'.results \subseteq Done /\ Ids(journal'.rcpts) \subseteq Done
        /\ todo' \subseteq Done /\ owed' \subseteq Done
    BY <1>1, <1>2 DEF Base, Work
  <2>7. screened' = NotScreened /\ thread' \in Phases /\ thread' # "down"
    BY <1>1, <1>3 DEF Phases
  <2>8. UNCHANGED <<clock, evidence, period>>
    BY <1>1
  <2> QED
    BY <1>2, <2>1, <2>2, <2>3, <2>4, <2>5, <2>6, <2>7, <2>8, LetGo
<1>9. JournalAlone' = JournalAlone
  BY <1>1 DEF JournalAlone
<1>10. Disk'
  <2>1. Disk
    BY DEF Inv
  <2> QED
    BY <1>1, <2>1 DEF Disk, PreservedAtStart
<1>8. ASSUME InStep PROVE InStep'
  <2>1. /\ CalmIn(loaded, evidence, late) /\ Agree(loaded, journal)
    BY <1>3, <1>8 DEF InStep, loaded
  <2>2. LoadedIn(doc', journal', JournalAlone') = loaded
    BY <1>1, <1>9 DEF loaded
  <2>3. Within(loaded, loaded)
    BY DEF Within
  <2> QED
    BY <1>1, <1>3, <2>1, <2>2, <2>3, LetGoInStep
<1> QED
  BY <1>1, <1>7, <1>8, <1>10 DEF Inv

\* What is said of a state of attempts that have ended does not depend on the
\* others.
LEMMA SameEvidence ==
  ASSUME NEW D, NEW e, NEW f, NEW p, NEW q, \A b \in D : f[b] = e[b] /\ q[b] = p[b],
         NEW s \in States, s.results \subseteq D, Ids(s.rcpts) \subseteq D, NEW l
  PROVE  /\ ValidIn(s, e) => ValidIn(s, f)
         /\ CalmIn(s, e, l) => CalmIn(s, f, l)
         /\ ConfirmedIn(s, e, p) => ConfirmedIn(s, f, q)
<1>1. \A r \in s.rcpts : f[r.id] = e[r.id]
  BY DEF Ids
<1>2. \A a : Matched(s.results, a, f, q) = Matched(s.results, a, e, p)
  BY DEF Matched
<1>3. ValidIn(s, e) => ValidIn(s, f)
  BY <1>1 DEF ValidIn
<1>4. CalmIn(s, e, l) => CalmIn(s, f, l)
  BY <1>1 DEF CalmIn
<1>5. ConfirmedIn(s, e, p) => ConfirmedIn(s, f, q)
  BY <1>2 DEF ConfirmedIn
<1> QED
  BY <1>3, <1>4, <1>5

\* There are no more periods than attempts that have ended.
LEMMA PeriodFits ==
  ASSUME period \in Periods, NEW a \in Attempts \ Done
  PROVE  Cardinality({period[b] : b \in Done}) \in 0..Cardinality(Attempts) - 1
<1> DEFINE P == {period[b] : b \in Done}
           f == [b \in Done |-> period[b]]
<1>1. Done \in SUBSET (Attempts \ {a})
  BY DEF Done
<1>2. IsFiniteSet(Attempts) /\ a \in Attempts
  BY AttemptsAssumption
<1>3. /\ IsFiniteSet(Attempts \ {a})
      /\ Cardinality(Attempts \ {a}) = Cardinality(Attempts) - 1
  BY <1>2, FS_RemoveElement
<1>4. IsFiniteSet(Done) /\ Cardinality(Done) <= Cardinality(Attempts) - 1
  BY <1>1, <1>3, FS_Subset
<1>5. f \in Surjection(Done, P)
  BY DEF Surjection
<1> HIDE DEF P, f
<1>6. IsFiniteSet(P) /\ Cardinality(P) <= Cardinality(Done)
  BY <1>4, <1>5, FS_Surjection
<1>7. Cardinality(P) \in Nat /\ Cardinality(Done) \in Nat /\ Cardinality(Attempts) \in Nat
  BY <1>2, <1>4, <1>6, FS_CardinalityType
<1>8. Cardinality(P) \in 0..Cardinality(Attempts) - 1
  BY <1>4, <1>6, <1>7
<1> QED
  BY <1>8 DEF P

\* An attempt ends: nothing that is kept is of it.
LEMMA AttemptEndsHolds ==
  ASSUME Inv, NEW a \in Attempts, NEW k \in Kinds, AttemptEnds(a, k)
  PROVE  Inv'
<1> DEFINE loaded == LoadedIn(doc, journal, JournalAlone)
<1>1. /\ UNCHANGED <<clock, stored, files, marker, doc, journal, preserved, cache, owed,
                     screened, lock, tried, rest, goal, orphaned, late>>
      /\ thread # "down" /\ thread' = "observe" /\ todo' = {a}
      /\ a \in Attempts \ Done /\ evidence' = [evidence EXCEPT ![a] = k]
  BY DEF AttemptEnds, First, prepared, writing, hist
<1>2. PICK p \in {0, 1} :
        period' = [period EXCEPT ![a] = p + Cardinality({period[b] : b \in Done})]
  BY DEF AttemptEnds
<1>3. Base /\ Types /\ Work /\ Appended /\ evidence \in Evidences /\ period \in Periods
  BY DEF Inv, Base, Types
<1>4. Cardinality({period[b] : b \in Done}) \in 0..Cardinality(Attempts) - 1
  BY <1>1, <1>3, PeriodFits
<1>5. Cardinality(Attempts) \in Nat
  BY AttemptsAssumption, FS_CardinalityType
<1>6. p + Cardinality({period[b] : b \in Done}) \in 0..Cardinality(Attempts)
  BY <1>4, <1>5
<1>7. evidence' \in Evidences /\ period' \in Periods
  BY <1>1, <1>2, <1>3, <1>6 DEF Evidences, Periods
<1>8. Done' = Done \cup {a}
  BY <1>1, <1>3 DEF Done, Evidences, Kinds
<1>9. \A b \in Done : evidence'[b] = evidence[b] /\ period'[b] = period[b]
  BY <1>1, <1>2, <1>3 DEF Evidences, Periods, Done
<1>10. loaded \in States /\ Within(loaded, journal)
  BY <1>3, LoadedParts DEF Types, Appended
<1> HIDE DEF loaded
<1>11. /\ doc \in States /\ journal \in States /\ cache \in States /\ goal \in States
       /\ doc.results \subseteq Done /\ Ids(doc.rcpts) \subseteq Done
       /\ journal.results \subseteq Done /\ Ids(journal.rcpts) \subseteq Done
       /\ cache.results \subseteq Done /\ Ids(cache.rcpts) \subseteq Done
       /\ goal.results \subseteq Done /\ Ids(goal.rcpts) \subseteq Done
       /\ loaded.results \subseteq Done /\ Ids(loaded.rcpts) \subseteq Done
  <2>1. \A s : Within(s, journal) => s.results \subseteq Done /\ Ids(s.rcpts) \subseteq Done
    BY <1>3 DEF Work, Within, Ids
  <2> QED
    BY <1>3, <1>10, <2>1 DEF Types, Work, Appended
<1>12. ASSUME NEW s \in States, s.results \subseteq Done, Ids(s.rcpts) \subseteq Done
       PROVE  /\ ValidIn(s, evidence) => ValidIn(s, evidence')
              /\ CalmIn(s, evidence, late) => CalmIn(s, evidence', late)
              /\ ConfirmedIn(s, evidence, period) => ConfirmedIn(s, evidence', period')
  <2> DEFINE D == Done
             e == evidence
             f == evidence'
             p0 == period
             q == period'
             l == late
  <2>1. (\A b \in D : f[b] = e[b] /\ q[b] = p0[b]) /\ s.results \subseteq D /\ Ids(s.rcpts) \subseteq D
    BY <1>9, <1>12
  <2> HIDE DEF D, e, f, p0, q, l
  <2>2. /\ ValidIn(s, e) => ValidIn(s, f)
        /\ CalmIn(s, e, l) => CalmIn(s, f, l)
        /\ ConfirmedIn(s, e, p0) => ConfirmedIn(s, f, q)
    BY ZenonT(60), <2>1, SameEvidence
  <2> QED
    BY <2>2 DEF e, f, p0, q, l
<1>13. Types'
  BY <1>1, <1>3, <1>7 DEF Types
<1>14. Work'
  BY <1>1, <1>3, <1>8 DEF Work
<1>15. Unused'
  <2>1. screened # NotScreened => screened.id \in Done
    BY <1>3 DEF Work
  <2>2. Unused
    BY <1>3 DEF Base
  <2> QED
    BY <1>1, <1>9, <2>1, <2>2 DEF Unused
<1>16. Appended' /\ Validated' /\ Confirming'
  BY <1>1, <1>3, <1>11, <1>12 DEF Base, Appended, Validated, Confirming
<1>17. Disk' /\ JournalAlone' = JournalAlone
  <2>1. Disk /\ tried' \in BOOLEAN
    BY <1>1 DEF Inv, Disk
  <2> QED
    BY <1>1, <2>1, DiskStays
<1>18. LoadedIn(doc', journal', JournalAlone') = loaded
  BY <1>1, <1>17 DEF loaded
<1>19. ASSUME InStep PROVE InStep'
  <2>1. /\ ValidIn(loaded, evidence) /\ CalmIn(loaded, evidence, late)
        /\ CalmIn(cache, evidence, late) /\ CalmIn(goal, evidence, late)
        /\ thread # "down" => Within(cache, loaded)
        /\ lock = "free" => Agree(loaded, journal) /\ (thread # "down" => Agree(cache, journal))
        /\ lock # "free" =>
             /\ Stage(journal, rest, cache, goal, lock)
             /\ Between(loaded, cache, goal)
             /\ Known(doc, JournalAlone, loaded, cache)
    BY <1>19 DEF InStep, loaded
  <2>2. /\ ValidIn(loaded, evidence') /\ CalmIn(loaded, evidence', late)
        /\ CalmIn(cache, evidence', late) /\ CalmIn(goal, evidence', late)
    BY <1>10, <1>11, <1>12, <2>1
  <2>3. /\ thread' # "down" => Within(cache', loaded)
        /\ lock' = "free" => Agree(loaded, journal') /\ Agree(cache', journal')
        /\ lock' # "free" =>
             /\ Stage(journal', rest', cache', goal', lock')
             /\ Between(loaded, cache', goal')
             /\ Known(doc', JournalAlone', loaded, cache')
    BY <1>1, <1>17, <2>1
  <2> QED
    BY <1>1, <1>18, <2>2, <2>3 DEF InStep
<1> QED
  BY <1>1, <1>13, <1>14, <1>15, <1>16, <1>17, <1>19 DEF Inv, Base

\* Whoever takes the lock begins to append what the cache has not.
LEMMA BeginHolds ==
  ASSUME Inv, UNCHANGED <<evidence, period, doc, journal, cache, thread, todo, owed, screened,
                          orphaned>>,
         Disk', JournalAlone' = JournalAlone,
         clock' \in {clock, clock + 1}, lock = "free", lock' \in {"thread", "user"},
         thread # "down", lock' = "thread" => screened # NotScreened,
         NEW o \in States, o.cands = {} \/ o.trans = {},
         lock' = "user" => o.results = {} /\ o.cands = {} /\ o.rcpts = {},
         o.results \subseteq Done, Ids(o.rcpts) \subseteq Done, Past(o, clock'),
         goal' = Plus(cache, o),
         rest' \in States, rest'.results = o.results \ cache.results, rest'.cands = o.cands,
         rest'.trans = o.trans, rest'.rcpts = o.rcpts,
         lock' = "user" => \A t \in o.trans : t.at = clock + 1,
         ValidIn(goal', evidence), ConfirmedIn(goal', evidence, period),
         ~orphaned => /\ CalmIn(cache, evidence, late) => CalmIn(goal', evidence, late')
                      /\ late => late'
  PROVE  Inv'
<1>1. Base /\ Types /\ Work /\ Unused /\ Appended
  BY DEF Inv, Base
<1>2. Done' = Done
  BY DEF Done
<1>3. /\ clock \in Nat /\ journal \in States /\ cache \in States /\ Within(cache, journal)
      /\ Past(journal, clock)
  BY <1>1 DEF Types, Appended
<1>4. /\ goal' \in States
      /\ goal'.results = cache.results \cup o.results /\ goal'.cands = cache.cands \cup o.cands
      /\ goal'.trans = cache.trans \cup o.trans /\ goal'.rcpts = cache.rcpts \cup o.rcpts
  BY <1>3, Parts
<1>5. /\ Within(cache, goal') /\ Within(rest', goal') /\ Within(goal', Plus(journal, rest'))
      /\ \A q, k, d, p :
           /\ Agree(cache, journal) /\ Agree(q, journal) /\ Within(cache, q)
           /\ o.cands = {} \/ o.trans = {}
           /\ k = "user" => o.results = {} /\ o.cands = {} /\ o.rcpts = {}
           => Stage(journal, rest', cache, goal', k) /\ Between(q, cache, goal')
              /\ Known(d, p, q, cache)
  <2> DEFINE r == rest'
  <2>1. /\ r \in States /\ r.results = o.results \ cache.results
        /\ r.cands = o.cands /\ r.trans = o.trans /\ r.rcpts = o.rcpts
    OBVIOUS
  <2> HIDE DEF r
  <2>2. LET g == Plus(cache, o)
        IN /\ Within(cache, g) /\ Within(r, g) /\ Within(g, Plus(journal, r))
           /\ \A q, k, d, p :
                /\ Agree(cache, journal) /\ Agree(q, journal) /\ Within(cache, q)
                /\ (o.cands = {} \/ o.trans = {})
                /\ k = "user" => o.results = {} /\ o.cands = {} /\ o.rcpts = {}
                => /\ Stage(journal, r, cache, g, k) /\ Between(q, cache, g)
                   /\ Known(d, p, q, cache)
    BY <1>3, <2>1, BeginStep, Zenon
  <2> QED
    BY <2>2 DEF r
<1>6. Past(journal, clock') /\ Past(goal', clock')
  <2>1. Past(journal, clock')
    <3>1. \A c \in journal.cands \cup journal.rcpts : c.at \in Nat
      BY <1>3, Fields DEF Records
    <3>2. \A t \in journal.trans : t.at \in Nat
      BY <1>3, Fields DEF Transitions
    <3> QED
      BY <1>3, <3>1, <3>2 DEF Past
  <2> QED
    BY <1>3, <1>4, <2>1 DEF Past, Within
<1>7. Types'
  BY <1>1, <1>3, <1>4, <1>6 DEF Types
<1>8. Work'
  <2>1. screened' \in [id: Done, at: 0..clock'] \cup {NotScreened}
    BY <1>1, <1>3 DEF Work
  <2>2. goal'.results \subseteq Done /\ Ids(goal'.rcpts) \subseteq Done
    BY <1>1, <1>4 DEF Work, Within, Appended, Ids
  <2> QED
    BY <1>1, <1>2, <2>1, <2>2 DEF Work
<1>9. Unused'
  <2>1. ASSUME lock' = "user", screened # NotScreened, evidence[screened.id] # "skipped",
               NEW t \in cache.trans \cup goal'.trans
        PROVE  t.at # screened.at
    <3>1. screened.at \in 0..clock
      BY <1>1, <2>1 DEF Work
    <3>2. CASE t \in o.trans
      BY <1>3, <2>1, <3>1, <3>2
    <3>3. CASE t \in cache.trans
      BY <1>1, <2>1, <3>3 DEF Unused
    <3> QED
      BY <1>4, <3>2, <3>3
  <2> QED
    BY <2>1 DEF Unused
<1>10. Appended'
  BY <1>1, <1>5 DEF Appended
<1>11. Validated' /\ Confirming'
  BY <1>1 DEF Base, Validated, Confirming
<1>12. ASSUME InStep, ~orphaned PROVE InStep'
  <2> DEFINE loaded == LoadedIn(doc, journal, JournalAlone)
  <2>1. /\ ValidIn(loaded, evidence) /\ CalmIn(loaded, evidence, late)
        /\ CalmIn(cache, evidence, late)
        /\ Within(cache, loaded) /\ Agree(loaded, journal) /\ Agree(cache, journal)
    BY <1>12 DEF InStep
  <2>2. LoadedIn(doc', journal', JournalAlone') = loaded
    OBVIOUS
  <2> HIDE DEF loaded
  <2>3. /\ Stage(journal, rest', cache, goal', lock') /\ Between(loaded, cache, goal')
        /\ Known(doc, JournalAlone, loaded, cache)
    BY <1>5, <2>1
  <2>4. \A s : CalmIn(s, evidence, late) => CalmIn(s, evidence, late')
    BY <1>12 DEF CalmIn
  <2> QED
    BY <1>12, <2>1, <2>2, <2>3, <2>4 DEF InStep
<1> QED
  BY <1>7, <1>8, <1>9, <1>10, <1>11, <1>12 DEF Inv, Base

\* The thread records an attempt, or fails to because the new state does not
\* validate.
LEMMA RecordHolds ==
  ASSUME Inv, Record
  PROVE  Inv'
<1> DEFINE o == Observation(cache, screened.id, screened.at)
           empty == [Empty EXCEPT !.results = cache.results]
<1>1. Base /\ Types /\ Work /\ Unused /\ Appended
  BY DEF Inv, Base
<1>2. /\ screened # NotScreened /\ lock = "free"
      /\ UNCHANGED <<clock, evidence, period, stored, files, marker, doc, journal, preserved,
                     cache, tried, orphaned>>
  BY Zenon DEF Record, durable, prepared, writing
<1>3. screened.id \in Done /\ screened.id \in Attempts /\ screened.at \in 0..clock
      /\ thread # "down"
  BY <1>1, <1>2 DEF Work, Done
<1>4. /\ evidence \in Evidences /\ period \in Periods /\ clock \in Nat /\ cache \in States
      /\ Past(cache, clock)
  BY <1>1 DEF Types, Appended, Within, Past
<1>7. Disk /\ tried' \in BOOLEAN
  BY <1>2 DEF Inv, Disk
<1>5. CASE Valid(Plus(cache, o))
  <2>1. /\ lock' = "thread" /\ goal' = Plus(cache, o) /\ rest' = Minus(o, empty)
        /\ late' = (late \/ \E b \in Ids(cache.rcpts) : b > screened.id)
        /\ UNCHANGED <<thread, todo, owed, screened>>
    BY <1>5, Zenon DEF Record
  <2>2. o \in States /\ (o.cands = {} \/ o.trans = {}) /\ Past(o, clock)
    BY <1>3, <1>4, ObservationParts
  <2>3. o.results \subseteq {screened.id} /\ o.rcpts = {[id |-> screened.id, at |-> screened.at]}
    BY DEF Observation
  <2>4. ConfirmedIn(goal', evidence, period)
    BY <1>1, <1>3, <1>4, <2>1, RecordConfirmed DEF Base, Confirming
  <2>5. ValidIn(Plus(cache, o), evidence)
    BY <1>5, Reading
  <2>6. ASSUME CalmIn(cache, evidence, late) PROVE CalmIn(goal', evidence, late')
    <3> DEFINE a == screened.id
               at == screened.at
               m == late'
    <3>1. evidence[a] # "skipped" => \A t \in cache.trans : t.at # at
      BY <1>1, <1>2 DEF Unused
    <3>2. m \/ (~late /\ \A r \in cache.rcpts : ~(r.id > a))
      BY <2>1 DEF Ids
    <3>3. ValidIn(Plus(cache, Observation(cache, a, at)), evidence)
      BY <2>5
    <3>4. a \in Attempts /\ at \in 0..clock
      BY <1>3
    <3> HIDE DEF a, at, m
    <3>5. CalmIn(Plus(cache, Observation(cache, a, at)), evidence, m)
      BY <1>4, <2>6, <3>1, <3>2, <3>3, <3>4, RecordCalm
    <3> QED
      BY <2>1, <3>5 DEF a, at, m
  <2> HIDE DEF o
  <2>7. empty \in States /\ empty.results = cache.results /\ empty.cands = {}
        /\ empty.trans = {} /\ empty.rcpts = {}
    <3>1. cache.results \subseteq Attempts
      BY <1>4, Fields
    <3> QED
      BY <3>1 DEF Empty, States
  <2> HIDE DEF empty
  <2>8. /\ rest' \in States /\ rest'.results = o.results \ cache.results
        /\ rest'.cands = o.cands /\ rest'.trans = o.trans /\ rest'.rcpts = o.rcpts
    <3>1. /\ rest' \in States /\ rest'.results = o.results \ empty.results
          /\ rest'.cands = o.cands \ empty.cands /\ rest'.trans = o.trans \ empty.trans
          /\ rest'.rcpts = o.rcpts \ empty.rcpts
      BY <2>1, <2>2, <2>7, Parts
    <3> QED
      BY <2>7, <3>1
  <2>9. o.results \subseteq Done /\ Ids(o.rcpts) \subseteq Done
    BY <1>3, <2>3 DEF Ids
  <2>10. late => late'
    BY <2>1
  <2>11. UNCHANGED <<evidence, period, doc, journal, cache, thread, todo, owed, screened,
                     orphaned>>
    BY <1>2, <2>1
  <2>13. Disk' /\ JournalAlone' = JournalAlone
    BY <1>2, <1>7, <2>1, DiskStays
  <2>12. clock' \in {clock, clock + 1} /\ lock' \in {"thread", "user"} /\ lock' # "user"
         /\ Past(o, clock') /\ ValidIn(goal', evidence)
    BY <1>2, <2>1, <2>2, <2>5
  <2> QED
    BY <1>2, <1>3, <2>1, <2>2, <2>4, <2>6, <2>8, <2>9, <2>10, <2>11, <2>12,
       <2>13, BeginHolds
<1>6. CASE ~Valid(Plus(cache, o))
  <2>1. Observed(TRUE) /\ UNCHANGED <<lock, rest, goal, late>>
    BY <1>6, Zenon DEF Record, writing
  <2>2. todo' \subseteq Done /\ owed' \subseteq Done /\ screened' = NotScreened /\ thread' = thread
    BY <1>1, <1>2, <2>1, ObservedWork
  <2>3. Unused'
    BY <2>2 DEF Unused
  <2>4. thread' \in Phases /\ (thread' = "down" <=> thread = "down")
    BY <1>1, <2>2 DEF Types, Phases
  <2>5. UNCHANGED <<evidence, period, doc, journal, cache, lock, rest, goal, orphaned, late>>
    BY <1>2, <2>1
  <2>6. Disk' /\ JournalAlone' = JournalAlone
    BY <1>2, <1>7, <2>4, DiskStays
  <2> QED
    BY <1>2, <2>2, <2>3, <2>4, <2>5, <2>6, QuietStep
<1> QED
  BY <1>5, <1>6

\* The user moves a candidate on.
LEMMA TransitionHolds ==
  ASSUME Inv, NEW c \in cache.cands, NEW to \in Moves, Transition(c, to)
  PROVE  Inv'
<1> DEFINE t == Move(cache, c, to, clock + 1)
           o == [Empty EXCEPT !.trans = {t}]
<1>1. Base /\ Types /\ Work /\ Unused /\ Appended
  BY DEF Inv, Base
<1>2. /\ UNCHANGED <<evidence, period, stored, files, marker, doc, journal, preserved, cache,
                     thread, todo, owed, screened, orphaned, late>>
      /\ tried' = FALSE
      /\ clock' = clock + 1 /\ lock = "free" /\ lock' = "user" /\ thread # "down"
      /\ rest' = o /\ goal' = Plus(cache, o)
      /\ to \in Allowed(StatusIn(cache, c.id))
  BY DEF Transition, durable, prepared, hist
<1>3. /\ clock \in Nat /\ cache \in States /\ Past(cache, clock) /\ ValidIn(cache, evidence)
      /\ ConfirmedIn(cache, evidence, period) /\ period \in Periods
  BY <1>1 DEF Base, Types, Appended, Within, Past, Validated, Confirming
<1>4. StatusIn(cache, c.id) # "resolved"
  BY <1>2 DEF Allowed
<1>5. to \in {"seen", "closed", "resolved"}
  BY ScreeningBounds
<1>6. /\ t \in Transitions /\ t.id = c.id /\ t.from = StatusIn(cache, c.id)
      /\ t.at = clock + 1
  BY <1>3, <1>4, <1>5, MoveParts
<1> HIDE DEF t
<1>7. o \in States /\ o.results = {} /\ o.cands = {} /\ o.rcpts = {} /\ o.trans = {t}
  BY <1>6 DEF Empty, States
<1> HIDE DEF o
<1>8. /\ ValidIn(Plus(cache, o), evidence)
      /\ CalmIn(cache, evidence, late) => CalmIn(Plus(cache, o), evidence, late)
  BY <1>3, <1>4, <1>6, <1>7, MoveIsSound
<1>9. \A u \in o.trans : u.at = clock + 1
  BY <1>6, <1>7
<1>10. Past(o, clock') /\ Ids(o.rcpts) \subseteq Done /\ o.results \subseteq Done
  BY <1>2, <1>3, <1>7, <1>9 DEF Past, Ids
<1>11. /\ rest' \in States /\ rest'.results = o.results \ cache.results
       /\ rest'.cands = o.cands /\ rest'.trans = o.trans /\ rest'.rcpts = o.rcpts
  BY <1>2, <1>7
<1>12. ConfirmedIn(goal', evidence, period)
  <2>1. goal'.cands = cache.cands /\ goal'.results = cache.results
    <3>1. cache \in States /\ o \in States /\ goal' = Plus(cache, o)
      BY <1>2, <1>3, <1>7
    <3>2. /\ goal'.cands = cache.cands \cup o.cands
          /\ goal'.results = cache.results \cup o.results
      BY <3>1, Parts
    <3> QED
      BY <1>7, <3>2
  <2> QED
    BY <1>3, <2>1 DEF ConfirmedIn
<1>13. /\ CalmIn(cache, evidence, late) => CalmIn(goal', evidence, late')
       /\ late => late'
  BY <1>2, <1>8
<1>14. clock' \in {clock, clock + 1} /\ lock' \in {"thread", "user"} /\ lock' # "thread"
       /\ ValidIn(goal', evidence)
  BY <1>2, <1>8
<1>15. UNCHANGED <<evidence, period, doc, journal, cache, thread, todo, owed, screened, orphaned>>
  BY <1>2
<1>16. Disk' /\ JournalAlone' = JournalAlone
  <2>1. Disk /\ tried' \in BOOLEAN
    BY <1>2 DEF Inv, Disk
  <2> QED
    BY <1>2, <2>1, DiskStays
<1> QED
  BY <1>2, <1>7, <1>9, <1>10, <1>11, <1>12, <1>13, <1>14, <1>15, <1>16, BeginHolds

\* The holder of the lock has an observation and the process is up.
LEMMA Holding ==
  ASSUME Base, lock # "free"
  PROVE  /\ thread # "down" /\ thread \in Phases /\ lock \in {"thread", "user"}
         /\ lock = "thread" => screened # NotScreened
         /\ doc \in States /\ journal \in States /\ cache \in States
         /\ rest \in States /\ goal \in States
         /\ Within(doc, journal) /\ Within(cache, journal)
         /\ Within(cache, goal) /\ Within(rest, goal) /\ Within(goal, Plus(journal, rest))
BY DEF Base, Types, Work, Appended, Phases

\* What the threads have after a write has raised.
LEMMA RaisedParts ==
  ASSUME Base, Disk, lock # "free", Raised
  PROVE  /\ lock' = "free" /\ rest' = Empty /\ goal' = Empty /\ thread' \in Phases
         /\ tried' \in BOOLEAN /\ preserved' \in BOOLEAN
         /\ todo' \subseteq Done /\ owed' \subseteq Done
         /\ \/ screened' = NotScreened
            \/ screened' = screened /\ lock # "thread"
         /\ thread' = "down" => cache' = Empty /\ screened' = NotScreened
         /\ thread' # "down" => cache' = cache /\ preserved' = preserved
<1>1. /\ thread # "down" /\ thread \in Phases /\ lock \in {"thread", "user"}
      /\ lock = "thread" => screened # NotScreened
  BY Holding
<1>2. preserved \in BOOLEAN
  BY DEF Disk
<1>3. CASE lock = "user"
  <2>1. UNCHANGED <<preserved, cache, thread, todo, owed, screened>> /\ lock' = "free"
        /\ tried' = FALSE /\ rest' = Empty /\ goal' = Empty
    BY <1>3 DEF Raised, Released
  <2> QED
    BY <1>1, <1>2, <1>3, <2>1 DEF Base, Work
<1>4. CASE lock = "thread" /\ thread = "boot"
  BY <1>4 DEF Raised, ProcessEnds, Released, Phases
<1>5. CASE lock = "thread" /\ thread # "boot"
  <2>1. /\ Observed(TRUE) /\ UNCHANGED <<preserved, cache>> /\ lock' = "free"
        /\ tried' = FALSE /\ rest' = Empty /\ goal' = Empty
    BY <1>5 DEF Raised, Released
  <2>2. todo' \subseteq Done /\ owed' \subseteq Done /\ screened' = NotScreened /\ thread' = thread
    BY <1>1, <1>5, <2>1, ObservedWork
  <2> QED
    BY <1>1, <1>2, <2>1, <2>2
<1> QED
  BY <1>1, <1>3, <1>4, <1>5

\* The process ends with a store in step, as long as the next start loads what
\* the journal has: if it finds another kind of store than the process did,
\* there is nothing in it.
LEMMA EndedInStep ==
  ASSUME Disk, UNCHANGED <<evidence, late, stored, files, marker, doc>>,
         thread # "down", thread' = "down", lock' = "free", goal' = Empty, cache' = Empty,
         doc \in States, journal' \in States, Within(doc, journal'),
         files # "manifest" => journal' = Empty,
         ValidIn(LoadedIn(doc, journal', JournalAlone), evidence),
         CalmIn(LoadedIn(doc, journal', JournalAlone), evidence, late),
         ~Behind(journal', LoadedIn(doc, journal', JournalAlone'))
  PROVE  InStep'
<1> DEFINE j == journal'
           n == JournalAlone'
           o == LoadedIn(doc, j, JournalAlone)
           q == LoadedIn(doc, j, n)
<1>1. JournalAlone = preserved /\ n = PreservedAtStart
  BY DEF JournalAlone, PreservedAtStart
<1>2. /\ q \in States /\ Within(q, j) /\ q.trans = j.trans
      /\ ~n => /\ q.cands = doc.cands \cup {c \in j.cands : c.id \in Ids(doc.cands)}
               /\ q.rcpts = doc.rcpts \cup {c \in j.rcpts : c.id \in Ids(doc.rcpts)}
  <2> HIDE DEF j, n
  <2>1. j \in States /\ Within(doc, j)
    BY DEF j
  <2> QED
    BY <2>1, LoadedParts
<1>3. Agree(q, j)
  <2>1. j \in States /\ ~Behind(j, q)
    OBVIOUS
  <2> HIDE DEF j, q
  <2>2. /\ Minus(j, q).cands = j.cands \ q.cands /\ Minus(j, q).trans = j.trans \ q.trans
        /\ Minus(j, q).rcpts = j.rcpts \ q.rcpts
    BY <1>2, <2>1, Parts
  <2> QED
    BY <1>2, <2>1, <2>2 DEF Behind, Within, Agree
<1>4. /\ Empty \in States /\ Empty.results = {} /\ Empty.cands = {} /\ Empty.trans = {}
      /\ Empty.rcpts = {}
  BY Parts
<1>5. ValidIn(Empty, evidence) /\ CalmIn(Empty, evidence, late)
  BY EmptyIsSound
<1>6. ValidIn(q, evidence) /\ CalmIn(q, evidence, late)
  <2>1. CASE JournalAlone <=> n
    <3>1. o = q
      BY <2>1 DEF LoadedIn
    <3>2. ValidIn(o, evidence) /\ CalmIn(o, evidence, late)
      OBVIOUS
    <3> HIDE DEF o, q
    <3> QED
      BY <3>1, <3>2
  <2>2. CASE JournalAlone /\ ~n
    <3>1. doc = Empty
      BY <1>1, <2>2 DEF Disk
    <3>2. o = j /\ ValidIn(o, evidence)
      BY <2>2 DEF LoadedIn
    <3> HIDE DEF o, q, j, n
    <3>3. Ids(Empty.cands) = {} /\ Ids(Empty.rcpts) = {}
      BY <1>4 DEF Ids
    <3>4. q.cands = {} /\ q.rcpts = {}
      BY <1>2, <1>4, <2>2, <3>1, <3>3
    <3>5. j.cands = {} /\ Ids(j.trans) \subseteq Ids(j.cands)
      BY <1>3, <3>2, <3>4 DEF Agree, ValidIn
    <3>6. q.trans = {}
      BY <1>2, <3>5 DEF Ids
    <3>7. Agree(q, Empty) /\ Empty.results \subseteq q.results
      BY <1>4, <3>4, <3>6 DEF Agree
    <3> QED
      BY <1>2, <1>4, <1>5, <3>7, NearIsSound
  <2>3. CASE ~JournalAlone /\ n
    <3>1. ~marker /\ files # "manifest"
      BY <1>1, <2>3 DEF Disk, PreservedAtStart
    <3>2. q = j /\ j = Empty
      BY <2>3, <3>1 DEF LoadedIn
    <3> HIDE DEF q, j
    <3> QED
      BY <1>5, <3>2
  <2> QED
    BY <2>1, <2>2, <2>3
<1>7. CalmIn(cache', evidence, late)
  BY <1>5
<1>8. LoadedIn(doc', journal', JournalAlone') = q
  OBVIOUS
<1>9. Agree(q, journal')
  BY <1>3
<1> HIDE DEF q
<1>10. UNCHANGED <<evidence, late>>
  OBVIOUS
<1> QED
  BY <1>6, <1>7, <1>8, <1>9, <1>10, LetGoInStep

\* The journal with the next record.
LEMMA LongerJournal ==
  ASSUME Base, lock # "free"
  PROVE  LET i == Plus(journal, NextIn(rest))
             m == Minus(rest, NextIn(rest))
         IN /\ i \in States /\ m \in States /\ Within(journal, i) /\ Past(i, clock)
            /\ Within(m, goal) /\ Within(goal, Plus(i, m))
            /\ ConfirmedIn(i, evidence, period)
            /\ i.results \subseteq Done /\ Ids(i.rcpts) \subseteq Done
<1> DEFINE n == NextIn(rest)
           i == Plus(journal, n)
           m == Minus(rest, n)
           J == Plus(journal, rest)
           I == Plus(i, m)
<1>1. /\ journal \in States /\ rest \in States /\ goal \in States /\ Within(rest, goal)
      /\ Within(goal, J)
  BY Holding
<1>2. n \in States /\ Within(n, rest)
  BY <1>1, NextParts
<1>3. ConfirmedIn(i, evidence, period)
  BY <1>1, AppendConfirmed DEF Base, Confirming, Types
<1> HIDE DEF n
<1>4. /\ i \in States /\ m \in States
      /\ i.results = journal.results \cup n.results /\ i.cands = journal.cands \cup n.cands
      /\ i.trans = journal.trans \cup n.trans /\ i.rcpts = journal.rcpts \cup n.rcpts
      /\ m.results = rest.results \ n.results /\ m.cands = rest.cands \ n.cands
      /\ m.trans = rest.trans \ n.trans /\ m.rcpts = rest.rcpts \ n.rcpts
  BY <1>1, <1>2, Parts
<1>5. /\ J.results = journal.results \cup rest.results /\ J.cands = journal.cands \cup rest.cands
      /\ J.trans = journal.trans \cup rest.trans /\ J.rcpts = journal.rcpts \cup rest.rcpts
  BY <1>1, Parts
<1> HIDE DEF i, m, J
<1>6. /\ I.results = i.results \cup m.results /\ I.cands = i.cands \cup m.cands
      /\ I.trans = i.trans \cup m.trans /\ I.rcpts = i.rcpts \cup m.rcpts
  BY <1>4, Parts
<1> HIDE DEF I
<1>7. Within(n, goal)
  BY <1>1, <1>2 DEF Within
<1>8. Within(journal, i) /\ Within(m, goal)
  BY <1>1, <1>4 DEF Within
<1>9. Within(goal, I)
  BY <1>1, <1>2, <1>4, <1>5, <1>6 DEF Within
<1>10. Past(i, clock)
  BY <1>4, <1>7 DEF Past, Within, Base, Types
<1>11. i.results \subseteq Done /\ Ids(i.rcpts) \subseteq Done
  BY <1>4, <1>7 DEF Within, Base, Work, Ids
<1> QED
  BY <1>3, <1>4, <1>8, <1>9, <1>10, <1>11, Zenon DEF i, m, n, I

\* The marker is touched, or is not.
LEMMA TouchHolds ==
  ASSUME Inv, Touch
  PROVE  Inv'
<1>1. /\ UNCHANGED <<clock, evidence, period, stored, doc, journal, preserved, cache, thread,
                     todo, owed, screened, lock, rest, goal, orphaned, late>>
      /\ lock # "free" /\ preserved
      /\ \/ marker' = TRUE /\ files' = (IF files = "empty" THEN "some" ELSE files) /\ tried' = tried
         \/ marker' = marker /\ files' = files /\ tried' = TRUE
  BY DEF Touch, Touchable, hist
<1>2. Base /\ Disk /\ Types /\ Work /\ Unused
  BY DEF Inv, Base
<1>3. thread # "down"
  BY <1>1, <1>2 DEF Work
<1>4. Disk'
  BY <1>1, <1>2, <1>3 DEF Disk, FileKinds
<1>5. JournalAlone' = JournalAlone
  BY <1>1, <1>3 DEF JournalAlone
<1>6. /\ todo' \subseteq Done /\ owed' \subseteq Done
      /\ screened' \in [id: Done, at: 0..clock'] \cup {NotScreened}
      /\ lock = "thread" => screened' # NotScreened
      /\ thread' \in Phases /\ (thread' = "down" <=> thread = "down")
      /\ clock' \in {clock, clock + 1}
  BY <1>1, <1>2 DEF Types, Work, Phases
<1>7. UNCHANGED <<evidence, period, doc, journal, cache, lock, rest, goal, orphaned, late>>
  BY <1>1
<1>8. Unused' /\ (thread = "down" => screened' = NotScreened)
  BY <1>1, <1>2, <1>3 DEF Unused
<1> QED
  BY <1>4, <1>5, <1>6, <1>7, <1>8, QuietStep

\* The document or a file of the journal is prepared.
LEMMA PrepareHolds ==
  ASSUME Inv, Prepare
  PROVE  Inv'
<1>1. /\ UNCHANGED <<clock, evidence, period, marker, doc, journal, preserved, cache, thread,
                     todo, owed, screened, lock, rest, goal, orphaned, late>>
      /\ lock # "free" /\ files # "manifest" /\ NextFile /\ tried' \in BOOLEAN
  BY DEF Prepare, hist, bounds
<1>2. Base /\ Disk /\ Types /\ Work /\ Unused
  BY DEF Inv, Base
<1>3. thread # "down"
  BY <1>1, <1>2 DEF Work
<1>4. stored' = TRUE /\ files' \in FileKinds
  BY <1>1, <1>2 DEF NextFile, Disk, FileKinds
<1>5. Disk'
  BY <1>1, <1>2, <1>3, <1>4 DEF Disk
<1>6. JournalAlone' = JournalAlone
  BY <1>1, <1>3 DEF JournalAlone
<1>7. /\ todo' \subseteq Done /\ owed' \subseteq Done
      /\ screened' \in [id: Done, at: 0..clock'] \cup {NotScreened}
      /\ lock = "thread" => screened' # NotScreened
      /\ thread' \in Phases /\ (thread' = "down" <=> thread = "down")
      /\ clock' \in {clock, clock + 1}
  BY <1>1, <1>2 DEF Types, Work, Phases
<1>8. UNCHANGED <<evidence, period, doc, journal, cache, lock, rest, goal, orphaned, late>>
  BY <1>1
<1>9. Unused' /\ (thread = "down" => screened' = NotScreened)
  BY <1>1, <1>2, <1>3 DEF Unused
<1> QED
  BY <1>5, <1>6, <1>7, <1>8, <1>9, QuietStep

\* One of them cannot be written: nothing has been recorded yet, whatever kind
\* of store the next start finds.
LEMMA PrepareFailsHolds ==
  ASSUME Inv, PrepareFails
  PROVE  Inv'
<1>1. /\ UNCHANGED <<clock, evidence, period, marker, doc, journal, orphaned, late>>
      /\ lock # "free" /\ files # "manifest" /\ Raised
      /\ \/ UNCHANGED <<stored, files>>
         \/ NextFile
         \/ files' = "empty" /\ UNCHANGED stored
  BY DEF PrepareFails, hist
<1>2. Base /\ Disk /\ Types /\ Work /\ Appended /\ Validated /\ Confirming
  BY DEF Inv, Base
<1>3. /\ lock' = "free" /\ rest' = Empty /\ goal' = Empty /\ thread' \in Phases
      /\ tried' \in BOOLEAN /\ preserved' \in BOOLEAN
      /\ todo' \subseteq Done /\ owed' \subseteq Done
      /\ \/ screened' = NotScreened
         \/ screened' = screened /\ lock # "thread"
      /\ thread' = "down" => cache' = Empty /\ screened' = NotScreened
      /\ thread' # "down" => cache' = cache /\ preserved' = preserved
  BY <1>1, <1>2, RaisedParts
<1>4. thread # "down" /\ doc = Empty /\ journal = Empty /\ cache = Empty /\ cache' = Empty
  <2>1. doc = Empty /\ journal = Empty
    BY <1>1, <1>2 DEF Disk
  <2>2. cache \in States /\ Within(cache, Empty) /\ thread # "down"
    BY <1>1, <1>2, <2>1 DEF Types, Appended, Work
  <2>3. cache = Empty
    BY <2>2, WithinEmpty
  <2> QED
    BY <1>3, <2>1, <2>2, <2>3
<1>5. stored' \in BOOLEAN /\ files' \in FileKinds
  BY <1>1, <1>2 DEF NextFile, Disk, FileKinds
<1>6. Disk'
  BY <1>1, <1>2, <1>3, <1>4, <1>5 DEF Disk
<1>7. /\ Empty \in States /\ ValidIn(Empty, evidence) /\ CalmIn(Empty, evidence, late)
      /\ ConfirmedIn(Empty, evidence, period) /\ Past(Empty, clock)
      /\ Within(Empty, Empty) /\ Agree(Empty, Empty)
      /\ Empty.trans = {} /\ Empty.results = {} /\ Ids(Empty.rcpts) = {}
  <2>1. Empty \in States /\ Empty.results = {} /\ Empty.trans = {} /\ Empty.rcpts = {}
    BY Parts
  <2>2. Ids(Empty.rcpts) = {}
    BY <2>1 DEF Ids
  <2> QED
    BY <2>1, <2>2, EmptyIsSound DEF Within, Agree
<1>8. Base'
  <2>1. doc' = Empty /\ journal' = Empty /\ cache' = Empty /\ UNCHANGED <<clock, evidence, period>>
    BY <1>1, <1>4
  <2> QED
    BY <1>2, <1>3, <1>7, <2>1, LetGo
<1>9. InStep'
  <2>1. LoadedIn(doc', journal', JournalAlone') = Empty
    BY <1>1, <1>4, NothingLoaded
  <2>2. UNCHANGED <<evidence, late>> /\ journal' = Empty
    BY <1>1, <1>4
  <2> QED
    BY <1>3, <1>4, <1>7, <2>1, <2>2, LetGoInStep
<1> QED
  BY <1>6, <1>8, <1>9 DEF Inv

\* With the next record in the journal, what would be loaded is still on the way
\* from the cache to the goal, and sound.
LEMMA AppendedInStep ==
  ASSUME Base, lock # "free", InStep
  PROVE  LET i == Plus(journal, NextIn(rest))
             q == LoadedIn(doc, i, JournalAlone)
         IN /\ Stage(i, Minus(rest, NextIn(rest)), cache, goal, lock)
            /\ Between(q, cache, goal) /\ Known(doc, JournalAlone, q, cache)
            /\ ValidIn(q, evidence) /\ CalmIn(q, evidence, late)
<1> DEFINE i == Plus(journal, NextIn(rest))
           m == Minus(rest, NextIn(rest))
           q == LoadedIn(doc, i, JournalAlone)
<1>1. /\ doc \in States /\ journal \in States /\ cache \in States /\ rest \in States
      /\ goal \in States
      /\ Within(doc, journal) /\ Within(cache, journal) /\ Within(cache, goal)
      /\ Within(rest, goal) /\ Within(goal, Plus(journal, rest))
  BY Holding
<1>2. OnePerId(goal.cands) /\ OnePerId(goal.rcpts)
  BY DEF Base, Validated, ValidIn
<1>3. /\ Stage(journal, rest, cache, goal, lock)
      /\ Between(LoadedIn(doc, journal, JournalAlone), cache, goal)
      /\ Known(doc, JournalAlone, LoadedIn(doc, journal, JournalAlone), cache)
  BY DEF InStep
<1>4. /\ i \in States /\ Within(journal, i)
      /\ Stage(i, m, cache, goal, lock)
      /\ Between(q, cache, goal) /\ Known(doc, JournalAlone, q, cache)
  BY <1>1, <1>2, <1>3, AppendStep, Zenon
<1> HIDE DEF i, m
<1>5. q \in States
  <2>1. Within(doc, i)
    BY <1>1, <1>4 DEF Within
  <2> QED
    BY <1>1, <1>4, <2>1, LoadedParts
<1> HIDE DEF q
<1>6. ValidIn(q, evidence) /\ CalmIn(q, evidence, late)
  <2> DEFINE e == evidence
             l == late
             c == cache
             g == goal
  <2>1. /\ ValidIn(c, e) /\ CalmIn(c, e, l) /\ ValidIn(g, e) /\ CalmIn(g, e, l)
        /\ Within(c, g) /\ c \in States /\ g \in States /\ q \in States /\ Between(q, c, g)
    BY <1>1, <1>4, <1>5 DEF Base, Validated, InStep
  <2> HIDE DEF e, l, c, g
  <2>2. ValidIn(q, e) /\ CalmIn(q, e, l)
    BY <2>1, BetweenIsSound
  <2> QED
    BY <2>2 DEF e, l
<1> QED
  BY <1>4, <1>6, Zenon DEF i, m, q

\* An append.
LEMMA AppendHolds ==
  ASSUME Inv, Append
  PROVE  Inv'
<1> DEFINE i == Plus(journal, NextIn(rest))
           m == Minus(rest, NextIn(rest))
<1>1. /\ rest # Empty /\ journal' = i /\ rest' = m /\ lock # "free" /\ files = "manifest"
      /\ UNCHANGED <<clock, evidence, period, stored, files, marker, doc, preserved, cache,
                     thread, todo, owed, screened, lock, tried, goal, orphaned, late>>
  <2>1. NextRecord = NextIn(rest)
    BY DEF NextRecord, NextIn
  <2> QED
    BY <2>1 DEF Append, Ready, prepared, hist
<1>2. Base /\ Disk
  BY DEF Inv
<1>3. /\ i \in States /\ m \in States /\ Within(journal, i) /\ Past(i, clock)
      /\ Within(m, goal) /\ Within(goal, Plus(i, m))
      /\ ConfirmedIn(i, evidence, period)
      /\ i.results \subseteq Done /\ Ids(i.rcpts) \subseteq Done
  BY <1>1, <1>2, LongerJournal, Zenon
<1> DEFINE q == LoadedIn(doc, i, JournalAlone)
<1>4. InStep => /\ Stage(i, m, cache, goal, lock)
                /\ Between(q, cache, goal) /\ Known(doc, JournalAlone, q, cache)
                /\ ValidIn(q, evidence) /\ CalmIn(q, evidence, late)
  BY <1>1, <1>2, AppendedInStep, Zenon
<1> HIDE DEF i, m
<1>5. Done' = Done
  BY <1>1 DEF Done
<1>6. Types' /\ Work' /\ Unused'
  <2>1. Types'
    BY <1>1, <1>2, <1>3 DEF Base, Types
  <2>2. Work'
    BY <1>1, <1>2, <1>3, <1>5 DEF Base, Work
  <2>3. Unused'
    BY <1>1, <1>2 DEF Base, Unused
  <2> QED
    BY <2>1, <2>2, <2>3
<1>7. Appended' /\ Validated' /\ Confirming'
  <2>1. Within(doc, i) /\ Within(cache, i)
    BY <1>2, <1>3 DEF Base, Appended, Within
  <2>2. Appended'
    BY <1>1, <1>2, <1>3, <2>1 DEF Base, Appended
  <2>3. Validated' /\ Confirming'
    BY <1>1, <1>2, <1>3 DEF Base, Validated, Confirming
  <2> QED
    BY <2>2, <2>3
<1>8. thread # "down"
  BY <1>1, <1>2 DEF Base, Work
<1>9. Disk' /\ JournalAlone' = JournalAlone
  <2>1. preserved' \in BOOLEAN /\ tried' \in BOOLEAN
    BY <1>1, <1>2 DEF Disk
  <2>2. Disk'
    BY <1>1, <1>2, <1>8, <2>1, DiskWritten
  <2>3. JournalAlone' = JournalAlone
    BY <1>1, <1>8 DEF JournalAlone
  <2> QED
    BY <2>2, <2>3
<1>10. ASSUME InStep PROVE InStep'
  <2>1. LoadedIn(doc', journal', JournalAlone') = q
    BY <1>1, <1>9
  <2>2. Within(cache, q)
    BY <1>4, <1>10 DEF Between
  <2>3. CalmIn(cache, evidence, late) /\ CalmIn(goal, evidence, late)
    BY <1>10 DEF InStep
  <2> HIDE DEF q
  <2> QED
    BY <1>1, <1>4, <1>9, <1>10, <2>1, <2>2, <2>3 DEF InStep
<1> QED
  BY <1>1, <1>6, <1>7, <1>9, <1>10 DEF Inv, Base

\* What would be loaded is in step when it has what the journal has and a sound
\* state (c), with results of its own at most, has that as well.
LEMMA LoadedNear ==
  ASSUME NEW d \in States, NEW j \in States, NEW c \in States, NEW p, NEW e, NEW l,
         Within(d, j), Within(c, LoadedIn(d, j, p)), Agree(c, j), ValidIn(c, e), CalmIn(c, e, l)
  PROVE  /\ ValidIn(LoadedIn(d, j, p), e) /\ CalmIn(LoadedIn(d, j, p), e, l)
         /\ Agree(LoadedIn(d, j, p), j)
<1> DEFINE q == LoadedIn(d, j, p)
<1>1. q \in States /\ Within(q, j)
  BY LoadedParts
<1> HIDE DEF q
<1>2. Agree(q, c) /\ Agree(q, j) /\ c.results \subseteq q.results
  BY <1>1 DEF Within, Agree, q
<1>3. ValidIn(q, e) /\ CalmIn(q, e, l)
  BY <1>1, <1>2, NearIsSound
<1> QED
  BY <1>2, <1>3 DEF q

\* An append fails, with its record in the journal or without.
LEMMA AppendFailsHolds ==
  ASSUME Inv, AppendFails
  PROVE  Inv'
<1> DEFINE i == Plus(journal, NextIn(rest))
<1>1. /\ rest # Empty /\ journal' \in {journal, i} /\ Raised /\ lock # "free"
      /\ files = "manifest"
      /\ UNCHANGED <<clock, evidence, period, stored, files, marker, doc, late>>
      /\ orphaned' = (orphaned \/ Behind(journal', IF thread' = "down"
                        THEN LoadedIn(doc', journal', JournalAlone') ELSE cache))
  <2>1. NextRecord = NextIn(rest)
    BY DEF NextRecord, NextIn
  <2>2. Loaded' = LoadedIn(doc', journal', JournalAlone')
    BY DEF Loaded, LoadedIn
  <2> QED
    BY <2>1, <2>2 DEF AppendFails, Ready, prepared
<1>2. Base /\ Disk
  BY DEF Inv
<1>3. /\ lock' = "free" /\ rest' = Empty /\ goal' = Empty /\ thread' \in Phases
      /\ tried' \in BOOLEAN /\ preserved' \in BOOLEAN
      /\ todo' \subseteq Done /\ owed' \subseteq Done
      /\ \/ screened' = NotScreened
         \/ screened' = screened /\ lock # "thread"
      /\ thread' = "down" => cache' = Empty /\ screened' = NotScreened
      /\ thread' # "down" => cache' = cache /\ preserved' = preserved
  BY <1>1, <1>2, RaisedParts
<1>4. /\ thread # "down" /\ doc \in States /\ journal \in States /\ cache \in States
      /\ Within(doc, journal) /\ Within(cache, journal)
  BY <1>1, <1>2, Holding
<1>5. /\ journal' \in States /\ Within(journal, journal') /\ Past(journal', clock)
      /\ ConfirmedIn(journal', evidence, period)
      /\ journal'.results \subseteq Done /\ Ids(journal'.rcpts) \subseteq Done
  <2>1. /\ i \in States /\ Within(journal, i) /\ Past(i, clock)
        /\ ConfirmedIn(i, evidence, period)
        /\ i.results \subseteq Done /\ Ids(i.rcpts) \subseteq Done
    BY <1>1, <1>2, LongerJournal, Zenon
  <2>2. /\ Within(journal, journal) /\ Past(journal, clock)
        /\ ConfirmedIn(journal, evidence, period)
        /\ journal.results \subseteq Done /\ Ids(journal.rcpts) \subseteq Done
    BY <1>2 DEF Within, Base, Types, Work, Confirming
  <2> HIDE DEF i
  <2> QED
    BY <1>1, <1>4, <2>1, <2>2
<1>6. InStep => /\ ValidIn(LoadedIn(doc, journal', JournalAlone), evidence)
                /\ CalmIn(LoadedIn(doc, journal', JournalAlone), evidence, late)
  <2>1. InStep => /\ ValidIn(LoadedIn(doc, i, JournalAlone), evidence)
                  /\ CalmIn(LoadedIn(doc, i, JournalAlone), evidence, late)
    BY <1>1, <1>2, AppendedInStep, Zenon
  <2>2. InStep => /\ ValidIn(LoadedIn(doc, journal, JournalAlone), evidence)
                  /\ CalmIn(LoadedIn(doc, journal, JournalAlone), evidence, late)
    BY DEF InStep
  <2> HIDE DEF i
  <2> QED
    BY <1>1, <2>1, <2>2
<1> HIDE DEF i
<1>7. /\ Empty \in States /\ ValidIn(Empty, evidence) /\ CalmIn(Empty, evidence, late)
      /\ ConfirmedIn(Empty, evidence, period) /\ Empty.trans = {} /\ Within(Empty, journal')
  <2>1. Empty \in States /\ Empty.results = {} /\ Empty.cands = {} /\ Empty.trans = {}
        /\ Empty.rcpts = {}
    BY Parts
  <2> QED
    BY <2>1, EmptyIsSound DEF Within
<1>8. Within(doc, journal') /\ Within(cache, journal') /\ cache' \in {cache, Empty}
  BY <1>3, <1>4, <1>5 DEF Within
<1>9. Base'
  <2>1. /\ cache' \in States /\ Within(cache', journal') /\ ValidIn(cache', evidence)
        /\ ConfirmedIn(cache', evidence, period)
        /\ cache'.trans \subseteq cache.trans \cup goal.trans
    BY <1>2, <1>4, <1>7, <1>8 DEF Base, Validated, Confirming
  <2>2. /\ doc' \in States /\ Within(doc', journal') /\ ConfirmedIn(doc', evidence, period)
    BY <1>1, <1>2, <1>4, <1>8 DEF Base, Confirming
  <2>3. UNCHANGED <<clock, evidence, period>>
    BY <1>1
  <2> QED
    BY <1>2, <1>3, <1>5, <2>1, <2>2, <2>3, LetGo
<1>10. Disk'
  BY <1>1, <1>2, <1>3, <1>4, DiskWritten
<1>11. ASSUME InStep, ~orphaned', thread' = "down" PROVE InStep'
  <2>1. ~Behind(journal', LoadedIn(doc, journal', JournalAlone'))
    BY <1>1, <1>11
  <2>2. UNCHANGED <<evidence, late, stored, files, marker, doc>>
    BY <1>1
  <2> QED
    BY <1>1, <1>2, <1>3, <1>4, <1>5, <1>6, <1>8, <1>11, <2>1, <2>2, EndedInStep
<1>12. ASSUME InStep, ~orphaned', thread' # "down" PROVE InStep'
  <2> DEFINE q == LoadedIn(doc, journal', JournalAlone)
  <2>1. LoadedIn(doc', journal', JournalAlone') = q
    <3>1. JournalAlone' = JournalAlone
      BY <1>3, <1>4, <1>12 DEF JournalAlone
    <3> QED
      BY <1>1, <3>1
  <2>2. Agree(cache, journal')
    <3>1. ~Behind(journal', cache)
      BY <1>1, <1>12
    <3>2. /\ Minus(journal', cache).cands = journal'.cands \ cache.cands
          /\ Minus(journal', cache).trans = journal'.trans \ cache.trans
          /\ Minus(journal', cache).rcpts = journal'.rcpts \ cache.rcpts
      BY <1>4, <1>5, Parts
    <3> QED
      BY <1>8, <3>1, <3>2 DEF Behind, Within, Agree
  <2>3. Within(cache, LoadedIn(doc, journal, JournalAlone))
    BY <1>4, <1>12 DEF InStep
  <2>4. Within(cache, q)
    <3>1. Within(LoadedIn(doc, journal, JournalAlone), q)
      BY <1>4, <1>5, LoadedGrows
    <3> QED
      BY <2>3, <3>1 DEF Within
  <2>5. ValidIn(cache, evidence) /\ CalmIn(cache, evidence, late)
    BY <1>2, <1>12 DEF Base, Validated, InStep
  <2>6. ValidIn(q, evidence) /\ CalmIn(q, evidence, late) /\ Agree(q, journal')
    BY <1>4, <1>5, <1>8, <2>2, <2>4, <2>5, LoadedNear
  <2> HIDE DEF q
  <2>7. cache' = cache /\ UNCHANGED <<evidence, late>>
    BY <1>1, <1>3, <1>12
  <2> QED
    BY <1>3, <2>1, <2>2, <2>4, <2>5, <2>6, <2>7, LetGoInStep
<1> QED
  BY <1>1, <1>9, <1>10, <1>11, <1>12 DEF Inv

\* With nothing left to append the goal is in the journal; in step it is all
\* that the journal has.
LEMMA Complete ==
  ASSUME Base, lock # "free", rest = Empty
  PROVE  /\ Within(goal, journal)
         /\ InStep => Agree(goal, journal)
<1> DEFINE J == Plus(journal, rest)
<1>1. /\ journal \in States /\ rest \in States /\ Within(goal, J)
  BY Holding
<1>2. /\ J.results = journal.results /\ J.cands = journal.cands
      /\ J.trans = journal.trans /\ J.rcpts = journal.rcpts
  <2>1. /\ J.results = journal.results \cup rest.results /\ J.cands = journal.cands \cup rest.cands
        /\ J.trans = journal.trans \cup rest.trans /\ J.rcpts = journal.rcpts \cup rest.rcpts
    BY <1>1, Parts
  <2>2. rest.results = {} /\ rest.cands = {} /\ rest.trans = {} /\ rest.rcpts = {}
    BY Parts
  <2> HIDE DEF J
  <2> QED
    BY <2>1, <2>2
<1>3. InStep => Agree(goal, J)
  BY DEF InStep, Stage
<1> HIDE DEF J
<1> QED
  BY <1>1, <1>2, <1>3 DEF Within, Agree

\* The goal becomes the cache, with a document that says no less, or as much of
\* it as load does not look for in the document.
LEMMA SyncedInStep ==
  ASSUME Base, InStep, lock # "free", rest = Empty,
         UNCHANGED <<evidence, journal, late>>, JournalAlone' = JournalAlone,
         doc' \in {doc, goal}, cache' = goal, lock' = "free", goal' = Empty,
         JournalAlone \/ doc' = goal \/ lock = "user"
  PROVE  InStep'
<1>1. /\ doc \in States /\ journal \in States /\ goal \in States /\ thread # "down"
      /\ Within(doc, journal) /\ Within(goal, journal) /\ Agree(goal, journal)
  BY Holding, Complete
<1> DEFINE d == doc'
           q == LoadedIn(d, journal, JournalAlone)
<1>2. LoadedIn(doc', journal', JournalAlone') = q
  OBVIOUS
<1>3. d \in States /\ Within(d, journal) /\ (JournalAlone \/ d = goal \/ (d = doc /\ lock = "user"))
  BY <1>1
<1> HIDE DEF d
<1>4. /\ JournalAlone => q = journal
      /\ ~JournalAlone =>
           /\ q.results = d.results
           /\ q.cands = d.cands \cup {c \in journal.cands : c.id \in Ids(d.cands)}
           /\ q.rcpts = d.rcpts \cup {c \in journal.rcpts : c.id \in Ids(d.rcpts)}
      /\ q.trans = journal.trans
  BY <1>1, <1>3, LoadedParts
<1>5. Within(goal, q)
  <2>1. CASE JournalAlone
    BY <1>1, <1>4, <2>1
  <2>2. CASE ~JournalAlone /\ d = goal
    <3> HIDE DEF q
    <3> QED
      BY <1>1, <1>4, <2>2 DEF Within
  <2>3. CASE ~JournalAlone /\ d = doc /\ lock = "user"
    <3>1. /\ Within(cache, q) /\ Stage(journal, rest, cache, goal, lock)
      BY <1>1, <2>3 DEF InStep
    <3>2. goal.results = cache.results /\ goal.cands = cache.cands /\ goal.rcpts = cache.rcpts
      BY <2>3, <3>1 DEF Stage
    <3> HIDE DEF q
    <3> QED
      BY <1>1, <1>4, <3>1, <3>2 DEF Within
  <2> QED
    BY <1>3, <2>1, <2>2, <2>3
<1>6. ValidIn(goal, evidence) /\ CalmIn(goal, evidence, late)
  BY DEF Base, Validated, InStep
<1>7. ValidIn(q, evidence) /\ CalmIn(q, evidence, late) /\ Agree(q, journal)
  BY <1>1, <1>3, <1>5, <1>6, LoadedNear
<1> HIDE DEF q
<1> QED
  BY <1>1, <1>2, <1>5, <1>6, <1>7, LetGoInStep

\* With the goal or nothing in the cache, and the goal or what was there in the
\* document, the records are of the journal.
LEMMA SyncedBase ==
  ASSUME Base, lock # "free", rest = Empty,
         UNCHANGED <<clock, evidence, period, journal>>,
         doc' \in {doc, goal}, cache' \in {goal, Empty},
         lock' = "free", rest' = Empty, goal' = Empty, thread' \in Phases,
         todo' \subseteq Done, owed' \subseteq Done,
         \/ screened' = NotScreened
         \/ screened' = screened /\ lock # "thread",
         thread' = "down" => cache' = Empty /\ screened' = NotScreened
  PROVE  Base'
<1>1. /\ doc \in States /\ journal \in States /\ goal \in States
      /\ Within(doc, journal) /\ Within(goal, journal)
  BY Holding, Complete
<1>2. /\ Empty \in States /\ ValidIn(Empty, evidence) /\ ConfirmedIn(Empty, evidence, period)
      /\ Empty.trans = {} /\ Within(Empty, journal)
  <2>1. Empty \in States /\ Empty.results = {} /\ Empty.cands = {} /\ Empty.trans = {}
        /\ Empty.rcpts = {}
    BY Parts
  <2> QED
    BY <2>1, EmptyIsSound DEF Within
<1>3. /\ cache' \in States /\ Within(cache', journal') /\ ValidIn(cache', evidence)
      /\ ConfirmedIn(cache', evidence, period)
      /\ cache'.trans \subseteq cache.trans \cup goal.trans
  BY <1>1, <1>2 DEF Base, Validated, Confirming
<1>4. doc' \in States /\ Within(doc', journal') /\ ConfirmedIn(doc', evidence, period)
  BY <1>1 DEF Base, Confirming
<1>5. /\ journal' \in States /\ Past(journal', clock) /\ ConfirmedIn(journal', evidence, period)
      /\ journal'.results \subseteq Done /\ Ids(journal'.rcpts) \subseteq Done
  BY <1>1 DEF Base, Types, Work, Confirming
<1> QED
  BY <1>3, <1>4, <1>5, LetGo

\* The document is replaced, unless it is preserved.
LEMMA SyncHolds ==
  ASSUME Inv, Sync
  PROVE  Inv'
<1>1. /\ lock # "free" /\ files = "manifest" /\ rest = Empty /\ cache' = goal
      /\ doc' = (IF preserved THEN doc ELSE goal)
      /\ lock' = "free" /\ tried' = FALSE /\ rest' = Empty /\ goal' = Empty
      /\ UNCHANGED <<clock, evidence, period, stored, files, marker, journal, preserved, orphaned,
                     late>>
  BY DEF Sync, Ready, Released, prepared, hist
<1>2. Base /\ Disk
  BY DEF Inv
<1>3. /\ thread # "down" /\ thread \in Phases /\ lock \in {"thread", "user"}
      /\ lock = "thread" => screened # NotScreened
  BY <1>1, <1>2, Holding
<1>4. /\ thread' = thread /\ todo' \subseteq Done /\ owed' \subseteq Done
      /\ \/ screened' = NotScreened
         \/ screened' = screened /\ lock # "thread"
  <2>1. CASE lock = "thread"
    <3>1. Observed(FALSE)
      BY <2>1 DEF Sync
    <3> QED
      BY <1>2, <1>3, <2>1, <3>1, ObservedWork
  <2>2. CASE lock = "user"
    BY <1>2, <2>2 DEF Sync, Base, Work
  <2> QED
    BY <1>3, <2>1, <2>2
<1>5. doc' \in {doc, goal} /\ cache' \in {goal, Empty} /\ thread' # "down" /\ thread' \in Phases
  BY <1>1, <1>3, <1>4
<1>6. Base'
  <2>1. UNCHANGED <<clock, evidence, period, journal>>
    BY <1>1
  <2> QED
    BY <1>1, <1>2, <1>4, <1>5, <2>1, SyncedBase
<1>7. Disk'
  <2>1. preserved' \in BOOLEAN /\ tried' \in BOOLEAN /\ (doc' = doc \/ ~preserved)
    BY <1>1, <1>2 DEF Disk
  <2> QED
    BY <1>1, <1>2, <1>3, <2>1, DiskWritten
<1>8. JournalAlone = preserved /\ JournalAlone' = JournalAlone
  BY <1>1, <1>3, <1>4 DEF JournalAlone
<1>9. InStep => InStep'
  <2>1. JournalAlone \/ doc' = goal
    BY <1>1, <1>8
  <2>2. UNCHANGED <<evidence, journal, late>>
    BY <1>1
  <2> QED
    BY <1>1, <1>2, <1>5, <1>8, <2>1, <2>2, SyncedInStep
<1> QED
  BY <1>1, <1>6, <1>7, <1>9 DEF Inv

\* The document is not replaced: what is left behind of an observation counts as
\* such, and a transition is loaded from the journal.
LEMMA SyncFailsHolds ==
  ASSUME Inv, SyncFails
  PROVE  Inv'
<1>1. /\ lock # "free" /\ files = "manifest" /\ rest = Empty /\ doc' = doc
      /\ orphaned' = (orphaned \/ lock = "thread")
      /\ UNCHANGED <<clock, evidence, period, stored, files, marker, journal, late>>
  BY DEF SyncFails, Ready, durable, prepared
<1>2. Base /\ Disk
  BY DEF Inv
<1>3. /\ thread # "down" /\ thread \in Phases /\ lock \in {"thread", "user"}
      /\ lock = "thread" => screened # NotScreened
  BY <1>1, <1>2, Holding
<1>4. /\ lock' = "free" /\ tried' = FALSE /\ rest' = Empty /\ goal' = Empty /\ thread' \in Phases
      /\ preserved' \in BOOLEAN
      /\ todo' \subseteq Done /\ owed' \subseteq Done
      /\ \/ screened' = NotScreened
         \/ screened' = screened /\ lock # "thread"
      /\ thread' = "down" => cache' = Empty /\ screened' = NotScreened
      /\ thread' # "down" => cache' = goal /\ preserved' = preserved
      /\ lock = "user" => thread' # "down"
  <2>1. CASE lock = "thread" /\ thread = "boot"
    BY <2>1 DEF SyncFails, ProcessEnds, Released, Phases
  <2>2. CASE lock = "thread" /\ thread # "boot"
    <3>1. /\ Observed(TRUE) /\ cache' = goal /\ preserved' = preserved
          /\ lock' = "free" /\ tried' = FALSE /\ rest' = Empty /\ goal' = Empty
      BY <2>2 DEF SyncFails, Released
    <3>2. /\ todo' \subseteq Done /\ owed' \subseteq Done /\ screened' = NotScreened
          /\ thread' = thread
      BY <1>2, <1>3, <2>2, <3>1, ObservedWork
    <3> QED
      BY <1>2, <1>3, <2>2, <3>1, <3>2 DEF Disk
  <2>3. CASE lock = "user"
    <3>1. /\ UNCHANGED <<thread, todo, owed, screened, preserved>> /\ cache' = goal
          /\ lock' = "free" /\ tried' = FALSE /\ rest' = Empty /\ goal' = Empty
      BY <2>3 DEF SyncFails, Released
    <3> QED
      BY <1>2, <1>3, <2>3, <3>1 DEF Base, Work, Disk
  <2> QED
    BY <1>3, <2>1, <2>2, <2>3
<1>5. Base'
  <2>1. UNCHANGED <<clock, evidence, period, journal>> /\ doc' \in {doc, goal}
        /\ cache' \in {goal, Empty}
    BY <1>1, <1>4
  <2> QED
    BY <1>1, <1>2, <1>4, <2>1, SyncedBase
<1>6. Disk'
  <2>1. tried' \in BOOLEAN /\ (thread' # "down" => preserved' = preserved)
    BY <1>4
  <2> QED
    BY <1>1, <1>2, <1>3, <1>4, <2>1, DiskWritten
<1>7. ASSUME InStep, ~orphaned' PROVE InStep'
  <2>1. lock = "user" /\ thread' # "down" /\ cache' = goal /\ preserved' = preserved
    BY <1>1, <1>3, <1>4, <1>7
  <2>2. JournalAlone' = JournalAlone
    BY <1>3, <2>1 DEF JournalAlone
  <2>3. UNCHANGED <<evidence, journal, late>> /\ doc' \in {doc, goal}
    BY <1>1
  <2> QED
    BY <1>1, <1>2, <1>4, <1>7, <2>1, <2>2, <2>3, SyncedInStep
<1> QED
  BY <1>1, <1>5, <1>6, <1>7 DEF Inv

\* The process is killed.
LEMMA CrashHolds ==
  ASSUME Inv, Crash
  PROVE  Inv'
<1>1. /\ UNCHANGED <<clock, evidence, period, stored, files, marker, doc, journal, late>>
      /\ thread # "down" /\ thread' = "down" /\ preserved' = FALSE /\ cache' = Empty
      /\ todo' = {} /\ owed' = {} /\ screened' = NotScreened
      /\ lock' = "free" /\ tried' = FALSE /\ rest' = Empty /\ goal' = Empty
      /\ orphaned' = (orphaned \/ Behind(journal, LoadedIn(doc', journal', JournalAlone')))
  <2>1. Loaded' = LoadedIn(doc', journal', JournalAlone')
    BY DEF Loaded, LoadedIn
  <2> QED
    BY <2>1 DEF Crash, ProcessEnds, Released, durable, prepared
<1>2. Base /\ Disk
  BY DEF Inv
<1>3. doc \in States /\ journal \in States /\ Within(doc, journal)
  BY <1>2 DEF Base, Types, Appended
<1>4. /\ Empty \in States /\ ValidIn(Empty, evidence) /\ CalmIn(Empty, evidence, late)
      /\ ConfirmedIn(Empty, evidence, period) /\ Empty.trans = {} /\ Within(Empty, journal)
  <2>1. Empty \in States /\ Empty.results = {} /\ Empty.cands = {} /\ Empty.trans = {}
        /\ Empty.rcpts = {}
    BY Parts
  <2> QED
    BY <2>1, EmptyIsSound DEF Within
<1>5. Base'
  <2>1. /\ cache' \in States /\ Within(cache', journal') /\ ValidIn(cache', evidence)
        /\ ConfirmedIn(cache', evidence, period)
    BY <1>1, <1>4
  <2>2. doc' \in States /\ Within(doc', journal') /\ ConfirmedIn(doc', evidence, period)
    BY <1>1, <1>2, <1>3 DEF Base, Confirming
  <2>3. /\ journal' \in States /\ Past(journal', clock) /\ ConfirmedIn(journal', evidence, period)
        /\ journal'.results \subseteq Done /\ Ids(journal'.rcpts) \subseteq Done
    BY <1>1, <1>2, <1>3 DEF Base, Types, Work, Confirming
  <2>4. todo' \subseteq Done /\ owed' \subseteq Done /\ thread' \in Phases
    BY <1>1 DEF Phases
  <2>5. UNCHANGED <<clock, evidence, period>>
    BY <1>1
  <2> QED
    BY <1>1, <1>2, <2>1, <2>2, <2>3, <2>4, <2>5, LetGo
<1>6. Disk'
  BY <1>1, <1>2 DEF Disk
<1>7. ASSUME InStep, ~orphaned' PROVE InStep'
  <2>1. /\ ValidIn(LoadedIn(doc, journal', JournalAlone), evidence)
        /\ CalmIn(LoadedIn(doc, journal', JournalAlone), evidence, late)
    BY <1>1, <1>7 DEF InStep
  <2>2. ~Behind(journal', LoadedIn(doc, journal', JournalAlone'))
    BY <1>1, <1>7
  <2>3. UNCHANGED <<evidence, late, stored, files, marker, doc>>
    BY <1>1
  <2>4. journal' \in States /\ Within(doc, journal') /\ (files # "manifest" => journal' = Empty)
    BY <1>1, <1>2, <1>3 DEF Disk
  <2> QED
    BY <1>1, <1>2, <1>3, <2>1, <2>2, <2>3, <2>4, EndedInStep
<1> QED
  BY <1>1, <1>5, <1>6, <1>7 DEF Inv

\* Every step keeps the invariant.
LEMMA StepHolds ==
  Inv /\ [Next]_vars => Inv'
<1> SUFFICES ASSUME Inv, [Next]_vars PROVE Inv'
  OBVIOUS
<1>1. CASE Boot
  BY <1>1, BootHolds
<1>2. CASE ThreadStep
  <2>1. CASE Booted \/ Tick \/ TickEnds \/ \E a \in Attempts : AlreadyRecorded(a)
    BY <2>1, ThreadHolds
  <2>2. CASE Record
    BY <2>2, RecordHolds
  <2>3. CASE \E a \in Attempts : Evaluate(a)
    BY <2>3, EvaluateHolds
  <2> QED
    BY <1>2, <2>1, <2>2, <2>3 DEF ThreadStep
<1>3. CASE WriteStep
  BY <1>3, TouchHolds, PrepareHolds, PrepareFailsHolds, AppendHolds, AppendFailsHolds,
     SyncHolds, SyncFailsHolds
     DEF WriteStep
<1>4. CASE \E a \in Attempts, k \in Kinds : AttemptEnds(a, k)
  BY <1>4, AttemptEndsHolds
<1>5. CASE \E c \in cache.cands, to \in Moves : Transition(c, to)
  BY <1>5, TransitionHolds
<1>6. CASE Crash
  BY <1>6, CrashHolds
<1>7. CASE UNCHANGED vars
  <2>1. UNCHANGED <<clock, evidence, period, stored, files, marker, doc, journal, preserved,
                    cache, thread, todo, owed, screened, lock, tried, rest, goal, orphaned, late>>
    BY <1>7 DEF vars
  <2>2. Base => Base'
    <3>1. Done' = Done
      BY <2>1 DEF Done
    <3>2. (Types => Types') /\ (Work => Work') /\ (Unused => Unused')
      BY <2>1, <3>1 DEF Types, Work, Unused
    <3>3. (Appended => Appended') /\ (Validated => Validated') /\ (Confirming => Confirming')
      BY <2>1 DEF Appended, Validated, Confirming
    <3> QED
      BY <3>2, <3>3 DEF Base
  <2>3. Disk' /\ JournalAlone' = JournalAlone
    <3>1. Disk /\ tried' \in BOOLEAN
      BY <2>1 DEF Inv, Disk
    <3> QED
      BY <2>1, <3>1, DiskStays
  <2>4. InStep => InStep'
    BY <2>1, <2>3 DEF InStep
  <2> QED
    BY <2>1, <2>2, <2>3, <2>4 DEF Inv
<1> QED
  BY <1>1, <1>2, <1>3, <1>4, <1>5, <1>6, <1>7 DEF Next

\* The invariant holds in every behaviour.
THEOREM Invariant ==
  Spec => []Inv
<1>1. Init => Inv
  BY InitHolds
<1>2. Inv /\ [Next]_vars => Inv'
  BY StepHolds
<1> QED
  BY <1>1, <1>2, PTL DEF Spec

-----------------------------------------------------------------------------
(* The properties *)

\* TypeOK: every instant that is recorded has been read from the clock.
THEOREM TypeCorrect ==
  Spec => []TypeOK
<1>1. Inv => TypeOK
  <2> SUFFICES ASSUME Inv PROVE TypeOK
    OBVIOUS
  <2>1. Base /\ Types /\ Work /\ Appended /\ Disk
    BY DEF Inv, Base
  <2>2. clock \in Nat
    BY <2>1 DEF Types
  <2>3. ASSUME NEW s \in States, Past(s, clock) PROVE IsState(s)
    <3>1. \A c \in s.cands \cup s.rcpts : c \in Records /\ c.at <= clock
      BY <2>3, Fields DEF Past
    <3>2. \A t \in s.trans : t \in Transitions /\ t.at <= clock
      BY <2>3, Fields DEF Past
    <3>3. s.results \subseteq Attempts
      BY Fields
    <3> QED
      BY <2>2, <3>1, <3>2, <3>3 DEF IsState, Instants, Records, Transitions
  <2>4. Past(journal, clock) /\ Past(goal, clock)
    BY <2>1 DEF Types
  <2>5. Past(doc, clock) /\ Past(cache, clock)
    BY <2>1, <2>4 DEF Appended, Within, Past
  <2>6. Past(rest, clock)
    <3>1. CASE lock = "free"
      BY <2>1, <3>1, EmptyIsSound DEF Work
    <3>2. CASE lock # "free"
      BY <2>1, <2>4, <3>2 DEF Appended, Within, Past
    <3> QED
      BY <3>1, <3>2
  <2>7. IsState(doc) /\ IsState(journal) /\ IsState(cache) /\ IsState(rest) /\ IsState(goal)
    BY <2>1, <2>3, <2>4, <2>5, <2>6 DEF Types
  <2>8. todo \subseteq Attempts /\ owed \subseteq Attempts
    BY <2>1 DEF Work, Done
  <2>9. screened \in [id: Attempts \cup {0}, at: Instants]
    BY <2>1, <2>2 DEF Work, Done, NotScreened, Instants
  <2> QED
    BY <2>1, <2>7, <2>8, <2>9 DEF TypeOK, Types, Evidences, Periods, Disk, FileKinds
<1> QED
  BY <1>1, Invariant, PTL

\* StateLoads: whatever is killed or fails, the next start finds a state that
\* load accepts, unless records were left behind.
THEOREM Loads ==
  Spec => []StateLoads
<1>1. Inv => StateLoads
  BY Reading DEF Inv, InStep, StateLoads
<1> QED
  BY <1>1, Invariant, PTL

\* CandidatesSound: one open candidate at most, cooldowns kept, and none open in
\* spite of later evidence.
THEOREM Sound ==
  Spec => []CandidatesSound
<1>1. Inv => CandidatesSound
  <2> SUFFICES ASSUME Inv, ~orphaned PROVE CandidatesSound
    BY DEF CandidatesSound
  <2> DEFINE q == LoadedIn(doc, journal, JournalAlone)
  <2>1. CalmIn(q, evidence, late)
    BY DEF Inv, InStep
  <2>2. Loaded = q
    BY Reading
  <2> HIDE DEF q
  <2>3. Cardinality(Open(q)) <= 1
    <3>1. CASE Open(q) = {}
      <4>1. Cardinality(Open(q)) = 0
        BY <3>1, FS_EmptySet
      <4> QED
        BY <4>1
    <3>2. CASE Open(q) # {}
      <4>1. PICK c : Open(q) = {c}
        BY <2>1, <3>2 DEF CalmIn
      <4>2. Cardinality(Open(q)) = 1
        BY <4>1, FS_Singleton
      <4> QED
        BY <4>2
    <3> QED
      BY <3>1, <3>2
  <2> QED
    BY <2>1, <2>2, <2>3 DEF CandidatesSound, CalmIn
<1> QED
  BY <1>1, Invariant, PTL

\* ConfirmedByPeriods: a candidate stands on Required periods that matched,
\* whether or not what would be loaded validates.
THEOREM Confirmed ==
  Spec => []ConfirmedByPeriods
<1>1. Inv => ConfirmedByPeriods
  <2> SUFFICES ASSUME Inv PROVE ConfirmedByPeriods
    OBVIOUS
  <2>1. ConfirmedIn(LoadedIn(doc, journal, JournalAlone), evidence, period)
    BY LoadedConfirmed DEF Inv, Base, Types, Appended, Confirming
  <2> QED
    BY <2>1, Reading DEF ConfirmedByPeriods, ConfirmedIn, Matched
<1> QED
  BY <1>1, Invariant, PTL

=============================================================================
