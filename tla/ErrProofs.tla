----------------------------- MODULE ErrProofs -----------------------------
(***************************************************************************)
(* Theorems about the error library: the types of its state; that the      *)
(* intrusive list err_report() maintains under the lock is at all times    *)
(* well linked, acyclic and made of exactly the errors that are set; and   *)
(* that callbacks miss no state of an error, and are out of date only for  *)
(* one that changed while an earlier state of it was being told.           *)
(***************************************************************************)
EXTENDS Err, TLAPS

(* What each kind of actor can be doing; a strengthening of TypeOK. *)
Places ==
    /\ \A r \in Reporters : pc[r] \in {"idle", "unlocked", "call"}
    /\ pc[Main] \in {"init", "booted", "head", "walk", "call", "done"}

(* init() goes through the whole section before anything is reported. *)
InitFirst ==
    /\ pc[Main] # "init" => inits = NErrors
    /\ pc[Main] = "init" => reports = 0

(* Ranks are handed out in increasing order. *)
RankBound == \A e \in Errors : rank[e] <= inits + reports

IInv == TypeOK /\ Places /\ InitFirst /\ RankBound /\ ListLinked

-----------------------------------------------------------------------------
(* Once init() is through, the list is to hold every set, enabled error. *)
LEMMA MembersAfterInit ==
    ASSUME inits = NErrors, flagSet \subseteq Errors
    PROVE  Members = Listed
  BY ErrorsAssumption DEF Members, Listed

(* TAILQ_INSERT_HEAD of a newest error keeps the list well linked. *)
LEMMA InsertHeadLinked ==
    ASSUME TypeOK, ListLinked,
           NEW e \in Errors, e \notin Members,
           InsertHead(e),
           Members' = Members \cup {e},
           NEW n \in Nat, \A x \in Errors : rank[x] < n,
           rank' = [rank EXCEPT ![e] = n]
    PROVE  ListLinked'
  <1>1. /\ first' = e
        /\ next' = [next EXCEPT ![e] = first]
        /\ prev' = [x \in Errors |->
                      IF x = e THEN Null ELSE IF x = first THEN e ELSE prev[x]]
    BY DEF InsertHead
  <1>2. /\ next \in [Errors -> Errors \cup {Null}] /\ prev \in [Errors -> Errors \cup {Null}]
        /\ first \in Errors \cup {Null} /\ rank \in [Errors -> Nat]
    BY DEF TypeOK
  <1>3. Members \subseteq Errors /\ Null \notin Errors
    BY ErrorsAssumption DEF Members, Listed, TypeOK
  <1>4. first' \in Members' /\ prev'[first'] = Null
    BY <1>1, <1>2
  <1>5. ASSUME NEW x \in Members'
        PROVE  /\ prev'[x] = Null => first' = x
               /\ prev'[x] # Null => prev'[x] \in Members' /\ next'[prev'[x]] = x
               /\ next'[x] # Null => /\ next'[x] \in Members'
                                     /\ prev'[next'[x]] = x
                                     /\ rank'[next'[x]] < rank'[x]
    <2>1. CASE x = e
      BY <2>1, <1>1, <1>2, <1>3 DEF ListLinked
    <2>2. CASE x # e
      <3>1. x \in Members
        BY <2>2
      <3>2. prev'[x] # Null /\ prev'[x] \in Members' /\ next'[prev'[x]] = x
        BY <3>1, <2>2, <1>1, <1>2, <1>3 DEF ListLinked
      <3>3. next'[x] = next[x]
        BY <2>2, <1>1, <1>2
      <3>4. ASSUME next[x] # Null
            PROVE  /\ next[x] \in Members'
                   /\ prev'[next[x]] = x
                   /\ rank'[next[x]] < rank'[x]
        <4>1. next[x] \in Members /\ prev[next[x]] = x /\ rank[next[x]] < rank[x]
          BY <3>1, <3>4 DEF ListLinked
        <4>2. next[x] # e /\ next[x] # first
          BY <4>1, <3>1, <1>3 DEF ListLinked
        <4>3. QED
          BY <4>1, <4>2, <2>2, <3>1, <1>1, <1>2, <1>3
      <3>5. QED
        BY <3>2, <3>3, <3>4
    <2>3. QED
      BY <2>1, <2>2
  <1>6. QED
    BY <1>4, <1>5 DEF ListLinked

(* TAILQ_REMOVE of a member keeps the list well linked. *)
LEMMA RemoveLinked ==
    ASSUME TypeOK, ListLinked,
           NEW e \in Members,
           Remove(e),
           Members' = Members \ {e},
           rank' = rank
    PROVE  ListLinked'
  <1>1. /\ first' = IF prev[e] = Null THEN next[e] ELSE first
        /\ next' = [x \in Errors |-> IF x = prev[e] THEN next[e] ELSE next[x]]
        /\ prev' = [x \in Errors |-> IF x = next[e] THEN prev[e] ELSE prev[x]]
    BY DEF Remove
  <1>2. /\ next \in [Errors -> Errors \cup {Null}] /\ prev \in [Errors -> Errors \cup {Null}]
        /\ first \in Errors \cup {Null} /\ rank \in [Errors -> Nat]
    BY DEF TypeOK
  <1>3. Members \subseteq Errors /\ Null \notin Errors
    BY ErrorsAssumption DEF Members, Listed, TypeOK
  <1>4. next[e] # e /\ prev[e] # e
    BY <1>2, <1>3 DEF ListLinked
  <1>5. first' # Null => first' \in Members' /\ prev'[first'] = Null
    <2>1. CASE prev[e] = Null
      BY <2>1, <1>1, <1>2, <1>3, <1>4 DEF ListLinked
    <2>2. CASE prev[e] # Null
      BY <2>2, <1>1, <1>2, <1>3, <1>4 DEF ListLinked
    <2>3. QED
      BY <2>1, <2>2
  <1>6. ASSUME NEW x \in Members'
        PROVE  /\ prev'[x] = Null => first' = x
               /\ prev'[x] # Null => prev'[x] \in Members' /\ next'[prev'[x]] = x
               /\ next'[x] # Null => /\ next'[x] \in Members'
                                     /\ prev'[next'[x]] = x
                                     /\ rank'[next'[x]] < rank'[x]
    <2>1. x \in Members /\ x # e
      BY <1>6
    <2>2. prev'[x] = Null => first' = x
      BY <2>1, <1>1, <1>2, <1>3, <1>4 DEF ListLinked
    <2>3. prev'[x] # Null => prev'[x] \in Members' /\ next'[prev'[x]] = x
      BY <2>1, <1>1, <1>2, <1>3, <1>4 DEF ListLinked
    <2>4. next'[x] # Null => /\ next'[x] \in Members'
                             /\ prev'[next'[x]] = x
                             /\ rank'[next'[x]] < rank'[x]
      BY <2>1, <1>1, <1>2, <1>3, <1>4 DEF ListLinked
    <2>5. QED
      BY <2>2, <2>3, <2>4
  <1>7. QED
    BY <1>5, <1>6 DEF ListLinked

-----------------------------------------------------------------------------
(* Steps that touch no error keep what is said of the list. *)
LEMMA SameList ==
    ASSUME ListLinked, UNCHANGED <<listVars, rank, inits>>
    PROVE  ListLinked'
  BY DEF ListLinked, Members, Listed, listVars

(* Before init() the list is empty and nobody has reported. *)
LEMMA InitIInv == Init => IInv
  <1> SUFFICES ASSUME Init PROVE IInv
    OBVIOUS
  <1> USE ErrorsAssumption, CallbacksAssumption, ReportersAssumption
  <1>1. TypeOK
    <2>1. /\ seen \in [Callbacks -> [Errors -> BOOLEAN \cup {Null}]]
          /\ told \in [Callbacks -> [Errors -> SUBSET BOOLEAN]]
      BY DEF Init
    <2>2. /\ pc \in [Actors -> {"init", "booted", "head", "walk", "idle", "unlocked", "call", "done"}]
          /\ \A a \in Actors : pc[a] \notin {"unlocked", "walk", "call"}
      BY DEF Init
    <2>3. at \in [Actors -> 1..NCallbacks + 1]
      BY DEF Init
    <2>4. inits \in 0..NErrors /\ reports \in 0..MaxReports
      BY DEF Init
    <2>5. /\ flagSet \subseteq Errors
          /\ first \in Errors \cup {Null}
          /\ next \in [Errors -> Errors \cup {Null}]
          /\ prev \in [Errors -> Errors \cup {Null}]
          /\ dispatched \in BOOLEAN
          /\ cur \in [Actors -> Errors \cup {Null}]
          /\ arg \in [Actors -> BOOLEAN]
          /\ live \in [Errors -> BOOLEAN]
          /\ overlap \in [Errors -> BOOLEAN]
          /\ rank \in [Errors -> Nat]
      BY DEF Init
    <2>6. QED
      BY <2>1, <2>2, <2>3, <2>4, <2>5 DEF TypeOK
  <1>2. Places /\ InitFirst /\ RankBound
    BY DEF Init, Places, InitFirst, RankBound, Actors
  <1>3. Members = {}
    BY DEF Init, Members
  <1>4. ListLinked
    BY <1>3 DEF Init, ListLinked
  <1>5. QED
    BY <1>1, <1>2, <1>4 DEF IInv

(* init() puts an error in the list before anyone reports. *)
LEMMA InitErrIInv == IInv /\ InitErr => IInv'
  <1> SUFFICES ASSUME IInv, InitErr PROVE IInv'
    OBVIOUS
  <1> USE ErrorsAssumption, ReportersAssumption
  <1> DEFINE e == Section[inits + 1]
  <1>1. /\ inits \in 0..NErrors /\ inits < NErrors /\ inits' = inits + 1
        /\ reports = 0 /\ reports' = 0
        /\ flagSet' = flagSet /\ flagSet \subseteq Errors
        /\ rank \in [Errors -> Nat]
    BY DEF IInv, TypeOK, InitFirst, InitErr
  <1>2. e \in Errors /\ inits + 1 \in 1..NErrors
    BY <1>1
  <1>3. e \notin Members
    <2>1. SUFFICES ASSUME NEW i \in 1..inits, Section[i] = e PROVE FALSE
      BY DEF Members
    <2>2. i \in 1..NErrors /\ i # inits + 1
      BY <1>1
    <2>3. QED
      BY <2>1, <2>2, <1>2
  <1>4. 1..inits' = 1..inits \cup {inits + 1}
    BY <1>1
  <1>5. CASE EntersAtInit(e)
    <2>1. InsertHead(e) /\ rank' = [rank EXCEPT ![e] = inits + 1]
      BY <1>5 DEF InitErr
    <2>2. Members' = Members \cup {e}
      BY <1>1, <1>2, <1>4, <1>5 DEF Members, Listed, EntersAtInit
    <2>3. inits + 1 \in Nat /\ \A x \in Errors : rank[x] < inits + 1
      BY <1>1 DEF IInv, RankBound
    <2>4. ListLinked'
      BY <1>1, <1>2, <1>3, <2>1, <2>2, <2>3, InsertHeadLinked DEF IInv
    <2>5. RankBound'
      BY <1>1, <2>1 DEF IInv, RankBound
    <2>6. TypeOK'
      BY <1>1, <1>2, <2>1 DEF IInv, TypeOK, InitErr, InsertHead, actorVars
    <2>7. QED
      BY <2>4, <2>5, <2>6 DEF IInv, Places, InitFirst, InitErr, actorVars
  <1>6. CASE ~EntersAtInit(e)
    <2>1. UNCHANGED <<first, next, prev, rank>>
      BY <1>6 DEF InitErr
    <2>2. Members' = Members
      BY <1>1, <1>2, <1>4, <1>6 DEF Members, Listed, EntersAtInit
    <2>3. ListLinked'
      BY <2>1, <2>2 DEF IInv, ListLinked
    <2>4. RankBound'
      BY <1>1, <2>1 DEF IInv, RankBound
    <2>5. TypeOK'
      BY <1>1, <2>1 DEF IInv, TypeOK, InitErr, actorVars
    <2>6. QED
      BY <2>3, <2>4, <2>5 DEF IInv, Places, InitFirst, InitErr, actorVars
  <1>7. QED
    BY <1>5, <1>6

(* The locked part of err_report(). *)
LEMMA ReportIInv ==
    ASSUME IInv, NEW r \in Reporters, NEW e \in Errors, NEW set \in BOOLEAN,
           Report(r, e, set)
    PROVE  IInv'
  <1> USE ErrorsAssumption, ReportersAssumption
  <1> DEFINE n == NErrors + reports + 1
  <1>1. /\ inits = NErrors /\ inits' = inits /\ reports \in Nat /\ reports' = reports + 1
        /\ flagSet \subseteq Errors /\ rank \in [Errors -> Nat]
        /\ e \notin Disabled /\ set # (e \in flagSet)
        /\ Main # r
    BY DEF IInv, TypeOK, InitFirst, Report, Changes
  <1>2. Members = Listed /\ flagSet' \subseteq Errors
    BY <1>1, MembersAfterInit DEF Report
  <1>3. Members' = Listed'
    BY <1>1, <1>2 DEF Members, Listed
  <1>4. n \in Nat /\ \A x \in Errors : rank[x] < n
    BY <1>1 DEF IInv, RankBound
  <1>5. TypeOK'
    <2>1. /\ first' \in Errors \cup {Null}
          /\ next' \in [Errors -> Errors \cup {Null}]
          /\ prev' \in [Errors -> Errors \cup {Null}]
      <3>1. CASE InsertHead(e)
        BY <3>1 DEF InsertHead, IInv, TypeOK
      <3>2. CASE Remove(e)
        BY <3>2 DEF Remove, IInv, TypeOK
      <3>3. QED
        BY <3>1, <3>2 DEF Report
    <2>2. rank' \in [Errors -> Nat]
      BY <1>1 DEF Report
    <2>3. /\ pc' \in [Actors -> {"init", "booted", "head", "walk", "idle", "unlocked", "call", "done"}]
          /\ cur' \in [Actors -> Errors \cup {Null}]
          /\ arg' \in [Actors -> BOOLEAN]
          /\ \A a \in Actors : pc'[a] \in {"unlocked", "walk", "call"} => cur'[a] # Null
      BY DEF Report, IInv, TypeOK, Actors
    <2>4. /\ told' \in [Callbacks -> [Errors -> SUBSET BOOLEAN]]
          /\ live' \in [Errors -> BOOLEAN]
          /\ overlap' \in [Errors -> BOOLEAN]
      <3>1. \A c \in Callbacks : [told[c] EXCEPT ![e] = {}] \in [Errors -> SUBSET BOOLEAN]
        BY DEF IInv, TypeOK
      <3>2. told' \in [Callbacks -> [Errors -> SUBSET BOOLEAN]]
        BY <3>1 DEF Report
      <3>3. (\E a \in Actors : Carries(a, e)) \in BOOLEAN
        OBVIOUS
      <3>4. live' \in [Errors -> BOOLEAN] /\ overlap' \in [Errors -> BOOLEAN]
        BY <3>3 DEF Report, IInv, TypeOK
      <3>5. QED
        BY <3>2, <3>4
    <2>5. QED
      BY <1>1, <1>2, <2>1, <2>2, <2>3, <2>4 DEF Report, IInv, TypeOK
  <1>6. Places' /\ InitFirst' /\ RankBound'
    <2>1. Places'
      BY <1>1 DEF Report, IInv, TypeOK, Places, Actors
    <2>2. pc'[Main] = pc[Main] /\ pc[Main] # "init"
      BY <1>1 DEF Report, IInv, TypeOK, Actors
    <2>3. RankBound'
      BY <1>1 DEF Report, IInv, RankBound
    <2>4. QED
      BY <1>1, <2>1, <2>2, <2>3 DEF InitFirst
  <1>7. ListLinked'
    <2>1. CASE set = TRUE
      <3>1. InsertHead(e) /\ rank' = [rank EXCEPT ![e] = n]
        BY <2>1 DEF Report
      <3>2. e \notin flagSet /\ flagSet' = flagSet \cup {e} /\ e \notin Disabled
        BY <1>1, <2>1 DEF Report
      <3>3. e \notin Members /\ Members' = Members \cup {e}
        BY <1>2, <1>3, <3>2 DEF Listed
      <3>4. QED
        BY <1>4, <3>1, <3>3, InsertHeadLinked DEF IInv
    <2>2. CASE set = FALSE
      <3>1. Remove(e) /\ rank' = rank
        BY <2>2 DEF Report
      <3>2. e \in Members /\ Members' = Members \ {e}
        BY <1>1, <1>2, <1>3, <2>2 DEF Report, Listed
      <3>3. QED
        BY <3>1, <3>2, RemoveLinked DEF IInv
    <2>3. QED
      BY <2>1, <2>2
  <1>8. QED
    BY <1>5, <1>6, <1>7 DEF IInv

(* What follows the unlock, and the walk, only read the list. *)
LEMMA TellingIInv ==
    ASSUME IInv,
           InitReturn \/ CbInit \/ WalkFirst \/ WalkRead \/ WalkNext
             \/ (\E a \in Actors : CallHandler(a))
             \/ (\E r \in Reporters : StartNotify(r) \/ SkipNotify(r) \/ ReportReturn(r))
    PROVE  IInv'
  <1> USE ErrorsAssumption, CallbacksAssumption, ReportersAssumption
           DEF Actors, ghostVars
  <1>1. CASE InitReturn
    <2>1. TypeOK' /\ Places' /\ InitFirst' /\ RankBound'
      BY <1>1 DEF InitReturn, IInv, TypeOK, Places, InitFirst, RankBound, listVars
    <2>2. QED
      BY <1>1, <2>1, SameList DEF InitReturn, IInv
  <1>2. CASE CbInit
    <2>1. TypeOK' /\ Places' /\ InitFirst' /\ RankBound'
      BY <1>2 DEF CbInit, IInv, TypeOK, Places, InitFirst, RankBound, listVars
    <2>2. QED
      BY <1>2, <2>1, SameList DEF CbInit, IInv
  <1>3. CASE WalkFirst
    <2>1. TypeOK' /\ Places' /\ InitFirst' /\ RankBound'
      BY <1>3 DEF WalkFirst, WalkTo, IInv, TypeOK, Places, InitFirst, RankBound, listVars
    <2>2. QED
      BY <1>3, <2>1, SameList DEF WalkFirst, WalkTo, IInv
  <1>4. CASE WalkRead
    <2>1. FlagRead(cur[Main]) \in BOOLEAN
      BY DEF FlagRead
    <2>2. TypeOK' /\ Places' /\ InitFirst' /\ RankBound'
      BY <1>4, <2>1 DEF WalkRead, IInv, TypeOK, Places, InitFirst, RankBound, listVars
    <2>3. QED
      BY <1>4, <2>2, SameList DEF WalkRead, IInv
  <1>5. CASE WalkNext
    <2>1. next[cur[Main]] \in Errors \cup {Null}
      BY <1>5 DEF WalkNext, IInv, TypeOK
    <2>2. TypeOK' /\ Places' /\ InitFirst' /\ RankBound'
      BY <1>5, <2>1 DEF WalkNext, WalkTo, IInv, TypeOK, Places, InitFirst, RankBound, listVars
    <2>3. QED
      BY <1>5, <2>2, SameList DEF WalkNext, WalkTo, IInv
  <1>6. ASSUME NEW a \in Actors, CallHandler(a) PROVE IInv'
    <2>1. at[a] \in Callbacks /\ cur[a] \in Errors /\ arg[a] \in BOOLEAN
      BY <1>6 DEF CallHandler, IInv, TypeOK, Callbacks
    <2>2. /\ seen' \in [Callbacks -> [Errors -> BOOLEAN \cup {Null}]]
          /\ told' \in [Callbacks -> [Errors -> SUBSET BOOLEAN]]
      <3>1. CASE Matches(at[a], cur[a])
        <4>1. /\ seen' = [seen EXCEPT ![at[a]][cur[a]] = arg[a]]
              /\ told' = [told EXCEPT ![at[a]][cur[a]] = @ \cup {arg[a]}]
          BY <1>6, <3>1 DEF CallHandler
        <4>2. seen[at[a]] \in [Errors -> BOOLEAN \cup {Null}]
          BY <2>1 DEF IInv, TypeOK
        <4>3. told[at[a]] \in [Errors -> SUBSET BOOLEAN]
          BY <2>1 DEF IInv, TypeOK
        <4>4. [seen[at[a]] EXCEPT ![cur[a]] = arg[a]] \in [Errors -> BOOLEAN \cup {Null}]
          BY <2>1, <4>2
        <4>5. [told[at[a]] EXCEPT ![cur[a]] = @ \cup {arg[a]}] \in [Errors -> SUBSET BOOLEAN]
          BY <2>1, <4>3
        <4>6. QED
          BY <2>1, <4>1, <4>4, <4>5 DEF IInv, TypeOK
      <3>2. CASE ~Matches(at[a], cur[a])
        BY <1>6, <3>2 DEF CallHandler, IInv, TypeOK
      <3>3. QED
        BY <3>1, <3>2
    <2>3. TypeOK'
      <3>1. at' \in [Actors -> 1..NCallbacks + 1]
        BY <1>6, <2>1 DEF CallHandler, IInv, TypeOK, Callbacks
      <3>2. /\ pc' \in [Actors -> {"init", "booted", "head", "walk", "idle", "unlocked", "call", "done"}]
            /\ \A b \in Actors : pc'[b] \in {"unlocked", "walk", "call"} => cur'[b] # Null
        BY <1>6, <2>1 DEF CallHandler, IInv, TypeOK
      <3>3. QED
        BY <1>6, <2>2, <3>1, <3>2 DEF CallHandler, IInv, TypeOK, listVars
    <2>4. Places' /\ InitFirst' /\ RankBound'
      BY <1>6 DEF CallHandler, IInv, TypeOK, Places, InitFirst, RankBound
    <2>5. QED
      BY <1>6, <2>3, <2>4, SameList DEF CallHandler, IInv
  <1>7. ASSUME NEW r \in Reporters, StartNotify(r) \/ SkipNotify(r) \/ ReportReturn(r)
        PROVE  IInv'
    <2>1. CASE StartNotify(r)
      BY <2>1, SameList DEF StartNotify, IInv, TypeOK, Places, InitFirst, RankBound, listVars
    <2>2. CASE SkipNotify(r)
      BY <2>2, SameList DEF SkipNotify, IInv, TypeOK, Places, InitFirst, RankBound, listVars
    <2>3. CASE ReportReturn(r)
      BY <2>3, SameList DEF ReportReturn, IInv, TypeOK, Places, InitFirst, RankBound, listVars
    <2>4. QED
      BY <1>7, <2>1, <2>2, <2>3
  <1>8. QED
    BY <1>1, <1>2, <1>3, <1>4, <1>5, <1>6, <1>7

(* Every step, and stuttering, preserves the inductive invariant. *)
LEMMA NextIInv == IInv /\ [Next]_vars => IInv'
  <1> SUFFICES ASSUME IInv, [Next]_vars PROVE IInv'
    OBVIOUS
  <1>1. CASE Next
    BY <1>1, InitErrIInv, ReportIInv, TellingIInv
      DEF Next, MainStep, ReporterStep, Actors
  <1>2. CASE UNCHANGED vars
    <2>1. TypeOK' /\ Places' /\ InitFirst' /\ RankBound'
      BY <1>2 DEF vars, listVars, actorVars, ghostVars, IInv, TypeOK, Places, InitFirst,
                  RankBound
    <2>2. QED
      BY <1>2, <2>1, SameList DEF vars, ghostVars, IInv
  <1>3. QED
    BY <1>1, <1>2

(* The inductive invariant holds in every reachable state. *)
THEOREM Invariance == Spec => []IInv
  <1>1. QED
    BY InitIInv, NextIInv, PTL DEF Spec

(* The state of the library, and of every context in it, is well typed:     *)
(* no context that is telling callbacks holds a NULL error.                 *)
THEOREM TypeCorrect == Spec => []TypeOK
  <1>1. IInv => TypeOK
    BY DEF IInv
  <1>2. QED
    BY Invariance, <1>1, PTL

(* Whatever is reported, by however many contexts, the list of errors is    *)
(* well linked, holds exactly the enabled errors that are set, and runs     *)
(* from newer to older ones.                                                *)
THEOREM ListAlwaysLinked == Spec => []ListLinked
  <1>1. IInv => ListLinked
    BY DEF IInv
  <1>2. QED
    BY Invariance, <1>1, PTL

-----------------------------------------------------------------------------
(* What callbacks are told. *)

(* Ranks tell errors apart once they have been in the list, and following   *)
(* next, from an error in the list or from one that was removed, leaves out *)
(* none of the members that are older: what the walk of cb_init() needs     *)
(* while reporters change the list.                                         *)
RankOrder ==
    /\ \A x \in Errors, e \in Members :
         rank[e] < rank[x] => next[x] # Null /\ rank[e] <= rank[next[x]]
    /\ \A e \in Members : rank[e] > 0 /\ first # Null /\ rank[e] <= rank[first]
    /\ \A x, y \in Errors : rank[x] = rank[y] /\ rank[x] > 0 => x = y

State(e) == e \in flagSet

(* A reporter that is still to tell callback c the state of error e. *)
WillTell(r, c, e) ==
    /\ cur[r] = e /\ arg[r] = State(e)
    /\ pc[r] = "unlocked" \/ (pc[r] = "call" /\ at[r] <= c)

(* The walk is still to come to callback c for error e. *)
WillWalk(c, e) ==
    \/ pc[Main] \in {"init", "booted", "head"}
    \/ /\ pc[Main] \in {"walk", "call"}
       /\ rank[e] < rank[cur[Main]] \/ (cur[Main] = e /\ at[Main] <= c)

(* Callbacks are called from cb_init() on, with what passes their filters. *)
Phases ==
    /\ dispatched = (pc[Main] \in {"head", "walk", "call", "done"})
    /\ \A r \in Reporters : pc[r] = "call" => dispatched
    /\ \A e \in Errors : live[e] => dispatched
    /\ \A c \in Callbacks, e \in Errors : seen[c][e] # Null => dispatched /\ Matches(c, e)

(* The state that a reporter has put an error in since cb_init() has been   *)
(* told, or that reporter is about to tell it.                              *)
ToldByReporter ==
    \A e \in Errors, c \in Callbacks :
      live[e] /\ Matches(c, e) =>
        State(e) \in told[c][e] \/ \E r \in Reporters : WillTell(r, c, e)

(* The errors set before cb_init() and not changed since have been told by  *)
(* the walk, or it is still to come to them.                                *)
ToldByWalk ==
    \A e \in Listed : ~live[e] =>
      /\ pc[Main] = "call" /\ cur[Main] = e => arg[Main] = TRUE
      /\ \A c \in Callbacks : Matches(c, e) => TRUE \in told[c][e] \/ WillWalk(c, e)

(* Of an error that was changed while nobody was telling another state of   *)
(* it, everyone tells the state it is in, and callbacks have heard that one *)
(* last or will.                                                            *)
Fresh ==
    \A e \in Errors \ Disabled : ~overlap[e] =>
      /\ \A a \in Actors : cur[a] = e /\ pc[a] \in {"unlocked", "call"} => arg[a] = State(e)
      /\ \A c \in Callbacks : seen[c][e] # Null =>
           seen[c][e] = State(e) \/ \E r \in Reporters : WillTell(r, c, e)

Telling == Phases /\ ToldByReporter /\ ToldByWalk /\ Fresh

(* TAILQ_INSERT_HEAD of a newest error keeps the ranks in order. *)
LEMMA InsertHeadRanks ==
    ASSUME TypeOK, RankOrder,
           NEW e \in Errors, e \notin Members,
           InsertHead(e),
           Members' = Members \cup {e},
           NEW n \in Nat, \A x \in Errors : rank[x] < n,
           rank' = [rank EXCEPT ![e] = n]
    PROVE  RankOrder'
  <1>1. /\ next \in [Errors -> Errors \cup {Null}] /\ first \in Errors \cup {Null}
        /\ rank \in [Errors -> Nat] /\ Members \subseteq Errors
    BY DEF TypeOK, Members, Listed
  <1>2. first' = e /\ e # Null /\ next' = [next EXCEPT ![e] = first]
    BY ErrorsAssumption DEF InsertHead
  <1>3. /\ rank' \in [Errors -> Nat] /\ rank'[e] = n
        /\ \A x \in Errors : x # e => rank'[x] = rank[x] /\ rank'[x] < n
    BY <1>1
  <1>4. \A x \in Errors : rank[x] <= rank'[x]
    BY <1>1, <1>3
  <1>5. ASSUME NEW x \in Errors, NEW m \in Members', rank'[m] < rank'[x]
        PROVE  next'[x] # Null /\ rank'[m] <= rank'[next'[x]]
    <2>1. m # e /\ m \in Members /\ m \in Errors
      BY <1>1, <1>3, <1>5
    <2>2. CASE x = e
      <3>1. first # Null /\ rank[m] <= rank[first]
        BY <2>1 DEF RankOrder
      <3>2. first \in Errors /\ next'[x] = first
        BY <1>1, <1>2, <2>2, <3>1
      <3>3. QED
        BY <1>1, <1>3, <1>4, <2>1, <3>1, <3>2
    <2>3. CASE x # e
      <3>1. rank[m] < rank[x] /\ next'[x] = next[x]
        BY <1>1, <1>2, <1>3, <1>5, <2>1, <2>3
      <3>2. next[x] # Null /\ rank[m] <= rank[next[x]] /\ next[x] \in Errors
        BY <1>1, <2>1, <3>1 DEF RankOrder
      <3>3. QED
        BY <1>1, <1>3, <1>4, <2>1, <3>1, <3>2
    <2>4. QED
      BY <2>2, <2>3
  <1>6. ASSUME NEW m \in Members'
        PROVE  rank'[m] > 0 /\ first' # Null /\ rank'[m] <= rank'[first']
    BY <1>1, <1>2, <1>3 DEF RankOrder
  <1>7. ASSUME NEW x \in Errors, NEW y \in Errors, rank'[x] = rank'[y], rank'[x] > 0
        PROVE  x = y
    BY <1>1, <1>3, <1>7 DEF RankOrder
  <1>8. QED
    BY <1>5, <1>6, <1>7 DEF RankOrder

(* So does TAILQ_REMOVE: the removed error still leads to the older ones.   *)
LEMMA RemoveRanks ==
    ASSUME TypeOK, ListLinked, RankOrder,
           NEW e \in Members,
           Remove(e),
           Members' = Members \ {e},
           rank' = rank
    PROVE  RankOrder'
  <1>1. /\ next \in [Errors -> Errors \cup {Null}] /\ first \in Errors \cup {Null}
        /\ prev \in [Errors -> Errors \cup {Null}]
        /\ rank \in [Errors -> Nat] /\ Members \subseteq Errors /\ Null \notin Errors
    BY ErrorsAssumption DEF TypeOK, Members, Listed
  <1>2. /\ first' = IF prev[e] = Null THEN next[e] ELSE first
        /\ next' = [x \in Errors |-> IF x = prev[e] THEN next[e] ELSE next[x]]
    BY DEF Remove
  <1>3. ASSUME NEW m \in Members', rank[m] <= rank[e]
        PROVE  next[e] # Null /\ rank[m] <= rank[next[e]]
    <2>1. m \in Members /\ m # e /\ m \in Errors /\ e \in Errors
      BY <1>1
    <2>2. rank[m] # rank[e] /\ rank[m] \in Nat /\ rank[e] \in Nat
      BY <1>1, <2>1 DEF RankOrder
    <2>3. rank[m] < rank[e]
      BY <1>3, <2>2
    <2>4. QED
      BY <2>1, <2>3 DEF RankOrder
  <1>4. ASSUME NEW x \in Errors, NEW m \in Members', rank[m] < rank[x]
        PROVE  next'[x] # Null /\ rank[m] <= rank[next'[x]]
    <2>1. m \in Members /\ next[x] # Null /\ rank[m] <= rank[next[x]]
      BY <1>4 DEF RankOrder
    <2>2. CASE x = prev[e]
      <3>1. next[x] = e
        BY <1>1, <2>2 DEF ListLinked
      <3>2. next'[x] = next[e]
        BY <1>2, <2>2
      <3>3. QED
        BY <1>3, <2>1, <3>1, <3>2
    <2>3. CASE x # prev[e]
      BY <1>2, <2>1, <2>3
    <2>4. QED
      BY <2>2, <2>3
  <1>5. ASSUME NEW m \in Members'
        PROVE  rank[m] > 0 /\ first' # Null /\ rank[m] <= rank[first']
    <2>1. m \in Members /\ rank[m] > 0 /\ first # Null /\ rank[m] <= rank[first]
      BY DEF RankOrder
    <2>2. CASE prev[e] = Null
      <3>1. first = e
        BY <2>2 DEF ListLinked
      <3>2. QED
        BY <1>2, <1>3, <2>1, <2>2, <3>1
    <2>3. CASE prev[e] # Null
      BY <1>2, <2>1, <2>3
    <2>4. QED
      BY <2>2, <2>3
  <1>6. QED
    BY <1>4, <1>5 DEF RankOrder

(* Whatever else happens, the ranks stay as they are. *)
LEMMA SameRanks ==
    ASSUME RankOrder, UNCHANGED <<listVars, rank, inits>>
    PROVE  RankOrder'
  <1>1. Members' = Members
    BY DEF Members, Listed, listVars
  <1>2. QED
    BY <1>1 DEF RankOrder, listVars

(* Nobody has told anything at first. *)
LEMMA InitTelling == Init => RankOrder /\ Telling
  <1> SUFFICES ASSUME Init PROVE RankOrder /\ Telling
    OBVIOUS
  <1>1. Members = {} /\ \A x \in Errors : rank[x] = 0
    BY DEF Init, Members
  <1>2. RankOrder
    BY <1>1 DEF RankOrder
  <1>3. pc[Main] = "init" /\ dispatched = FALSE /\ \A r \in Reporters : pc[r] = "idle"
    BY ReportersAssumption DEF Init, Actors
  <1>4. /\ \A e \in Errors : live[e] = FALSE
        /\ \A c \in Callbacks, e \in Errors : seen[c][e] = Null
        /\ \A a \in Actors : cur[a] = Null
    BY DEF Init
  <1>5. Phases
    <2>1. ~(pc[Main] \in {"head", "walk", "call", "done"})
      BY <1>3
    <2>2. (pc[Main] \in {"head", "walk", "call", "done"}) = FALSE
      BY <2>1, SMT
    <2>3. QED
      BY <1>3, <1>4, <2>2, Zenon DEF Phases
  <1>6. ToldByReporter
    BY <1>4 DEF ToldByReporter
  <1>7. ToldByWalk
    BY <1>3 DEF ToldByWalk, WillWalk
  <1>8. Fresh
    BY <1>4, ErrorsAssumption DEF Fresh
  <1>9. QED
    BY <1>2, <1>5, <1>6, <1>7, <1>8 DEF Telling

(* What the main thread does outside err_notify() leaves what has been told *)
(* and what reporters are about to tell as it is.                           *)
LEMMA MainMoves ==
    ASSUME Telling,
           UNCHANGED <<flagSet, seen, told, live, overlap>>,
           \A r \in Reporters :
             pc'[r] = pc[r] /\ cur'[r] = cur[r] /\ arg'[r] = arg[r] /\ at'[r] = at[r],
           dispatched' = (pc'[Main] \in {"head", "walk", "call", "done"}),
           dispatched => dispatched',
           pc'[Main] # "unlocked",
           \A e \in Errors : pc'[Main] = "call" /\ cur'[Main] = e => arg'[Main] = State(e)
    PROVE  Phases' /\ ToldByReporter' /\ Fresh'
  <1>1. \A r \in Reporters, c \in Callbacks, e \in Errors : WillTell(r, c, e)' = WillTell(r, c, e)
    BY DEF WillTell, State
  <1>2. \A e \in Errors : State(e)' = State(e)
    BY DEF State
  <1>3. Phases'
    BY DEF Telling, Phases, Matches
  <1>4. ToldByReporter'
    BY <1>1, <1>2 DEF Telling, ToldByReporter, Matches
  <1>5. Fresh'
    BY <1>1, <1>2 DEF Telling, Fresh, Actors
  <1>6. QED
    BY <1>3, <1>4, <1>5

(* init() goes on while nobody reports. *)
LEMMA InitErrTelling == ASSUME IInv, Telling, InitErr PROVE Telling'
  <1>1. /\ UNCHANGED <<flagSet, seen, told, live, overlap, dispatched, pc, cur, arg, at>>
        /\ pc[Main] = "init"
    BY DEF InitErr, actorVars
  <1>2. Phases' /\ ToldByReporter' /\ Fresh'
    <2>1. dispatched = (pc[Main] \in {"head", "walk", "call", "done"})
      BY DEF Telling, Phases
    <2>2. QED
      BY <1>1, <2>1, MainMoves
  <1>3. ToldByWalk'
    BY <1>1 DEF ToldByWalk, WillWalk
  <1>4. QED
    BY <1>2, <1>3 DEF Telling

(* The main thread up to the walk of cb_init(), and between the callbacks   *)
(* of two errors of it.                                                     *)
LEMMA MainTelling ==
    ASSUME IInv, RankOrder, Telling,
           InitReturn \/ CbInit \/ WalkFirst \/ WalkRead \/ WalkNext
    PROVE  Telling'
  <1> USE ReportersAssumption
  <1>1. /\ Main \in Actors /\ \A r \in Reporters : r # Main /\ r \in Actors
        /\ pc \in [Actors -> {"init", "booted", "head", "walk", "idle", "unlocked", "call", "done"}]
        /\ cur \in [Actors -> Errors \cup {Null}] /\ arg \in [Actors -> BOOLEAN]
        /\ at \in [Actors -> 1..NCallbacks + 1]
        /\ next \in [Errors -> Errors \cup {Null}] /\ rank \in [Errors -> Nat]
        /\ NCallbacks \in Nat
    BY CallbacksAssumption DEF IInv, TypeOK, Actors
  <1>2. dispatched = (pc[Main] \in {"head", "walk", "call", "done"})
    BY DEF Telling, Phases
  <1>3. CASE InitReturn
    <2>1. pc[Main] = "init" /\ pc' = [pc EXCEPT ![Main] = "booted"]
          /\ UNCHANGED <<listVars, dispatched, cur, arg, at, ghostVars>>
      BY <1>3 DEF InitReturn
    <2>2. pc'[Main] = "booted" /\ \A r \in Reporters : pc'[r] = pc[r]
      BY <1>1, <2>1
    <2>3. dispatched' = (pc'[Main] \in {"head", "walk", "call", "done"})
      BY <1>2, <2>1, <2>2
    <2>4. Phases' /\ ToldByReporter' /\ Fresh'
      BY <2>1, <2>2, <2>3, MainMoves DEF listVars, ghostVars
    <2>5. ToldByWalk'
      BY <2>2 DEF ToldByWalk, WillWalk
    <2>6. QED
      BY <2>4, <2>5 DEF Telling
  <1>4. CASE CbInit
    <2>1. pc[Main] = "booted" /\ pc' = [pc EXCEPT ![Main] = "head"] /\ dispatched' = TRUE
          /\ UNCHANGED <<listVars, cur, arg, at, ghostVars>>
      BY <1>4 DEF CbInit
    <2>2. pc'[Main] = "head" /\ \A r \in Reporters : pc'[r] = pc[r]
      BY <1>1, <2>1
    <2>3. dispatched' = (pc'[Main] \in {"head", "walk", "call", "done"})
      BY <2>1, <2>2
    <2>4. Phases' /\ ToldByReporter' /\ Fresh'
      BY <2>1, <2>2, <2>3, MainMoves DEF listVars, ghostVars
    <2>5. ToldByWalk'
      BY <2>2 DEF ToldByWalk, WillWalk
    <2>6. QED
      BY <2>4, <2>5 DEF Telling
  <1>5. CASE WalkFirst \/ WalkNext
    <2> DEFINE e == IF pc[Main] = "head" THEN first ELSE next[cur[Main]]
    <2>1. /\ WalkTo(e) /\ pc[Main] \in {"head", "walk"}
          /\ pc[Main] = "walk" => at[Main] > NCallbacks
      BY <1>5 DEF WalkFirst, WalkNext
    <2>2. e \in Errors \cup {Null}
      <3>1. pc[Main] = "walk" => cur[Main] \in Errors
        BY <1>1 DEF IInv, TypeOK
      <3>2. first \in Errors \cup {Null}
        BY DEF IInv, TypeOK
      <3>3. QED
        BY <1>1, <2>1, <3>1, <3>2
    <2>3. \A m \in Members, c \in Callbacks :
            WillWalk(c, m) => e # Null /\ rank[m] <= rank[e]
      <3>1. SUFFICES ASSUME NEW m \in Members, NEW c \in Callbacks, WillWalk(c, m)
                     PROVE  e # Null /\ rank[m] <= rank[e]
        OBVIOUS
      <3>2. CASE pc[Main] = "head"
        BY <3>2 DEF RankOrder
      <3>3. CASE pc[Main] = "walk"
        <4>1. cur[Main] \in Errors
          BY <1>1, <3>3 DEF IInv, TypeOK
        <4>2. ~(at[Main] <= c)
          BY <1>1, <2>1, <3>3 DEF Callbacks
        <4>3. rank[m] < rank[cur[Main]]
          BY <3>1, <3>3, <4>2 DEF WillWalk
        <4>4. QED
          BY <3>3, <4>1, <4>3 DEF RankOrder
      <3>4. QED
        BY <2>1, <3>2, <3>3
    <2> HIDE DEF e
    <2>4. /\ pc'[Main] = IF e = Null THEN "done" ELSE "walk"
          /\ cur'[Main] = e /\ at'[Main] = 1
          /\ \A r \in Reporters : pc'[r] = pc[r] /\ cur'[r] = cur[r] /\ at'[r] = at[r]
          /\ UNCHANGED <<listVars, dispatched, arg, inits, ghostVars>>
      BY <1>1, <2>1 DEF WalkTo
    <2>5. dispatched' = (pc'[Main] \in {"head", "walk", "call", "done"})
      <3>1. pc[Main] \in {"head", "walk", "call", "done"}
        BY <2>1
      <3>2. pc'[Main] \in {"head", "walk", "call", "done"}
        BY <2>4
      <3>3. QED
        BY <1>2, <2>4, <3>1, <3>2, Zenon
    <2>6. Phases' /\ ToldByReporter' /\ Fresh'
      BY <2>4, <2>5, MainMoves DEF listVars, ghostVars
    <2>7. ToldByWalk'
      <3>1. SUFFICES ASSUME NEW m \in Listed, ~live[m], NEW c \in Callbacks, Matches(c, m)
                     PROVE  TRUE \in told[c][m] \/ WillWalk(c, m)'
        BY <2>4 DEF ToldByWalk, Listed, Matches, listVars, ghostVars
      <3>2. m \in Members /\ m \in Errors
        BY <2>1, MembersAfterInit DEF IInv, InitFirst, TypeOK, Listed
      <3>3. TRUE \in told[c][m] \/ WillWalk(c, m)
        BY <3>1 DEF Telling, ToldByWalk
      <3>4. CASE WillWalk(c, m)
        <4>1. e # Null /\ e \in Errors /\ rank[m] <= rank[e] /\ rank[m] > 0
          BY <2>2, <2>3, <3>2, <3>4 DEF RankOrder
        <4>2. rank[m] < rank[e] \/ e = m
          BY <1>1, <3>2, <4>1 DEF RankOrder
        <4>3. pc'[Main] = "walk" /\ cur'[Main] = e /\ at'[Main] <= c /\ rank' = rank
          BY <1>1, <2>4, <4>1 DEF Callbacks, ghostVars
        <4>4. QED
          BY <4>2, <4>3 DEF WillWalk
      <3>5. QED
        BY <3>3, <3>4
    <2>8. QED
      BY <2>6, <2>7 DEF Telling
  <1>6. CASE WalkRead
    <2>1. /\ pc[Main] = "walk"
          /\ arg' = [arg EXCEPT ![Main] = FlagRead(cur[Main])]
          /\ pc' = [pc EXCEPT ![Main] = "call"]
          /\ UNCHANGED <<listVars, dispatched, cur, at, ghostVars>>
      BY <1>6 DEF WalkRead
    <2>2. /\ pc'[Main] = "call" /\ arg'[Main] = State(cur[Main])
          /\ \A r \in Reporters : pc'[r] = pc[r] /\ arg'[r] = arg[r]
      BY <1>1, <2>1 DEF FlagRead, State
    <2>3. dispatched' = (pc'[Main] \in {"head", "walk", "call", "done"})
      BY <1>2, <2>1, <2>2
    <2>4. Phases' /\ ToldByReporter' /\ Fresh'
      BY <2>1, <2>2, <2>3, MainMoves DEF listVars, ghostVars
    <2>5. ToldByWalk'
      <3>1. SUFFICES ASSUME NEW m \in Listed, ~live[m]
                     PROVE  /\ cur[Main] = m => arg'[Main] = TRUE
                            /\ \A c \in Callbacks : Matches(c, m) =>
                                 TRUE \in told[c][m] \/ WillWalk(c, m)'
        BY <2>1, <2>2 DEF ToldByWalk, Listed, Matches, listVars, ghostVars
      <3>2. cur[Main] = m => arg'[Main] = TRUE
        BY <2>2 DEF State, Listed
      <3>3. ASSUME NEW c \in Callbacks, Matches(c, m)
            PROVE  TRUE \in told[c][m] \/ WillWalk(c, m)'
        <4>1. TRUE \in told[c][m] \/ WillWalk(c, m)
          BY <3>1, <3>3 DEF Telling, ToldByWalk
        <4>2. QED
          BY <2>1, <2>2, <4>1 DEF WillWalk, ghostVars
      <3>4. QED
        BY <3>2, <3>3
    <2>6. QED
      BY <2>4, <2>5 DEF Telling
  <1>7. QED
    BY <1>3, <1>4, <1>5, <1>6

(* err_report() changes an error and will tell its new state, unless        *)
(* cb_init() has not been called and the walk is still to come to it.       *)
LEMMA ReportTelling ==
    ASSUME IInv, Telling, NEW r \in Reporters, NEW e \in Errors, NEW set \in BOOLEAN,
           Report(r, e, set)
    PROVE  Telling'
  <1> USE ReportersAssumption
  <1>1. /\ r # Main /\ Main \in Actors /\ r \in Actors
        /\ \A q \in Reporters : q \in Actors /\ q # Main
        /\ cur \in [Actors -> Errors \cup {Null}] /\ rank \in [Errors -> Nat]
        /\ arg \in [Actors -> BOOLEAN] /\ reports \in Nat /\ NErrors \in Nat
        /\ pc \in [Actors -> {"init", "booted", "head", "walk", "idle", "unlocked", "call", "done"}]
        /\ told \in [Callbacks -> [Errors -> SUBSET BOOLEAN]]
        /\ live \in [Errors -> BOOLEAN] /\ overlap \in [Errors -> BOOLEAN]
    BY ErrorsAssumption DEF IInv, TypeOK, Actors
  <1>2. pc[r] = "idle" /\ pc[Main] # "init" /\ dispatched' = dispatched
        /\ at' = at /\ seen' = seen
    BY DEF Report
  <1>3. /\ pc'[r] = "unlocked" /\ cur'[r] = e /\ arg'[r] = set
        /\ \A b \in Actors \ {r} : pc'[b] = pc[b] /\ cur'[b] = cur[b] /\ arg'[b] = arg[b]
    BY <1>1 DEF Report
  <1>4. State(e)' = set /\ \A x \in Errors \ {e} : State(x)' = State(x)
    <2>1. flagSet' = IF set THEN flagSet \cup {e} ELSE flagSet \ {e}
      BY DEF Report
    <2>2. \A x \in Errors \ {e} : x \in flagSet' <=> x \in flagSet
      BY <2>1, Zenon
    <2>3. \A x \in Errors \ {e} : State(x)' = State(x)
      BY <2>2, SMT DEF State
    <2>4. CASE set = TRUE
      <3>1. e \in flagSet'
        BY <2>1, <2>4
      <3>2. (e \in flagSet') = TRUE
        BY <3>1, SMT
      <3>3. QED
        BY <2>3, <2>4, <3>2, Zenon DEF State
    <2>5. CASE set = FALSE
      <3>1. e \notin flagSet'
        BY <2>1, <2>5
      <3>2. (e \in flagSet') = FALSE
        BY <3>1, SMT
      <3>3. QED
        BY <2>3, <2>5, <3>2, Zenon DEF State
    <2>6. QED
      BY <2>4, <2>5
  <1>5. /\ live'[e] = dispatched /\ \A x \in Errors \ {e} : live'[x] = live[x]
        /\ overlap'[e] = (\E a \in Actors : Carries(a, e))
        /\ \A x \in Errors \ {e} : overlap'[x] = overlap[x]
        /\ \A c \in Callbacks, x \in Errors \ {e} : told'[c][x] = told[c][x]
    <2>1. /\ live'[e] = dispatched /\ \A x \in Errors \ {e} : live'[x] = live[x]
          /\ \A x \in Errors \ {e} : overlap'[x] = overlap[x]
      BY <1>1 DEF Report
    <2>2. overlap'[e] = (\E a \in Actors : Carries(a, e))
      BY <1>1, Zenon DEF Report
    <2>3. \A c \in Callbacks, x \in Errors \ {e} : told'[c][x] = told[c][x]
      BY <1>1 DEF Report
    <2>4. QED
      BY <2>1, <2>2, <2>3
  <1>6. rank' \in [Errors -> Nat] /\ (\A x \in Errors : rank[x] <= rank'[x])
        /\ \A x \in Errors \ {e} : rank'[x] = rank[x]
    <2>1. rank[e] <= NErrors + reports + 1
      BY <1>1 DEF IInv, RankBound, TypeOK
    <2>2. QED
      BY <1>1, <2>1 DEF Report
  <1>7. \A q \in Reporters, c \in Callbacks, x \in Errors \ {e} :
          WillTell(q, c, x) => WillTell(q, c, x)'
    <2>1. \A c \in Callbacks, x \in Errors : ~WillTell(r, c, x)
      BY <1>2 DEF WillTell
    <2>2. QED
      BY <1>1, <1>2, <1>3, <1>4, <2>1 DEF WillTell
  <1>8. \A c \in Callbacks : WillTell(r, c, e)'
    <2>1. pc'[r] = "unlocked" /\ cur'[r] = e /\ arg'[r] = State(e)'
      BY <1>3, <1>4, Zenon
    <2>2. QED
      BY <2>1, Zenon DEF WillTell
  <1>9. Phases'
    <2>1. dispatched' = (pc'[Main] \in {"head", "walk", "call", "done"})
      BY <1>1, <1>2, <1>3, Zenon DEF Telling, Phases
    <2>2. \A q \in Reporters : pc'[q] = "call" => dispatched'
      BY <1>1, <1>2, <1>3 DEF Telling, Phases
    <2>3. \A x \in Errors : live'[x] => dispatched'
      BY <1>2, <1>5 DEF Telling, Phases
    <2>4. QED
      BY <1>2, <2>1, <2>2, <2>3 DEF Telling, Phases, Matches
  <1>10. ToldByReporter'
    <2>1. SUFFICES ASSUME NEW x \in Errors, NEW c \in Callbacks, live'[x], Matches(c, x)
                   PROVE  State(x)' \in told'[c][x] \/ \E q \in Reporters : WillTell(q, c, x)'
      BY DEF ToldByReporter, Matches
    <2>2. CASE x = e
      BY <1>8, <2>2
    <2>3. CASE x # e
      <3>1. live[x] /\ State(x)' = State(x) /\ told'[c][x] = told[c][x]
        BY <1>4, <1>5, <2>1, <2>3
      <3>2. State(x) \in told[c][x] \/ \E q \in Reporters : WillTell(q, c, x)
        BY <2>1, <3>1 DEF Telling, ToldByReporter
      <3>3. QED
        BY <1>7, <2>3, <3>1, <3>2
    <2>4. QED
      BY <2>2, <2>3
  <1>11. ToldByWalk'
    <2>1. SUFFICES ASSUME NEW x \in Listed', ~live'[x]
                   PROVE  /\ pc'[Main] = "call" /\ cur'[Main] = x => arg'[Main] = TRUE
                          /\ \A c \in Callbacks : Matches(c, x) =>
                               TRUE \in told'[c][x] \/ WillWalk(c, x)'
      BY DEF ToldByWalk, Matches
    <2>2. x \in Errors
      BY DEF Listed, Report, IInv, TypeOK
    <2>3. CASE x = e
      <3>1. pc'[Main] = "booted"
        <4>1. ~dispatched
          BY <1>5, <2>1, <2>3
        <4>2. pc[Main] \notin {"head", "walk", "call", "done"}
          BY <4>1, Zenon DEF Telling, Phases
        <4>3. pc[Main] \in {"init", "booted", "head", "walk", "call", "done"}
          BY DEF IInv, Places
        <4>4. QED
          BY <1>1, <1>2, <1>3, <4>2, <4>3
      <3>2. QED
        BY <3>1 DEF WillWalk
    <2>4. CASE x # e
      <3>1. x \in Listed /\ ~live[x]
        BY <1>4, <1>5, <2>1, <2>2, <2>4 DEF Listed, State
      <3>2. pc'[Main] = pc[Main] /\ cur'[Main] = cur[Main] /\ arg'[Main] = arg[Main]
        BY <1>1, <1>3
      <3>3. \A c \in Callbacks : WillWalk(c, x) => WillWalk(c, x)'
        <4>1. pc[Main] \in {"walk", "call"} => cur[Main] \in Errors
          BY <1>1 DEF IInv, TypeOK
        <4>2. rank'[x] = rank[x]
          BY <1>6, <2>2, <2>4
        <4>3. pc[Main] \in {"walk", "call"} /\ rank[x] < rank[cur[Main]] =>
                rank'[x] < rank'[cur[Main]]
          BY <1>1, <1>6, <2>2, <4>1, <4>2
        <4>4. QED
          BY <1>2, <3>2, <4>3 DEF WillWalk
      <3>4. QED
        BY <1>5, <2>2, <2>4, <3>1, <3>2, <3>3 DEF Telling, ToldByWalk
    <2>5. QED
      BY <2>3, <2>4
  <1>12. Fresh'
    <2>1. SUFFICES ASSUME NEW x \in Errors \ Disabled, ~overlap'[x]
                   PROVE  /\ \A a \in Actors : cur'[a] = x /\ pc'[a] \in {"unlocked", "call"}
                                                 => arg'[a] = State(x)'
                          /\ \A c \in Callbacks : seen'[c][x] # Null =>
                               seen'[c][x] = State(x)' \/ \E q \in Reporters : WillTell(q, c, x)'
      BY DEF Fresh
    <2>2. CASE x = e
      <3>1. \A a \in Actors : ~Carries(a, e)
        BY <1>5, <2>1, <2>2
      <3>2. ASSUME NEW a \in Actors, cur'[a] = x, pc'[a] \in {"unlocked", "call"}
            PROVE  arg'[a] = State(x)'
        <4>1. CASE a = r
          BY <1>3, <1>4, <2>2, <4>1, Zenon
        <4>2. CASE a # r
          BY <1>3, <2>2, <3>1, <3>2, <4>2 DEF Carries
        <4>3. QED
          BY <4>1, <4>2
      <3>3. QED
        BY <1>8, <2>2, <3>2
    <2>3. CASE x # e
      <3>1. ~overlap[x] /\ State(x)' = State(x)
        BY <1>4, <1>5, <2>1, <2>3
      <3>2. ASSUME NEW a \in Actors, cur'[a] = x, pc'[a] \in {"unlocked", "call"}
            PROVE  arg'[a] = State(x)'
        <4>1. a # r
          BY <1>3, <2>3, <3>2
        <4>2. cur[a] = x /\ pc[a] \in {"unlocked", "call"} /\ arg'[a] = arg[a]
          BY <1>3, <3>2, <4>1
        <4>3. QED
          BY <3>1, <4>2 DEF Telling, Fresh
      <3>3. ASSUME NEW c \in Callbacks, seen'[c][x] # Null
            PROVE  seen'[c][x] = State(x)' \/ \E q \in Reporters : WillTell(q, c, x)'
        <4>1. seen[c][x] = State(x) \/ \E q \in Reporters : WillTell(q, c, x)
          BY <1>2, <3>1, <3>3 DEF Telling, Fresh
        <4>2. QED
          BY <1>2, <1>7, <2>3, <3>1, <4>1
      <3>4. QED
        BY <3>2, <3>3
    <2>4. QED
      BY <2>2, <2>3
  <1>13. QED
    BY <1>9, <1>10, <1>11, <1>12 DEF Telling

(* The end of err_report(), but for its callbacks. *)
LEMMA ReporterTelling ==
    ASSUME IInv, Telling, NEW r \in Reporters, StartNotify(r) \/ SkipNotify(r) \/ ReportReturn(r)
    PROVE  Telling'
  <1> USE ReportersAssumption
  <1>1. /\ r # Main /\ Main \in Actors /\ r \in Actors
        /\ \A q \in Reporters : q \in Actors /\ q # Main
        /\ at \in [Actors -> 1..NCallbacks + 1] /\ NCallbacks \in Nat
        /\ pc \in [Actors -> {"init", "booted", "head", "walk", "idle", "unlocked", "call", "done"}]
    BY CallbacksAssumption DEF IInv, TypeOK, Actors
  <1>2. UNCHANGED <<flagSet, dispatched, cur, arg, seen, told, live, overlap, rank>>
    BY DEF StartNotify, SkipNotify, ReportReturn, listVars, ghostVars
  <1>3. \A b \in Actors \ {r} : pc'[b] = pc[b] /\ at'[b] = at[b]
    BY <1>1 DEF StartNotify, SkipNotify, ReportReturn
  <1>4. \A e \in Errors : State(e)' = State(e)
    BY <1>2 DEF State
  <1>5. pc'[r] \in {"call", "idle"} /\ (pc'[r] = "call" => dispatched /\ pc[r] = "unlocked")
    BY <1>1 DEF StartNotify, SkipNotify, ReportReturn
  <1>6. \A q \in Reporters, c \in Callbacks, e \in Errors :
          dispatched /\ WillTell(q, c, e) => WillTell(q, c, e)'
    <2>1. SUFFICES ASSUME NEW q \in Reporters, NEW c \in Callbacks, NEW e \in Errors,
                          dispatched, WillTell(q, c, e)
                   PROVE  WillTell(q, c, e)'
      OBVIOUS
    <2>2. CASE q # r
      BY <1>1, <1>2, <1>3, <1>4, <2>1, <2>2 DEF WillTell
    <2>3. CASE q = r
      <3>1. ~SkipNotify(r)
        BY <2>1 DEF SkipNotify
      <3>2. ~ReportReturn(r)
        <4>1. pc[r] = "call" => at[r] <= c
          BY <2>1, <2>3, Zenon DEF WillTell
        <4>2. at[r] \in Nat /\ c \in Nat /\ c <= NCallbacks
          BY <1>1 DEF Callbacks
        <4>3. QED
          BY <1>1, <4>1, <4>2 DEF ReportReturn
      <3>3. pc'[r] = "call" /\ at'[r] = 1
        BY <1>1, <3>1, <3>2 DEF StartNotify
      <3>4. QED
        BY <1>2, <1>4, <2>1, <2>3, <3>3 DEF WillTell, Callbacks
    <2>4. QED
      BY <2>2, <2>3
  <1>7. Phases'
    <2>1. dispatched' = (pc'[Main] \in {"head", "walk", "call", "done"})
      BY <1>1, <1>2, <1>3, Zenon DEF Telling, Phases
    <2>2. \A q \in Reporters : pc'[q] = "call" => dispatched'
      BY <1>1, <1>2, <1>3, <1>5 DEF Telling, Phases
    <2>3. QED
      BY <1>2, <2>1, <2>2 DEF Telling, Phases, Matches
  <1>8. ToldByReporter'
    BY <1>2, <1>4, <1>6 DEF Telling, Phases, ToldByReporter, Matches
  <1>9. ToldByWalk'
    BY <1>1, <1>2, <1>3 DEF Telling, ToldByWalk, WillWalk, Listed, Matches
  <1>10. Fresh'
    <2>1. SUFFICES ASSUME NEW x \in Errors \ Disabled, ~overlap[x]
                   PROVE  /\ \A a \in Actors : cur[a] = x /\ pc'[a] \in {"unlocked", "call"}
                                                 => arg[a] = State(x)
                          /\ \A c \in Callbacks : seen[c][x] # Null =>
                               seen[c][x] = State(x) \/ \E q \in Reporters : WillTell(q, c, x)'
      BY <1>2, <1>4 DEF Fresh
    <2>2. \A a \in Actors : pc'[a] \in {"unlocked", "call"} => pc[a] \in {"unlocked", "call"}
      BY <1>3, <1>5
    <2>3. QED
      BY <1>6, <2>1, <2>2 DEF Telling, Phases, Fresh
  <1>11. QED
    BY <1>7, <1>8, <1>9, <1>10 DEF Telling

(* A callback is called, by a reporter or by the walk. *)
LEMMA CallTelling ==
    ASSUME IInv, Telling, NEW b \in Actors, CallHandler(b)
    PROVE  Telling'
  <1> USE ReportersAssumption
  <1> DEFINE d == at[b]
             y == cur[b]
  <1>1. /\ Main \in Actors /\ \A q \in Reporters : q \in Actors /\ q # Main
        /\ b # Main => b \in Reporters
        /\ at \in [Actors -> 1..NCallbacks + 1] /\ NCallbacks \in Nat
        /\ pc \in [Actors -> {"init", "booted", "head", "walk", "idle", "unlocked", "call", "done"}]
        /\ seen \in [Callbacks -> [Errors -> BOOLEAN \cup {Null}]]
        /\ told \in [Callbacks -> [Errors -> SUBSET BOOLEAN]]
        /\ arg \in [Actors -> BOOLEAN]
    BY CallbacksAssumption DEF IInv, TypeOK, Actors
  <1>2. d \in Callbacks /\ y \in Errors /\ pc[b] = "call" /\ d \in Nat
    BY <1>1 DEF CallHandler, IInv, TypeOK, Callbacks
  <1>3. UNCHANGED <<flagSet, dispatched, cur, arg, live, overlap, rank>>
    BY DEF CallHandler, listVars
  <1>4. /\ at'[b] = d + 1 /\ pc'[b] = IF b = Main THEN "walk" ELSE "call"
        /\ \A a \in Actors \ {b} : pc'[a] = pc[a] /\ at'[a] = at[a]
    BY <1>1 DEF CallHandler
  <1>5. dispatched
    <2>1. CASE b = Main
      BY <1>2, <2>1, Zenon DEF Telling, Phases
    <2>2. CASE b # Main
      BY <1>1, <1>2, <2>2 DEF Telling, Phases
    <2>3. QED
      BY <2>1, <2>2
  <1>6. \A c \in Callbacks, x \in Errors :
          /\ told[c][x] \subseteq told'[c][x]
          /\ c = d /\ x = y /\ Matches(d, y) => arg[b] \in told'[c][x] /\ seen'[c][x] = arg[b]
          /\ ~(c = d /\ x = y /\ Matches(d, y)) => seen'[c][x] = seen[c][x]
    <2>1. CASE Matches(d, y)
      <3>1. /\ seen' = [seen EXCEPT ![d][y] = arg[b]]
            /\ told' = [told EXCEPT ![d][y] = @ \cup {arg[b]}]
        BY <2>1 DEF CallHandler
      <3>2. /\ seen'[d] = [seen[d] EXCEPT ![y] = arg[b]]
            /\ told'[d] = [told[d] EXCEPT ![y] = @ \cup {arg[b]}]
            /\ \A c \in Callbacks \ {d} : seen'[c] = seen[c] /\ told'[c] = told[c]
        BY <1>1, <1>2, <3>1
      <3>3. seen[d] \in [Errors -> BOOLEAN \cup {Null}] /\ told[d] \in [Errors -> SUBSET BOOLEAN]
        BY <1>1, <1>2
      <3>4. /\ seen'[d][y] = arg[b] /\ told'[d][y] = told[d][y] \cup {arg[b]}
            /\ \A x \in Errors \ {y} : seen'[d][x] = seen[d][x] /\ told'[d][x] = told[d][x]
        BY <1>2, <3>2, <3>3
      <3> HIDE DEF d, y
      <3>5. ASSUME NEW c \in Callbacks, NEW x \in Errors
            PROVE  /\ told[c][x] \subseteq told'[c][x]
                   /\ c = d /\ x = y => arg[b] \in told'[c][x] /\ seen'[c][x] = arg[b]
                   /\ ~(c = d /\ x = y) => seen'[c][x] = seen[c][x]
        <4>1. CASE c = d /\ x = y
          BY <3>4, <4>1
        <4>2. CASE c = d /\ x # y
          BY <3>4, <4>2
        <4>3. CASE c # d
          BY <3>2, <4>3
        <4>4. QED
          BY <4>1, <4>2, <4>3
      <3>6. QED
        BY <2>1, <3>5
    <2>2. CASE ~Matches(d, y)
      BY <2>2 DEF CallHandler
    <2>3. QED
      BY <2>1, <2>2
  <1>7. \A e \in Errors : State(e)' = State(e)
    BY <1>3 DEF State
  <1>8. \A q \in Reporters, c \in Callbacks, e \in Errors :
          WillTell(q, c, e) => WillTell(q, c, e)' \/ (q = b /\ c = d /\ e = y /\ arg[b] = State(e))
    <2>1. SUFFICES ASSUME NEW q \in Reporters, NEW c \in Callbacks, NEW e \in Errors,
                          WillTell(q, c, e), ~(q = b /\ c = d /\ e = y /\ arg[b] = State(e))
                   PROVE  WillTell(q, c, e)'
      OBVIOUS
    <2>2. CASE q # b
      BY <1>1, <1>3, <1>4, <1>7, <2>1, <2>2 DEF WillTell
    <2>3. CASE q = b
      <3>1. cur[b] = e /\ arg[b] = State(e) /\ d <= c
        BY <1>2, <2>1, <2>3 DEF WillTell
      <3>2. c \in Nat /\ c # d
        BY <2>1, <2>3, <3>1 DEF Callbacks
      <3>3. d + 1 <= c
        BY <1>2, <3>1, <3>2
      <3>4. pc'[b] = "call"
        BY <1>1, <1>4, <2>3
      <3>5. QED
        BY <1>3, <1>4, <1>7, <2>3, <3>1, <3>3, <3>4 DEF WillTell
    <2>4. QED
      BY <2>2, <2>3
  <1> HIDE DEF d, y
  <1>9. Phases'
    <2>1. dispatched' = (pc'[Main] \in {"head", "walk", "call", "done"})
      <3>1. pc'[Main] = pc[Main] \/ (pc[Main] = "call" /\ pc'[Main] = "walk")
        BY <1>1, <1>2, <1>4
      <3>2. dispatched = (pc[Main] \in {"head", "walk", "call", "done"})
        BY DEF Telling, Phases
      <3>3. pc[Main] \in {"head", "walk", "call", "done"}
        BY <1>5, <3>2, Zenon
      <3>4. pc'[Main] \in {"head", "walk", "call", "done"}
        BY <3>1, <3>3
      <3>5. QED
        BY <1>3, <3>2, <3>3, <3>4, Zenon
    <2>2. \A c \in Callbacks, e \in Errors : seen'[c][e] # Null => Matches(c, e)
      BY <1>6 DEF Telling, Phases
    <2>3. QED
      BY <1>3, <1>5, <2>1, <2>2 DEF Phases, Matches
  <1>10. ToldByReporter'
    <2>1. SUFFICES ASSUME NEW x \in Errors, NEW c \in Callbacks, live[x], Matches(c, x)
                   PROVE  State(x) \in told'[c][x] \/ \E q \in Reporters : WillTell(q, c, x)'
      BY <1>3, <1>7 DEF ToldByReporter, Matches
    <2>2. CASE State(x) \in told[c][x]
      BY <1>6, <2>2
    <2>3. CASE \E q \in Reporters : WillTell(q, c, x)
      BY <1>6, <1>8, <2>1, <2>3
    <2>4. QED
      BY <2>1, <2>2, <2>3 DEF Telling, ToldByReporter
  <1>11. ToldByWalk'
    <2>1. SUFFICES ASSUME NEW x \in Listed, ~live[x]
                   PROVE  /\ pc'[Main] = "call" /\ cur[Main] = x => arg[Main] = TRUE
                          /\ \A c \in Callbacks : Matches(c, x) =>
                               TRUE \in told'[c][x] \/ WillWalk(c, x)'
      BY <1>3 DEF ToldByWalk, Matches, Listed
    <2>2. x \in Errors
      BY DEF Listed, IInv, TypeOK
    <2>3. pc'[Main] = "call" => pc[Main] = "call"
      BY <1>1, <1>2, <1>4
    <2>4. ASSUME NEW c \in Callbacks, Matches(c, x)
          PROVE  TRUE \in told'[c][x] \/ WillWalk(c, x)'
      <3>1. CASE TRUE \in told[c][x]
        BY <1>6, <2>2, <3>1
      <3>2. CASE WillWalk(c, x) /\ b # Main
        <4>1. pc'[Main] = pc[Main] /\ at'[Main] = at[Main]
          BY <1>1, <1>4, <3>2
        <4>2. QED
          BY <1>3, <3>2, <4>1 DEF WillWalk
      <3>3. CASE WillWalk(c, x) /\ b = Main
        <4>1. pc'[Main] = "walk" /\ at'[Main] = d + 1 /\ pc[Main] = "call"
          BY <1>2, <1>4, <3>3
        <4>2. CASE cur[Main] = x /\ c = d
          <5>1. arg[Main] = TRUE /\ y = x
            BY <2>1, <3>3, <4>1, <4>2 DEF Telling, ToldByWalk, y
          <5>2. QED
            BY <1>6, <2>2, <2>4, <3>3, <4>2, <5>1
        <4>3. CASE ~(cur[Main] = x /\ c = d)
          <5>1. rank[x] < rank[cur[Main]] \/ (cur[Main] = x /\ d <= c /\ c # d)
            BY <3>3, <4>1, <4>3 DEF WillWalk, d
          <5>2. cur[Main] = x /\ d <= c /\ c # d => d + 1 <= c
            BY <1>2 DEF Callbacks
          <5>3. QED
            BY <1>3, <4>1, <5>1, <5>2 DEF WillWalk
        <4>4. QED
          BY <4>2, <4>3
      <3>4. QED
        BY <2>1, <2>4, <3>1, <3>2, <3>3 DEF Telling, ToldByWalk
    <2>5. QED
      BY <2>1, <2>3, <2>4 DEF Telling, ToldByWalk
  <1>12. Fresh'
    <2>1. SUFFICES ASSUME NEW x \in Errors \ Disabled, ~overlap[x]
                   PROVE  /\ \A a \in Actors : cur[a] = x /\ pc'[a] \in {"unlocked", "call"}
                                                 => arg[a] = State(x)
                          /\ \A c \in Callbacks : seen'[c][x] # Null =>
                               seen'[c][x] = State(x) \/ \E q \in Reporters : WillTell(q, c, x)'
      BY <1>3, <1>7 DEF Fresh
    <2>2. \A a \in Actors : pc'[a] \in {"unlocked", "call"} => pc[a] \in {"unlocked", "call"}
      BY <1>2, <1>4
    <2>3. ASSUME NEW c \in Callbacks, seen'[c][x] # Null
          PROVE  seen'[c][x] = State(x) \/ \E q \in Reporters : WillTell(q, c, x)'
      <3>1. CASE c = d /\ x = y /\ Matches(d, y)
        <4>1. arg[b] = State(x)
          BY <1>2, <2>1, <3>1 DEF Telling, Fresh, y
        <4>2. QED
          BY <1>6, <3>1, <4>1
      <3>2. CASE ~(c = d /\ x = y /\ Matches(d, y))
        <4>1. seen'[c][x] = seen[c][x]
          BY <1>6, <3>2
        <4>2. Matches(c, x) /\ (seen[c][x] = State(x) \/ \E q \in Reporters : WillTell(q, c, x))
          BY <2>1, <2>3, <4>1 DEF Telling, Phases, Fresh
        <4>3. QED
          BY <1>8, <3>2, <4>1, <4>2
      <3>3. QED
        BY <3>1, <3>2
    <2>4. QED
      BY <2>1, <2>2, <2>3 DEF Telling, Fresh
  <1>13. QED
    BY <1>9, <1>10, <1>11, <1>12 DEF Telling

(* init() and err_report() keep the ranks in order. *)
LEMMA RanksKept ==
    ASSUME IInv, RankOrder,
           InitErr \/ \E r \in Reporters, e \in Errors, set \in BOOLEAN : Report(r, e, set)
    PROVE  RankOrder'
  <1> USE ErrorsAssumption
  <1>1. CASE InitErr
    <2> DEFINE e == Section[inits + 1]
    <2>1. /\ inits \in 0..NErrors /\ inits < NErrors /\ inits' = inits + 1
          /\ reports = 0 /\ flagSet' = flagSet /\ flagSet \subseteq Errors
          /\ rank \in [Errors -> Nat]
      BY <1>1 DEF IInv, TypeOK, InitFirst, InitErr
    <2>2. e \in Errors /\ inits + 1 \in 1..NErrors
      BY <2>1
    <2>3. e \notin Members
      <3>1. \A i \in 1..inits : Section[i] # e
        BY <2>1, <2>2
      <3>2. QED
        BY <3>1 DEF Members
    <2>4. 1..inits' = 1..inits \cup {inits + 1}
      BY <2>1
    <2>5. CASE EntersAtInit(e)
      <3>1. InsertHead(e) /\ rank' = [rank EXCEPT ![e] = inits + 1]
        BY <1>1, <2>5 DEF InitErr
      <3>2. Members' = Members \cup {e}
        BY <2>1, <2>2, <2>4, <2>5 DEF Members, Listed, EntersAtInit
      <3>3. inits + 1 \in Nat /\ \A x \in Errors : rank[x] < inits + 1
        BY <2>1 DEF IInv, RankBound
      <3>4. QED
        BY <2>2, <2>3, <3>1, <3>2, <3>3, InsertHeadRanks DEF IInv
    <2>6. CASE ~EntersAtInit(e)
      <3>1. UNCHANGED <<first, next, prev, rank>>
        BY <1>1, <2>6 DEF InitErr
      <3>2. Members' = Members
        BY <2>1, <2>2, <2>4, <2>6 DEF Members, Listed, EntersAtInit
      <3>3. QED
        BY <3>1, <3>2 DEF RankOrder
    <2>7. QED
      BY <2>5, <2>6
  <1>2. ASSUME NEW r \in Reporters, NEW e \in Errors, NEW set \in BOOLEAN, Report(r, e, set)
        PROVE  RankOrder'
    <2> DEFINE n == NErrors + reports + 1
    <2>1. /\ inits = NErrors /\ inits' = inits /\ reports \in Nat
          /\ flagSet \subseteq Errors /\ rank \in [Errors -> Nat]
          /\ e \notin Disabled /\ set # (e \in flagSet)
      BY <1>2 DEF IInv, TypeOK, InitFirst, Report, Changes
    <2>2. flagSet' = IF set THEN flagSet \cup {e} ELSE flagSet \ {e}
      BY <1>2 DEF Report
    <2>3. Members = Listed /\ Members' = Listed'
      <3>1. flagSet' \subseteq Errors
        BY <2>1, <2>2
      <3>2. Members = Listed
        BY <2>1, MembersAfterInit
      <3>3. QED
        BY <2>1, <3>1, <3>2 DEF Members, Listed
    <2>4. n \in Nat /\ \A x \in Errors : rank[x] < n
      BY <2>1 DEF IInv, RankBound
    <2>5. CASE set = TRUE
      <3>1. InsertHead(e) /\ rank' = [rank EXCEPT ![e] = n]
        BY <1>2, <2>5 DEF Report
      <3>2. e \notin flagSet /\ flagSet' = flagSet \cup {e}
        BY <2>1, <2>2, <2>5
      <3>3. e \notin Members /\ Members' = Members \cup {e}
        BY <2>1, <2>3, <3>2 DEF Listed
      <3>4. QED
        BY <2>4, <3>1, <3>3, InsertHeadRanks DEF IInv
    <2>6. CASE set = FALSE
      <3>1. Remove(e) /\ rank' = rank
        BY <1>2, <2>6 DEF Report
      <3>2. e \in Members /\ Members' = Members \ {e}
        BY <2>1, <2>2, <2>3, <2>6 DEF Listed
      <3>3. QED
        BY <3>1, <3>2, RemoveRanks DEF IInv
    <2>7. QED
      BY <2>5, <2>6
  <1>3. QED
    BY <1>1, <1>2

EInv == IInv /\ RankOrder /\ Telling

(* Every step, and stuttering, preserves what is said of the telling. *)
LEMMA NextEInv == EInv /\ [Next]_vars => EInv'
  <1> SUFFICES ASSUME EInv, [Next]_vars PROVE EInv'
    OBVIOUS
  <1> USE DEF EInv
  <1>1. IInv'
    BY NextIInv
  <1>2. CASE InitErr
    BY <1>1, <1>2, RanksKept, InitErrTelling
  <1>3. ASSUME NEW r \in Reporters, NEW e \in Errors, NEW set \in BOOLEAN, Report(r, e, set)
        PROVE  EInv'
    <2>1. RankOrder'
      BY <1>3, RanksKept
    <2>2. Telling'
      BY <1>3, ReportTelling
    <2>3. QED
      BY <1>1, <2>1, <2>2
  <1>4. CASE InitReturn \/ CbInit \/ WalkFirst \/ WalkRead \/ WalkNext
    <2>1. UNCHANGED <<listVars, rank, inits>>
      BY <1>4 DEF InitReturn, CbInit, WalkFirst, WalkRead, WalkNext, WalkTo, ghostVars
    <2>2. QED
      BY <1>1, <1>4, <2>1, SameRanks, MainTelling
  <1>5. ASSUME NEW a \in Actors, CallHandler(a) PROVE EInv'
    <2>1. UNCHANGED <<listVars, rank, inits>>
      BY <1>5 DEF CallHandler
    <2>2. QED
      BY <1>1, <1>5, <2>1, SameRanks, CallTelling
  <1>6. ASSUME NEW r \in Reporters, StartNotify(r) \/ SkipNotify(r) \/ ReportReturn(r)
        PROVE  EInv'
    <2>1. UNCHANGED <<listVars, rank, inits>>
      BY <1>6 DEF StartNotify, SkipNotify, ReportReturn, ghostVars
    <2>2. QED
      BY <1>1, <1>6, <2>1, SameRanks, ReporterTelling
  <1>7. CASE UNCHANGED vars
    <2>1. RankOrder'
      BY <1>7, SameRanks DEF vars, ghostVars
    <2>2. UNCHANGED <<flagSet, dispatched, pc, cur, arg, at, seen, told, live, overlap, rank>>
      BY <1>7 DEF vars, listVars, actorVars, ghostVars
    <2>3. /\ \A r \in Reporters, c \in Callbacks, e \in Errors :
               WillTell(r, c, e)' = WillTell(r, c, e)
          /\ \A e \in Errors : State(e)' = State(e)
      BY <2>2 DEF WillTell, State
    <2>4. Phases' /\ ToldByWalk'
      BY <2>2 DEF Telling, Phases, ToldByWalk, WillWalk, Listed, Matches
    <2>5. ToldByReporter' /\ Fresh'
      BY <2>2, <2>3 DEF Telling, ToldByReporter, Fresh, Matches
    <2>6. QED
      BY <1>1, <2>1, <2>4, <2>5 DEF Telling
  <1>8. QED
    BY <1>2, <1>3, <1>4, <1>5, <1>6, <1>7
      DEF Next, MainStep, ReporterStep, Actors

(* What is said of the telling holds in every reachable state. *)
THEOREM TellingHolds == Spec => []EInv
  <1>1. Init => EInv
    BY InitIInv, InitTelling DEF EInv
  <1>2. QED
    BY <1>1, NextEInv, PTL DEF Spec

(* However the walk of cb_init() and the reporters interleave, with errors  *)
(* removed from the list under the walk and put back at its head, no        *)
(* callback misses the state an error is in.                                *)
THEOREM NothingMissedHolds == Spec => []NothingMissed
  <1>1. EInv => NothingMissed
    <2> SUFFICES ASSUME EInv, Quiescent, NEW e \in Errors \ Disabled, NEW c \in Callbacks,
                        Matches(c, e), e \in flagSet \/ live[e]
                 PROVE  State(e) \in told[c][e]
      BY DEF NothingMissed, State
    <2>1. \A r \in Reporters : ~WillTell(r, c, e)
      BY DEF Quiescent, WillTell
    <2>2. CASE live[e]
      BY <2>1, <2>2 DEF EInv, Telling, ToldByReporter
    <2>3. CASE ~live[e]
      <3>1. e \in Listed /\ ~WillWalk(c, e)
        BY <2>3 DEF Listed, Quiescent, WillWalk
      <3>2. TRUE \in told[c][e]
        BY <2>3, <3>1 DEF EInv, Telling, ToldByWalk
      <3>3. State(e) = TRUE
        BY <3>1, SMT DEF State, Listed
      <3>4. QED
        BY <3>2, <3>3
    <2>4. QED
      BY <2>2, <2>3
  <1>2. QED
    BY <1>1, TellingHolds, PTL

(* Callbacks are out of date only for an error that changed while an        *)
(* earlier state of it was being told.                                      *)
THEOREM FreshUnlessOverlappedHolds == Spec => []FreshUnlessOverlapped
  <1>1. EInv => FreshUnlessOverlapped
    <2> SUFFICES ASSUME EInv, Quiescent, NEW e \in Errors \ Disabled, NEW c \in Callbacks,
                        ~overlap[e], seen[c][e] # Null
                 PROVE  seen[c][e] = State(e)
      BY DEF FreshUnlessOverlapped, State
    <2>1. \A r \in Reporters : ~WillTell(r, c, e)
      BY DEF Quiescent, WillTell
    <2>2. QED
      BY <2>1 DEF EInv, Telling, Fresh
  <1>2. QED
    BY <1>1, TellingHolds, PTL

=============================================================================
