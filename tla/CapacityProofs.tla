---------------------------- MODULE CapacityProofs ----------------------------
(***************************************************************************)
(* The capacity of a variant is safe for any number of claims and readers, *)
(* any allowance and any restocks.                                         *)
(*                                                                         *)
(* The invariant is about figures: every stock figure that was answered    *)
(* contains each order whose settlement reads, on a clock that trails by   *)
(* Skew at most, as earlier than the figure's start.  A claim handed over  *)
(* is stamped before the stored figure began, so without skew the figure   *)
(* contains it (CountedSomewhere); then what a reservation counts bounds   *)
(* all that was promised (NoOversell).  With a margin that covers the skew *)
(* the same holds of the live figure (LiveFigureCountsAll).                *)
(***************************************************************************)
EXTENDS CapacityMirror, FiniteSetTheorems, TLAPS

\* Figure f tells the truth in a state with these orders, supply, time and stamps.
Truthful(f, orders, units, time, stamps) ==
  /\ f.seen \subseteq orders /\ f.supply <= units /\ f.at <= time
  /\ \A c \in Claim : stamps[c] # -1 /\ stamps[c] + Skew < f.at => c \in f.seen

True(f) == Truthful(f, remote, supply, now, stamp)

\* A stamp is taken of an existing order; a commitment has one.
ClaimInv == \A c \in Claim :
  /\ c \in remote => claim[c] \in {"held", "committed"}
  /\ stamp[c] # -1 => c \in remote
  /\ claim[c] = "committed" => stamp[c] # -1

FigureInv ==
  /\ True(stored)
  /\ \A r \in Reader : /\ read[r].pc = "asked" => read[r].got.at <= now
                       /\ read[r].pc = "answered" => True(read[r].got)
  /\ probe.pc = "asked" => probe.got.at <= now
  /\ probe.pc = "answered" => True(probe.got)

MirrorInv == \A c \in mirrored : claim[c] = "committed" /\ stamp[c] < stored.at

\* What the reservation has read under the lock is still there.
GateInv == gate # NoClaim => figure = Stock(stored) /\ claim[gate] = "none"

Inv == TypeOK /\ ClaimInv /\ FigureInv /\ MirrorInv /\ GateInv

-----------------------------------------------------------------------------
(* What a step may do to the world.                                        *)

Stamping == \E c \in Claim, t \in 0..now :
  now <= t + Skew /\ stamp' = [stamp EXCEPT ![c] = t]

Onward == /\ remote \subseteq remote' /\ supply <= supply' /\ now <= now'
          /\ stamp' = stamp \/ Stamping

\* A truthful figure stays truthful: later orders, stamps and restocks are later
\* than its start.
LEMMA TruthLasts ==
  ASSUME TypeOK, TypeOK', Onward, NEW f \in Figure, True(f)
  PROVE  Truthful(f, remote', supply', now', stamp')
<1>1. f.seen \subseteq remote' /\ f.supply <= supply' /\ f.at <= now'
  BY DEF Onward, True, Truthful, TypeOK, Figure
<1>2. ASSUME NEW c \in Claim, stamp'[c] # -1, stamp'[c] + Skew < f.at
      PROVE  c \in f.seen
  <2>1. CASE stamp'[c] = stamp[c]
    BY <1>2, <2>1 DEF True, Truthful
  <2>2. CASE stamp'[c] # stamp[c]
    <3>1. PICK d \in Claim, t \in 0..now :
            now <= t + Skew /\ stamp' = [stamp EXCEPT ![d] = t]
      BY <2>2 DEF Onward, Stamping
    <3>2. stamp'[c] = t
      BY <2>2, <3>1 DEF TypeOK
    <3>3. now <= stamp'[c] + Skew
      BY <3>1, <3>2
    <3>4. f.at <= now
      BY DEF True, Truthful
    <3> QED BY <1>2, <3>3, <3>4, BoundAssumption DEF TypeOK, Figure
  <2> QED BY <2>1, <2>2
<1> QED BY <1>1, <1>2 DEF Truthful

\* An answer of this moment is truthful.
LEMMA AnswersAreTrue ==
  ASSUME Inv, NEW f \in Figure, Answer(f, f.at), f.at <= now
  PROVE  True(f)
BY DEF Inv, Answer, True, Truthful, ClaimInv, TypeOK, Figure

\* The figures survive a step that changes none of them.
LEMMA FiguresKept ==
  ASSUME Inv, TypeOK', Onward, UNCHANGED <<stored, read, probe>>
  PROVE  FigureInv'
<1> USE DEF Inv, FigureInv
<1>1. stored \in Figure /\ probe.got \in Figure
  BY DEF TypeOK
<1>2. \A r \in Reader : read[r].got \in Figure
  BY DEF TypeOK
<1>3. True(stored)'
  BY <1>1, TruthLasts DEF True
<1>4. ASSUME NEW r \in Reader
      PROVE  /\ read'[r].pc = "asked" => read'[r].got.at <= now'
             /\ read'[r].pc = "answered" => True(read[r].got)'
  <2>1. read[r].got.at \in Int
    BY <1>2 DEF Figure
  <2>2. read'[r].pc = "asked" => read'[r].got.at <= now'
    BY <2>1 DEF Onward, TypeOK
  <2>3. ASSUME read[r].pc = "answered"
        PROVE  Truthful(read[r].got, remote', supply', now', stamp')
    BY <1>2, <2>3, TruthLasts
  <2> QED BY <2>2, <2>3 DEF True
<1>5. probe'.pc = "asked" => probe'.got.at <= now'
  BY <1>1 DEF Onward, TypeOK, Figure
<1>6. ASSUME probe.pc = "answered"
      PROVE  Truthful(probe.got, remote', supply', now', stamp')
  BY <1>1, <1>6, TruthLasts
<1> QED BY <1>3, <1>4, <1>5, <1>6 DEF True

\* Figures are integers.
LEMMA StockIsInt ==
  ASSUME NEW f \in Figure
  PROVE  Stock(f) \in Int
<1>1. Cardinality(f.seen) \in Nat
  BY ClaimAssumption, FS_Subset, FS_CardinalityType DEF Figure
<1> QED BY <1>1 DEF Stock, Figure

-----------------------------------------------------------------------------
(* Type correctness.                                                       *)

LEMMA InitTyped == Init => TypeOK
BY ClaimAssumption, BoundAssumption
   DEF Init, TypeOK, IdleRead, IdleProbe, NoFigure, Figure

\* The steps of the claims and of the world around them.
LEMMA ClaimsTyped ==
  ASSUME TypeOK,
         \/ Tick \/ Restock \/ ReserveGrant \/ ReserveEnds
         \/ \E c \in Claim : \/ ReserveRead(c) \/ Land(c) \/ Stamp(c) \/ Commit(c)
                             \/ Release(c)
  PROVE  TypeOK'
<1> USE DEF TypeOK
<1>1. CASE Tick
  BY <1>1 DEF Tick, ledgerVars, gateVars
<1>2. CASE Restock
  BY <1>2 DEF Restock, ledgerVars, gateVars
<1>3. CASE ReserveGrant
  BY <1>3 DEF ReserveGrant
<1>4. CASE ReserveEnds
  BY <1>4 DEF ReserveEnds, ledgerVars
<1>5. ASSUME NEW c \in Claim, ReserveRead(c)
      PROVE  TypeOK'
  BY <1>5, StockIsInt DEF ReserveRead, ledgerVars
<1>6. ASSUME NEW c \in Claim, Land(c)
      PROVE  TypeOK'
  BY <1>6 DEF Land, gateVars
<1>7. ASSUME NEW c \in Claim, Stamp(c)
      PROVE  TypeOK'
  BY <1>7 DEF Stamp, gateVars
<1>8. ASSUME NEW c \in Claim, Commit(c) \/ Release(c)
      PROVE  TypeOK'
  BY <1>8 DEF Commit, Release, gateVars
<1> QED BY <1>1, <1>2, <1>3, <1>4, <1>5, <1>6, <1>7, <1>8

\* A figure that Pancake answers.
LEMMA AnswerTyped ==
  ASSUME TypeOK, NEW t \in Int, NEW rows \in BOOLEAN
  PROVE  [supply |-> supply, seen |-> remote, at |-> t, rows |-> rows] \in Figure
BY DEF TypeOK, Figure

\* A figure that was asked for.
LEMMA Started ==
  ASSUME TypeOK
  PROVE  [NoFigure EXCEPT !.at = now] \in Figure
<1>1. NoFigure \in Figure
  BY DEF NoFigure, Figure
<1>2. now \in Int
  BY DEF TypeOK
<1> QED BY <1>1, <1>2 DEF Figure

\* The steps of the readers.
LEMMA ReadersTyped ==
  ASSUME TypeOK,
         \/ \E r \in Reader : ReadStart(r) \/ ReadAnswer(r) \/ ReadLost(r) \/ ReadApply(r)
         \/ ReconcileHandoffs
  PROVE  TypeOK'
<1> USE DEF TypeOK
<1>1. ASSUME NEW r \in Reader, ReadStart(r)
      PROVE  TypeOK'
  <2>1. [NoFigure EXCEPT !.at = now] \in Figure
    BY Started
  <2>2. [pc |-> "asked", got |-> [NoFigure EXCEPT !.at = now]]
          \in [pc : {"idle", "asked", "answered"}, got : Figure]
    BY <2>1
  <2>3. read' \in [Reader -> [pc : {"idle", "asked", "answered"}, got : Figure]]
    BY <1>1, <2>2 DEF ReadStart
  <2> QED BY <1>1, <2>3 DEF ReadStart, ledgerVars, gateVars
<1>2. ASSUME NEW r \in Reader, ReadAnswer(r)
      PROVE  TypeOK'
  <2>1. read[r].got.at \in Int
    BY DEF Figure
  <2>2. PICK rows \in BOOLEAN :
          read' = [read EXCEPT ![r] = [pc |-> "answered",
                     got |-> [supply |-> supply, seen |-> remote,
                              at |-> read[r].got.at, rows |-> rows]]]
    BY <1>2 DEF ReadAnswer
  <2>3. [supply |-> supply, seen |-> remote, at |-> read[r].got.at,
         rows |-> rows] \in Figure
    BY <2>1, AnswerTyped
  <2> QED BY <1>2, <2>2, <2>3 DEF ReadAnswer, ledgerVars, gateVars
<1>3. IdleRead \in [pc : {"idle", "asked", "answered"}, got : Figure]
  BY DEF IdleRead, NoFigure, Figure
<1>4. ASSUME NEW r \in Reader, ReadLost(r)
      PROVE  TypeOK'
  BY <1>3, <1>4 DEF ReadLost, ledgerVars, gateVars
<1>5. ASSUME NEW r \in Reader, ReadApply(r)
      PROVE  TypeOK'
  <2>1. Newer(read[r].got) \in Figure
    BY DEF Newer
  <2>2. \A f : HandedOff(f) \subseteq Claim
    BY DEF HandedOff
  <2>3. stored' \in Figure /\ mirrored' \in SUBSET Claim
    BY <1>5, <2>1, <2>2 DEF ReadApply, Applied
  <2>4. read' \in [Reader -> [pc : {"idle", "asked", "answered"}, got : Figure]]
    BY <1>3, <1>5 DEF ReadApply, Applied
  <2> QED BY <1>5, <2>3, <2>4 DEF ReadApply, gateVars
<1>6. CASE ReconcileHandoffs
  BY <1>6 DEF ReconcileHandoffs, HandedOff, gateVars
<1> QED BY <1>1, <1>2, <1>4, <1>5, <1>6

\* The steps of the live figure.
LEMMA ProbeTyped ==
  ASSUME TypeOK,
         \/ \E c \in Claim : ProbeStart(c)
         \/ ProbeAnswer \/ ProbeJudge \/ ProbeEnds
  PROVE  TypeOK'
<1> DEFINE Probes == [pc : {"idle", "asked", "answered", "judged"},
                      self : Claim \cup {NoClaim}, got : Figure,
                      pending : SUBSET Claim]
<1>1. probe \in Probes /\ NoFigure \in Figure
  BY DEF TypeOK, NoFigure, Figure
<1>2. ASSUME NEW c \in Claim, ProbeStart(c)
      PROVE  TypeOK'
  <2>1. [NoFigure EXCEPT !.at = now] \in Figure
    BY Started
  <2>2. probe' = [pc |-> "asked", self |-> c, got |-> [NoFigure EXCEPT !.at = now],
                  pending |-> {}]
    BY <1>2, IdleProbe = [pc |-> "idle", self |-> NoClaim, got |-> NoFigure,
                          pending |-> {}]
       DEF ProbeStart, IdleProbe
  <2>3. probe' \in Probes
    BY <2>1, <2>2
  <2> QED BY <1>2, <2>3 DEF ProbeStart, TypeOK, ledgerVars, gateVars
<1>3. CASE ProbeAnswer
  <2>1. PICK rows \in BOOLEAN :
          probe' = [probe EXCEPT !.pc = "answered",
                      !.got = [supply |-> supply, seen |-> remote,
                               at |-> probe.got.at, rows |-> rows]]
    BY <1>3 DEF ProbeAnswer
  <2>2. probe.got.at \in Int
    BY <1>1 DEF Figure
  <2>3. [supply |-> supply, seen |-> remote, at |-> probe.got.at,
         rows |-> rows] \in Figure
    BY <2>2, AnswerTyped
  <2>4. probe' \in Probes
    BY <1>1, <2>1, <2>3
  <2> QED BY <1>3, <2>4 DEF ProbeAnswer, TypeOK, ledgerVars, gateVars
<1>4. CASE ProbeJudge
  <2>1. Pending(probe.got.at) \ {probe.self} \in SUBSET Claim
    BY DEF Pending
  <2>2. probe' \in Probes
    BY <1>1, <1>4, <2>1 DEF ProbeJudge
  <2> QED BY <1>4, <2>2 DEF ProbeJudge, TypeOK, ledgerVars, gateVars
<1>5. CASE ProbeEnds
  <2>1. IdleProbe \in Probes
    BY <1>1 DEF IdleProbe
  <2> QED BY <1>5, <2>1 DEF ProbeEnds, TypeOK, ledgerVars, gateVars
<1> QED BY <1>2, <1>3, <1>4, <1>5

\* Every step.
LEMMA StepTyped == TypeOK /\ [Next]_vars => TypeOK'
<1> SUFFICES ASSUME TypeOK, [Next]_vars
             PROVE  TypeOK'
  OBVIOUS
<1>1. CASE Next
  BY <1>1, ClaimsTyped, ReadersTyped, ProbeTyped DEF Next
<1>2. CASE UNCHANGED vars
  BY <1>2 DEF TypeOK, vars, ledgerVars, gateVars
<1> QED BY <1>1, <1>2

-----------------------------------------------------------------------------
(* The invariant is inductive: one lemma per conjunct.                     *)

\* The world only moves onward.
LEMMA WorldMoves ==
  ASSUME TypeOK, [Next]_vars
  PROVE  Onward
<1> USE DEF TypeOK, ledgerVars, gateVars
<1>1. CASE Tick
  BY <1>1 DEF Tick, Onward
<1>2. CASE Restock
  BY <1>2 DEF Restock, Onward
<1>3. ASSUME NEW c \in Claim, Land(c)
      PROVE  Onward
  BY <1>3 DEF Land, Onward
<1>4. ASSUME NEW c \in Claim, Stamp(c)
      PROVE  Onward
  <2>1. Stamping
    BY <1>4 DEF Stamp, Stamping
  <2> QED BY <1>4, <2>1 DEF Stamp, Onward
<1>5. ASSUME NEW c \in Claim, ReserveRead(c) \/ Commit(c) \/ Release(c) \/ ProbeStart(c)
      PROVE  UNCHANGED <<now, supply, remote, stamp>>
  BY <1>5 DEF ReserveRead, Commit, Release, ProbeStart
<1>6. ASSUME NEW r \in Reader,
             ReadStart(r) \/ ReadAnswer(r) \/ ReadLost(r) \/ ReadApply(r)
      PROVE  UNCHANGED <<now, supply, remote, stamp>>
  BY <1>6 DEF ReadStart, ReadAnswer, ReadLost, ReadApply
<1>7. ASSUME \/ ReserveGrant \/ ReserveEnds \/ ReconcileHandoffs
             \/ ProbeAnswer \/ ProbeJudge \/ ProbeEnds \/ UNCHANGED vars
      PROVE  UNCHANGED <<now, supply, remote, stamp>>
  BY <1>7 DEF ReserveGrant, ReserveEnds, ReconcileHandoffs, ProbeAnswer,
              ProbeJudge, ProbeEnds, vars
<1>8. UNCHANGED <<now, supply, remote, stamp>> => Onward
  BY DEF Onward
<1> QED BY <1>1, <1>2, <1>3, <1>4, <1>5, <1>6, <1>7, <1>8 DEF Next

LEMMA ClaimKept ==
  ASSUME Inv, [Next]_vars
  PROVE  ClaimInv'
<1> USE DEF Inv, TypeOK, ClaimInv, GateInv
<1>1. CASE ReserveGrant
  BY <1>1, ClaimAssumption DEF ReserveGrant
<1>2. ASSUME NEW c \in Claim, Land(c)
      PROVE  ClaimInv'
  BY <1>2 DEF Land
<1>3. ASSUME NEW c \in Claim, Stamp(c)
      PROVE  ClaimInv'
  BY <1>3 DEF Stamp
<1>4. ASSUME NEW c \in Claim, Commit(c) \/ Release(c)
      PROVE  ClaimInv'
  BY <1>4 DEF Commit, Release
<1>5. ASSUME UNCHANGED <<claim, remote, stamp>>
      PROVE  ClaimInv'
  BY <1>5
<1>6. ASSUME \/ Tick \/ Restock \/ ReserveEnds \/ ReconcileHandoffs
             \/ ProbeAnswer \/ ProbeJudge \/ ProbeEnds \/ UNCHANGED vars
      PROVE  UNCHANGED <<claim, remote, stamp>>
  BY <1>6 DEF Tick, Restock, ReserveEnds, ReconcileHandoffs, ProbeAnswer,
              ProbeJudge, ProbeEnds, vars, ledgerVars
<1>7. ASSUME NEW c \in Claim, ReserveRead(c) \/ ProbeStart(c)
      PROVE  UNCHANGED <<claim, remote, stamp>>
  BY <1>7 DEF ReserveRead, ProbeStart, ledgerVars
<1>8. ASSUME NEW r \in Reader,
             ReadStart(r) \/ ReadAnswer(r) \/ ReadLost(r) \/ ReadApply(r)
      PROVE  UNCHANGED <<claim, remote, stamp>>
  BY <1>8 DEF ReadStart, ReadAnswer, ReadLost, ReadApply, ledgerVars
<1> QED BY <1>1, <1>2, <1>3, <1>4, <1>5, <1>6, <1>7, <1>8 DEF Next

LEMMA FigureKept ==
  ASSUME Inv, [Next]_vars
  PROVE  FigureInv'
<1>1. TypeOK /\ TypeOK' /\ Onward /\ FigureInv
  BY StepTyped, WorldMoves DEF Inv
<1> DEFINE Same == UNCHANGED <<now, supply, remote, stamp>>
<1>2. ASSUME Same, NEW f, True(f)
      PROVE  True(f)'
  BY <1>2 DEF True
<1>3. ASSUME UNCHANGED <<stored, read, probe>>
      PROVE  FigureInv'
  BY <1>1, <1>3, FiguresKept
<1>4. ASSUME NEW r \in Reader, ReadStart(r)
      PROVE  FigureInv'
  <2>1. read' = [read EXCEPT ![r] = [pc |-> "asked",
                                     got |-> [NoFigure EXCEPT !.at = now]]]
    BY <1>4 DEF ReadStart
  <2>2. [NoFigure EXCEPT !.at = now].at = now /\ now <= now
    BY <1>1 DEF NoFigure, TypeOK
  <2> QED
    BY <1>1, <1>4, <2>1, <2>2
       DEF ReadStart, FigureInv, True, TypeOK, ledgerVars
<1>5. ASSUME NEW r \in Reader, ReadAnswer(r)
      PROVE  FigureInv'
  <2>1. PICK f \in Figure : /\ read' = [read EXCEPT ![r] = [pc |-> "answered", got |-> f]]
                            /\ f.at = read[r].got.at /\ Answer(f, f.at)
    <3>1. PICK rows \in BOOLEAN :
            /\ Answer([supply |-> supply, seen |-> remote, at |-> read[r].got.at,
                       rows |-> rows], read[r].got.at)
            /\ read' = [read EXCEPT ![r] = [pc |-> "answered",
                          got |-> [supply |-> supply, seen |-> remote,
                                   at |-> read[r].got.at, rows |-> rows]]]
      BY <1>5 DEF ReadAnswer
    <3>2. read[r].got.at \in Int
      BY <1>1 DEF TypeOK, Figure
    <3>3. [supply |-> supply, seen |-> remote, at |-> read[r].got.at,
           rows |-> rows] \in Figure
      BY <1>1, <3>2, AnswerTyped
    <3> QED BY <3>1, <3>3
  <2>2. read[r].pc = "asked" /\ f.at <= now
    BY <1>1, <1>5, <2>1 DEF ReadAnswer, FigureInv
  <2>3. True(f)
    BY <2>1, <2>2, AnswersAreTrue
  <2>4. Same /\ UNCHANGED <<stored, probe>>
    BY <1>5 DEF ReadAnswer, ledgerVars
  <2>5. \A q \in Reader : read'[q] = IF q = r THEN [pc |-> "answered", got |-> f]
                                     ELSE read[q]
    BY <1>1, <2>1 DEF TypeOK
  <2> QED BY <1>1, <2>3, <2>4, <2>5 DEF FigureInv, True
<1>6. ASSUME NEW r \in Reader, ReadLost(r)
      PROVE  FigureInv'
  <2>1. \A q \in Reader : read'[q] = IF q = r THEN IdleRead ELSE read[q]
    BY <1>1, <1>6 DEF ReadLost, TypeOK
  <2> QED BY <1>1, <1>6, <2>1
          DEF ReadLost, FigureInv, True, IdleRead, ledgerVars
<1>7. ASSUME NEW r \in Reader, ReadApply(r)
      PROVE  FigureInv'
  <2>1. \A q \in Reader : read'[q] = IF q = r THEN IdleRead ELSE read[q]
    BY <1>1, <1>7 DEF ReadApply, Applied, TypeOK
  <2>2. Same /\ UNCHANGED probe
    BY <1>7 DEF ReadApply
  <2>3. True(Newer(read[r].got))
    BY <1>1, <1>7 DEF ReadApply, Newer, FigureInv
  <2>4. stored' = Newer(read[r].got)
    BY <1>7 DEF ReadApply, Applied
  <2> QED BY <1>1, <2>1, <2>2, <2>3, <2>4 DEF FigureInv, True, IdleRead
<1>8. ASSUME NEW c \in Claim, ProbeStart(c)
      PROVE  FigureInv'
  <2>1. probe'.pc = "asked" /\ probe'.got.at = now /\ now <= now
    BY <1>1, <1>8 DEF ProbeStart, IdleProbe, NoFigure, TypeOK
  <2> QED BY <1>1, <1>8, <2>1 DEF ProbeStart, FigureInv, True, ledgerVars
<1>9. CASE ProbeAnswer
  <2>1. PICK rows \in BOOLEAN :
          /\ Answer([supply |-> supply, seen |-> remote, at |-> probe.got.at,
                     rows |-> rows], probe.got.at)
          /\ probe' = [probe EXCEPT !.pc = "answered",
                        !.got = [supply |-> supply, seen |-> remote,
                                 at |-> probe.got.at, rows |-> rows]]
    BY <1>9 DEF ProbeAnswer
  <2> DEFINE f == [supply |-> supply, seen |-> remote, at |-> probe.got.at,
                   rows |-> rows]
  <2>2. f \in Figure /\ f.at = probe.got.at
    <3>1. probe.got.at \in Int
      BY <1>1 DEF TypeOK, Figure
    <3> QED BY <1>1, <3>1, AnswerTyped
  <2>3. f.at <= now
    BY <1>1, <1>9, <2>2 DEF ProbeAnswer, FigureInv
  <2>4. True(f)
    BY <2>1, <2>2, <2>3, AnswersAreTrue
  <2>5. probe'.pc = "answered" /\ probe'.got = f
    BY <1>1, <2>1 DEF TypeOK
  <2> QED BY <1>1, <1>9, <2>4, <2>5 DEF ProbeAnswer, FigureInv, True, ledgerVars
<1>10. CASE ProbeJudge
  <2>1. probe'.pc = "judged"
    BY <1>1, <1>10 DEF ProbeJudge, TypeOK
  <2> QED BY <1>1, <1>10, <2>1 DEF ProbeJudge, FigureInv, True, ledgerVars
<1>11. CASE ProbeEnds
  <2>1. probe'.pc = "idle"
    BY <1>11 DEF ProbeEnds, IdleProbe
  <2> QED BY <1>1, <1>11, <2>1 DEF ProbeEnds, FigureInv, True, ledgerVars
<1>12. ASSUME \/ Tick \/ Restock \/ ReserveGrant \/ ReserveEnds
              \/ ReconcileHandoffs \/ UNCHANGED vars
              \/ \E c \in Claim : \/ ReserveRead(c) \/ Land(c) \/ Stamp(c)
                                  \/ Commit(c) \/ Release(c)
       PROVE  UNCHANGED <<stored, read, probe>>
  BY <1>12 DEF Tick, Restock, ReserveGrant, ReserveEnds, ReconcileHandoffs, vars,
               ReserveRead, Land, Stamp, Commit, Release
<1> QED BY <1>3, <1>4, <1>5, <1>6, <1>7, <1>8, <1>9, <1>10, <1>11, <1>12 DEF Next

LEMMA MirrorKept ==
  ASSUME Inv, [Next]_vars
  PROVE  MirrorInv'
<1> USE DEF MirrorInv
<1>1. TypeOK /\ ClaimInv /\ MirrorInv /\ FigureInv
  BY DEF Inv
<1>2. ASSUME NEW c \in Claim, Stamp(c) \/ Commit(c) \/ Release(c)
      PROVE  MirrorInv'
  BY <1>1, <1>2 DEF Stamp, Commit, Release, TypeOK
<1>3. CASE ReserveGrant
  BY <1>1, <1>3 DEF ReserveGrant, GateInv, Inv, TypeOK
<1>4. ASSUME NEW r \in Reader, ReadApply(r)
      PROVE  MirrorInv'
  <2>1. stored' = Newer(read[r].got) /\ UNCHANGED <<claim, stamp>>
    BY <1>4 DEF ReadApply, Applied
  <2>2. mirrored' \subseteq mirrored \cup HandedOff(stored')
    BY <1>4 DEF ReadApply, Applied
  <2>3. stored.at <= stored'.at /\ {stored.at, stored'.at} \subseteq Int
    BY <1>1, <2>1 DEF Newer, TypeOK, Figure
  <2>4. \A c \in mirrored' : claim[c] = "committed" /\ stamp[c] < stored'.at
    BY <1>1, <2>2, <2>3 DEF HandedOff, TypeOK
  <2> QED BY <2>1, <2>4
<1>5. CASE ReconcileHandoffs
  BY <1>1, <1>5 DEF ReconcileHandoffs, HandedOff
<1>6. ASSUME \/ Tick \/ Restock \/ ReserveEnds \/ UNCHANGED vars
             \/ ProbeAnswer \/ ProbeJudge \/ ProbeEnds
             \/ \E c \in Claim : ReserveRead(c) \/ Land(c) \/ ProbeStart(c)
             \/ \E r \in Reader : ReadStart(r) \/ ReadAnswer(r) \/ ReadLost(r)
      PROVE  UNCHANGED <<mirrored, claim, stamp, stored>>
  BY <1>6 DEF Tick, Restock, ReserveEnds, vars, ProbeAnswer, ProbeJudge, ProbeEnds,
              ReserveRead, Land, ProbeStart, ReadStart, ReadAnswer, ReadLost,
              ledgerVars
<1>7. UNCHANGED <<mirrored, claim, stamp, stored>> => MirrorInv'
  BY <1>1
<1> QED BY <1>2, <1>3, <1>4, <1>5, <1>6, <1>7 DEF Next

LEMMA GateKept ==
  ASSUME Inv, [Next]_vars
  PROVE  GateInv'
<1> USE DEF GateInv
<1>1. TypeOK /\ GateInv
  BY DEF Inv
<1>2. ASSUME NEW c \in Claim, ReserveRead(c)
      PROVE  GateInv'
  BY <1>2 DEF ReserveRead, ledgerVars
<1>3. ASSUME NEW c \in Claim, Land(c) \/ Stamp(c) \/ Commit(c) \/ Release(c)
      PROVE  GateInv'
  BY <1>1, <1>3 DEF Land, Stamp, Commit, Release, TypeOK, gateVars
<1>4. CASE ReserveGrant \/ ReserveEnds
  BY <1>4 DEF ReserveGrant, ReserveEnds
<1>5. ASSUME NEW r \in Reader, ReadApply(r)
      PROVE  GateInv'
  BY <1>5 DEF ReadApply, gateVars
<1>6. ASSUME \/ Tick \/ Restock \/ ReconcileHandoffs \/ UNCHANGED vars
             \/ ProbeAnswer \/ ProbeJudge \/ ProbeEnds
             \/ \E c \in Claim : ProbeStart(c)
             \/ \E r \in Reader : ReadStart(r) \/ ReadAnswer(r) \/ ReadLost(r)
      PROVE  UNCHANGED <<gate, figure, claim, stored>>
  BY <1>6 DEF Tick, Restock, ReconcileHandoffs, vars, ProbeAnswer, ProbeJudge,
              ProbeEnds, ProbeStart, ReadStart, ReadAnswer, ReadLost,
              ledgerVars, gateVars
<1>7. UNCHANGED <<gate, figure, claim, stored>> => GateInv'
  BY <1>1
<1> QED BY <1>2, <1>3, <1>4, <1>5, <1>6, <1>7 DEF Next

LEMMA InitInv == Init => Inv
<1> SUFFICES ASSUME Init
             PROVE  Inv
  OBVIOUS
<1>1. ClaimInv /\ MirrorInv
  BY DEF Init, ClaimInv, MirrorInv
<1>2. GateInv
  BY DEF Init, GateInv
<1>3. FigureInv
  BY BoundAssumption, ClaimAssumption
     DEF Init, FigureInv, True, Truthful, IdleRead, IdleProbe
<1> QED BY <1>1, <1>2, <1>3, InitTyped DEF Inv

LEMMA InvKept == Inv /\ [Next]_vars => Inv'
BY StepTyped, ClaimKept, FigureKept, MirrorKept, GateKept DEF Inv

\* Type correctness and the invariant hold throughout, whatever the skew.
THEOREM FiguresTruthful == Spec => []Inv
BY InitInv, InvKept, PTL DEF Spec

-----------------------------------------------------------------------------
(* What follows from it.                                                   *)

LEMMA MirroredSeen ==
  ASSUME Skew = 0, Inv
  PROVE  CountedSomewhere
<1> SUFFICES ASSUME NEW c \in mirrored
             PROVE  c \in stored.seen
  BY DEF CountedSomewhere
<1>1. c \in Claim /\ stamp[c] \in Int
  BY DEF Inv, TypeOK
<1>2. stamp[c] # -1 /\ stamp[c] + Skew < stored.at
  BY <1>1 DEF Inv, MirrorInv, ClaimInv
<1> QED BY <1>1, <1>2 DEF Inv, FigureInv, True, Truthful

\* Between processes whose clocks agree, a unit handed over to the mirror is in
\* the mirrored stock for good: handOffMirroredCapacity and the watermark of
\* writeObservedWarehouseStocks, for any number of claims and readers.
THEOREM HandoffSound == ASSUME Skew = 0 PROVE Spec => []CountedSomewhere
<1>1. Inv => CountedSomewhere
  BY MirroredSeen
<1> QED BY <1>1, FiguresTruthful, PTL

\* What the ledger counts and what the stored figure has taken off bound what is
\* promised.
LEMMA PromisedCounted ==
  ASSUME Inv, CountedSomewhere
  PROVE  /\ IsFiniteSet(Promised) /\ Cardinality(Promised) \in Nat
         /\ Cardinality(Promised) <= Cardinality(Holding) + Cardinality(stored.seen)
<1>1. stored.seen \in SUBSET Claim
  BY DEF Inv, TypeOK, Figure
<1>2. IsFiniteSet(Promised) /\ IsFiniteSet(Holding) /\ IsFiniteSet(stored.seen)
  BY <1>1, ClaimAssumption, FS_Subset DEF Promised, Holding
<1>3. Promised \subseteq Holding \cup stored.seen
  BY DEF Promised, Holding, CountedSomewhere
<1>4. IsFiniteSet(Holding \cup stored.seen)
  BY <1>2, FS_Union
<1>5. Cardinality(Promised) <= Cardinality(Holding \cup stored.seen)
  BY <1>3, <1>4, FS_Subset
<1>6. Cardinality(Holding \cup stored.seen)
        = Cardinality(Holding) + Cardinality(stored.seen)
            - Cardinality(Holding \cap stored.seen)
  BY <1>2, FS_Union
<1>7. IsFiniteSet(Holding \cap stored.seen)
  BY <1>2, FS_Subset
<1>8. /\ Cardinality(Promised) \in Nat /\ Cardinality(Holding) \in Nat
      /\ Cardinality(stored.seen) \in Nat /\ Cardinality(Holding \cap stored.seen) \in Nat
  BY <1>2, <1>7, FS_CardinalityType
<1> QED BY <1>2, <1>5, <1>6, <1>8

\* Only a granted reservation promises more.
LEMMA LimitKept ==
  ASSUME Inv, CountedSomewhere, NoOversell, [Next]_vars
  PROVE  NoOversell'
<1>1. /\ TypeOK /\ TypeOK' /\ supply <= supply' /\ supply \in Nat /\ supply' \in Nat
  BY StepTyped, WorldMoves DEF Inv, Onward, TypeOK
<1>2. /\ IsFiniteSet(Promised) /\ Cardinality(Promised) \in Nat
      /\ Cardinality(Promised) <= Cardinality(Holding) + Cardinality(stored.seen)
  BY PromisedCounted
<1>3. CASE ReserveGrant
  <2>1. gate \in Claim /\ claim[gate] = "none" /\ figure = Stock(stored)
    BY <1>1, <1>3 DEF ReserveGrant, GateInv, Inv, TypeOK
  <2>2. Promised' = Promised \cup {gate} /\ gate \notin Promised
    BY <1>1, <1>3, <2>1 DEF ReserveGrant, Promised, TypeOK
  <2>3. Cardinality(Promised') = Cardinality(Promised) + 1
    BY <1>2, <2>2, FS_AddElement
  <2>4. stored.supply <= supply /\ stored.supply \in Nat
    BY <1>1 DEF Inv, FigureInv, True, Truthful, TypeOK, Figure
  <2>5. Cardinality(Holding) \in Nat /\ Cardinality(stored.seen) \in Nat
    BY <1>1, ClaimAssumption, FS_Subset, FS_CardinalityType
       DEF Holding, TypeOK, Figure
  <2>6. Cardinality(Holding) + Cardinality(stored.seen) + 1 <= supply + Limit
    BY <1>1, <1>3, <2>1, <2>4, <2>5, BoundAssumption
       DEF ReserveGrant, Fits, Stock
  <2>7. Cardinality(Promised') <= supply' + Limit
    BY <1>1, <1>2, <2>3, <2>5, <2>6, BoundAssumption
  <2> QED BY <2>7 DEF NoOversell
<1>4. CASE ~ReserveGrant
  <2>1. Promised' \subseteq Promised
    <3>1. ASSUME NEW c \in Claim, Commit(c) \/ Release(c)
          PROVE  Promised' \subseteq Promised
      BY <1>1, <3>1 DEF Commit, Release, Promised, TypeOK
    <3>2. claim' = claim => Promised' \subseteq Promised
      BY DEF Promised
    <3>3. ASSUME \A c \in Claim : ~Commit(c) /\ ~Release(c)
          PROVE  claim' = claim
      BY <1>4, <3>3
         DEF Next, vars, Tick, Restock, ReserveRead, Land, Stamp, ProbeStart,
             ReserveEnds, ReadStart, ReadAnswer, ReadLost, ReadApply,
             ReconcileHandoffs, ProbeAnswer, ProbeJudge, ProbeEnds, ledgerVars
    <3> QED BY <3>1, <3>2, <3>3
  <2>2. IsFiniteSet(Promised') /\ Cardinality(Promised') <= Cardinality(Promised)
    BY <1>2, <2>1, FS_Subset
  <2>3. Cardinality(Promised') \in Nat
    BY <2>2, FS_CardinalityType
  <2> QED BY <1>1, <1>2, <2>2, <2>3, BoundAssumption DEF NoOversell
<1> QED BY <1>3, <1>4

\* Between processes whose clocks agree, the selling limit holds whatever
\* reservations, settlements, reads and handoffs do to each other
\* (reserveOrderCapacity under the VariantMirror row lock).
THEOREM LimitHolds == ASSUME Skew = 0 PROVE Spec => []NoOversell
<1>1. Init => NoOversell
  <2> SUFFICES ASSUME Init
               PROVE  Cardinality(Promised) <= supply + Limit
    BY DEF NoOversell
  <2>1. Promised = {} /\ supply \in Nat
    BY BoundAssumption DEF Init, Promised
  <2> QED BY <2>1, FS_EmptySet, BoundAssumption
<1>2. Inv /\ NoOversell /\ [Next]_vars => NoOversell'
  BY MirroredSeen, LimitKept
<1> QED BY <1>1, <1>2, FiguresTruthful, PTL DEF Spec

\* With a margin that covers the clocks' disagreement, the live figure and what
\* readPendingHeldQuantities reports account for every unit promised to others.
THEOREM LiveFigureComplete == ASSUME Skew <= Margin PROVE Spec => LiveFigureCountsAll
<1>1. ASSUME Inv, [Next]_vars, probe.pc = "answered", probe'.pc = "judged"
      PROVE  Promised \ {probe.self} \subseteq probe'.got.seen \cup probe'.pending
  <2>1. ProbeJudge
    BY <1>1 DEF Next, vars, Tick, Restock, ReserveRead, ReserveGrant, ReserveEnds,
                Land, Stamp, Commit, Release, ProbeStart, ReadStart, ReadAnswer,
                ReadLost, ReadApply, ReconcileHandoffs, ProbeAnswer, ProbeEnds,
                IdleProbe, Inv, TypeOK
  <2>2. probe'.got = probe.got /\ probe'.pending = Pending(probe.got.at) \ {probe.self}
    BY <1>1, <2>1 DEF ProbeJudge, Inv, TypeOK
  <2> SUFFICES ASSUME NEW c \in Promised, c # probe.self
               PROVE  c \in probe.got.seen \/ c \in Pending(probe.got.at)
    BY <2>2
  <2>3. c \in Claim /\ stamp[c] \in Int /\ probe.got.at \in Int
    BY <1>1 DEF Promised, Inv, TypeOK, Figure
  <2>4. CASE claim[c] = "held"
    BY <2>3, <2>4 DEF Pending
  <2>5. CASE claim[c] = "committed" /\ ~(stamp[c] >= probe.got.at - Margin)
    <3>1. stamp[c] # -1
      BY <1>1, <2>3, <2>5 DEF Inv, ClaimInv
    <3>2. stamp[c] + Skew < probe.got.at
      BY <2>3, <2>5, BoundAssumption
    <3> QED BY <1>1, <2>3, <3>1, <3>2 DEF Inv, FigureInv, True, Truthful
  <2> QED BY <2>3, <2>4, <2>5 DEF Promised, Pending
<1>2. Inv /\ [Next]_vars => [probe.pc = "answered" /\ probe'.pc = "judged" =>
        Promised \ {probe.self} \subseteq probe'.got.seen \cup probe'.pending]_probe
  BY <1>1
<1> QED BY <1>2, FiguresTruthful, PTL DEF Spec, LiveFigureCountsAll

-----------------------------------------------------------------------------
(* The ledger follows the promise of HoldLedger.                           *)

\* Each unit is seen as an order of one line.
Ledger == INSTANCE HoldLedger WITH
  Order <- Claim, Variant <- {"unit"},
  claim <- [c \in Claim |-> [v \in {"unit"} |-> claim[c]]],
  remote <- [c \in Claim |-> c \in remote]

LedgerSpec == Ledger!Spec

\* What a step may do to one claim.
ClaimMoves(c) ==
  \/ claim'[c] = claim[c] /\ (c \in remote' <=> c \in remote)
  \/ claim[c] = "none" /\ claim'[c] = "held" /\ c \notin remote /\ c \notin remote'
  \/ claim[c] = "held" /\ claim'[c] = "held" /\ c \notin remote /\ c \in remote'
  \/ claim[c] = "held" /\ claim'[c] = "committed" /\ c \in remote /\ c \in remote'
  \/ claim[c] = "held" /\ claim'[c] = "released" /\ c \notin remote /\ c \notin remote'

LEMMA EveryClaimMoves ==
  ASSUME Inv, [Next]_vars, NEW c \in Claim
  PROVE  ClaimMoves(c)
<1> USE DEF Inv, ClaimMoves
<1>0. claim \in [Claim -> {"none", "held", "committed", "released"}]
  BY DEF TypeOK
<1>1. CASE UNCHANGED <<claim, remote>>
  BY <1>1
<1>2. CASE ReserveGrant
  <2>1. gate \in Claim /\ claim[gate] = "none" /\ remote' = remote
    BY <1>2 DEF TypeOK, GateInv, ReserveGrant
  <2>2. gate \notin remote
    BY <2>1 DEF ClaimInv
  <2>3. claim'[c] = IF c = gate THEN "held" ELSE claim[c]
    BY <1>0, <1>2 DEF ReserveGrant
  <2> QED BY <2>1, <2>2, <2>3
<1>3. ASSUME NEW d \in Claim, Land(d)
      PROVE  ClaimMoves(c)
  BY <1>3 DEF Land
<1>4. ASSUME NEW d \in Claim, Commit(d)
      PROVE  ClaimMoves(c)
  <2>1. d \in remote
    BY <1>4 DEF Commit, ClaimInv
  <2>2. claim'[c] = IF c = d THEN "committed" ELSE claim[c]
    BY <1>0, <1>4 DEF Commit
  <2> QED BY <1>4, <2>1, <2>2 DEF Commit
<1>5. ASSUME NEW d \in Claim, Release(d)
      PROVE  ClaimMoves(c)
  <2>1. claim'[c] = IF c = d THEN "released" ELSE claim[c]
    BY <1>0, <1>5 DEF Release
  <2> QED BY <1>5, <2>1 DEF Release
<1>6. ASSUME Next
      PROVE  \/ UNCHANGED <<claim, remote>> \/ ReserveGrant
             \/ \E d \in Claim : Land(d) \/ Commit(d) \/ Release(d)
  BY <1>6 DEF Next, Tick, Restock, ReserveEnds, ReserveRead, Stamp, ProbeStart,
              ReadStart, ReadAnswer, ReadLost, ReadApply, Applied,
              ReconcileHandoffs, ProbeAnswer, ProbeJudge, ProbeEnds, ledgerVars
<1>7. CASE UNCHANGED vars
  BY <1>1, <1>7 DEF vars
<1> QED BY <1>1, <1>2, <1>3, <1>4, <1>5, <1>6, <1>7

\* A move of one claim is a step of the abstract ledger.
LEMMA MoveImplements ==
  ASSUME NEW c \in Claim, ClaimMoves(c)
  PROVE  \/ Ledger!Reserve(c) \/ Ledger!Land(c)
         \/ Ledger!Commit(c) \/ Ledger!Release(c)
<1>1. CASE claim'[c] = claim[c] /\ (c \in remote' <=> c \in remote)
  BY <1>1 DEF Ledger!Commit, Ledger!Release, Ledger!Settle
<1>2. CASE claim[c] = "none" /\ claim'[c] = "held" /\ c \notin remote /\ c \notin remote'
  <2>1. (c \in remote) = FALSE /\ (c \in remote') = FALSE
    BY <1>2
  <2> QED BY <1>2, <2>1 DEF Ledger!Reserve
<1>3. CASE claim[c] = "held" /\ claim'[c] = "held" /\ c \notin remote /\ c \in remote'
  BY <1>3 DEF Ledger!Land
<1>4. CASE claim[c] = "held" /\ claim'[c] = "committed" /\ c \in remote /\ c \in remote'
  BY <1>4 DEF Ledger!Commit, Ledger!Settle
<1>5. CASE claim[c] = "held" /\ claim'[c] = "released" /\ c \notin remote /\ c \notin remote'
  <2>1. (c \in remote) = FALSE /\ (c \in remote') = FALSE
    BY <1>5
  <2> QED BY <1>5, <2>1 DEF Ledger!Release, Ledger!Settle
<1> QED BY <1>1, <1>2, <1>3, <1>4, <1>5 DEF ClaimMoves

\* The variant's ledger implements the abstract one, unit by unit: a unit is
\* claimed before its order exists at Pancake, committed only behind that order,
\* and given back only when there is none.  CheckoutProtocol keeps the same
\* promise (ImplementsLedger of CheckoutLedgerProofs), so what is proved here of
\* claims is about claims decided the way the checkout decides them.
THEOREM MirrorImplementsLedger == Spec => LedgerSpec
<1>1. ASSUME Init
      PROVE  Ledger!Init
  <2>1. \A c \in Claim : claim[c] = "none" /\ (c \in remote) = FALSE
    BY <1>1 DEF Init
  <2>2. [c \in Claim |-> c \in remote] = [c \in Claim |-> FALSE]
    BY Zenon, <2>1
  <2>3. [c \in Claim |-> [v \in {"unit"} |-> claim[c]]]
          = [c \in Claim |-> [v \in {"unit"} |-> "none"]]
    BY Zenon, <2>1
  <2> QED BY Zenon, <2>2, <2>3 DEF Ledger!Init
<1>2. ASSUME Inv, Inv', [Next]_vars
      PROVE  [Ledger!Next]_(Ledger!vars)
  <2>1. \A c \in Claim : \/ Ledger!Reserve(c) \/ Ledger!Land(c)
                         \/ Ledger!Commit(c) \/ Ledger!Release(c)
    BY <1>2, EveryClaimMoves, MoveImplements
  <2>2. claim' \in [Claim -> {"none", "held", "committed", "released"}]
    BY <1>2 DEF Inv, TypeOK
  <2>3. Ledger!Next
    BY <2>1, <2>2 DEF Ledger!Next, Ledger!ClaimState
  <2> QED BY <2>3
<1> QED BY <1>1, <1>2, FiguresTruthful, PTL DEF Spec, LedgerSpec, Ledger!Spec

=============================================================================
