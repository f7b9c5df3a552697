------------------------- MODULE OfflineQueue_proofs -------------------------
(***************************************************************************)
(* What the offline queue can be relied on, for any number of presses,     *)
(* runs of syncNow, screens and kills, whichever presses delete.           *)
(***************************************************************************)
EXTENDS OfflineQueue, FiniteSetTheorems, WellFoundedInduction, TLAPS

-----------------------------------------------------------------------------
(* Presses are numbers: a nonempty list has a first entry.                 *)
LEMMA LeastOfWellFounded ==
  ASSUME NEW S \in SUBSET Nat, S # {}, NEW R, IsWellFoundedOn(R, Nat),
         \A x, y \in Nat : y < x => <<y, x>> \in R
  PROVE  \E x \in S : \A y \in S : x <= y
<1>1. PICK x \in S : \A y \in S : ~ (<<y, x>> \in R)
  BY WFMin
<1>2. ASSUME NEW y \in S PROVE x <= y
  <2>1. x \in Nat /\ y \in Nat
    OBVIOUS
  <2>2. y < x => <<y, x>> \in R
    BY <2>1, Zenon
  <2>3. ~ (y < x)
    BY <1>1, <2>2, Zenon
  <2> QED BY <2>1, <2>3
<1> QED BY <1>2

\* The entry that syncNow sends next is one of the list.
LEMMA MinIsMember ==
  ASSUME NEW S \in SUBSET Presses, S # {}
  PROVE  Min(S) \in S
<1>1. \A x, y \in Nat : y < x => <<y, x>> \in OpToRel(<, Nat)
  BY DEF OpToRel
<1>2. IsWellFoundedOn(OpToRel(<, Nat), Nat)
  BY NatLessThanWellFounded
<1>3. S \in SUBSET Nat
  BY BoundsAssumption DEF Presses
<1>4. \E x \in S : \A y \in S : x <= y
  BY <1>1, <1>2, <1>3, LeastOfWellFounded
<1> QED BY <1>4 DEF Min

\* A list has a length.
LEMMA CountsAreNumbers ==
  ASSUME NEW S \in SUBSET Presses
  PROVE  Cardinality(S) \in Nat
<1>1. IsFiniteSet(Presses)
  BY FS_Interval, BoundsAssumption DEF Presses
<1>2. IsFiniteSet(S)
  BY <1>1, FS_Subset
<1> QED BY <1>2, FS_CardinalityType

-----------------------------------------------------------------------------
\* A press is a number that a caller may have.
LEMMA PressesAreNumbers == \A n \in Presses : n \in 0..MaxPresses
BY BoundsAssumption DEF Presses

(* What a caller has in hand: the press it is calling for, and what it is  *)
(* still to send.                                                          *)
Holds ==
  [c \in Callers |-> work[c].todo \cup {n \in Presses : Calling(c) /\ n = work[c].press}]

(* A caller at work has a press, which is no longer among what it is still *)
(* to send; only runs of syncNow have more than one.                       *)
Shape ==
  /\ \A c \in Callers :
       IF work[c].at = "idle" THEN work[c].todo = {}
       ELSE work[c].press \in Presses \ work[c].todo
  /\ work[Button].todo = {}

WellShaped(w) ==
  /\ w \in Work
  /\ IF w.at = "idle" THEN w.todo = {} ELSE w.press \in Presses \ w.todo

\* What a caller turns to is its own affair.
LEMMA OneTurns ==
  ASSUME TypeOK, Shape, NEW c \in Callers, NEW w, WellShaped(w), c = Button => w.todo = {},
         work' = [work EXCEPT ![c] = w]
  PROVE  /\ work' \in [Callers -> Work]
         /\ Shape'
         /\ work'[c] = w
         /\ \A d \in Callers \ {c} : work'[d] = work[d] /\ Holds'[d] = Holds[d]
<1>1. work' \in [Callers -> Work]
  BY DEF TypeOK, WellShaped
<1>2. work'[c] = w /\ \A d \in Callers \ {c} : work'[d] = work[d]
  BY DEF TypeOK
<1>3. Shape'
  BY <1>2 DEF Shape, WellShaped, Callers
<1>4. \A d \in Callers \ {c} : Holds'[d] = Holds[d]
  BY <1>2 DEF Holds, Calling
<1> QED BY <1>1, <1>2, <1>3, <1>4

\* So is a caller at rest.
LEMMA IdleIsWellShaped == WellShaped(Idle)
BY BoundsAssumption DEF WellShaped, Idle, Work

\* A run of syncNow that sends holds exactly what it was to send.
LEMMA SendHolds ==
  ASSUME TypeOK, Shape, NEW s \in Syncs, NEW list \in SUBSET Presses, NEW of \in Nat,
         Send(s, list, of)
  PROVE  /\ work' \in [Callers -> Work]
         /\ Shape'
         /\ \A c \in Callers \ {s} : work'[c] = work[c] /\ Holds'[c] = Holds[c]
         /\ Holds'[s] = list
         /\ work'[s].at \in {"idle", "out"}
<1> DEFINE first == Min(list)
           next == IF list = {} THEN Idle
                   ELSE [at |-> "out", press |-> first, todo |-> list \ {first}, page |-> of]
<1>1. work' = [work EXCEPT ![s] = next]
  BY DEF Send
<1>2. list # {} => first \in list
  BY MinIsMember
<1> HIDE DEF first
<1>3. WellShaped(next)
  <2>1. CASE list = {}
    BY <2>1, IdleIsWellShaped
  <2>2. CASE list # {}
    <3>1. first \in Presses
      BY <1>2, <2>2, Zenon
    <3> first \in 0..MaxPresses
      BY <3>1, PressesAreNumbers, Zenon
    <3>2. next = [at |-> "out", press |-> first, todo |-> list \ {first}, page |-> of]
      BY <2>2
    <3>3. list \ {first} \in SUBSET Presses
      OBVIOUS
    <3> HIDE DEF next
    <3> QED BY <3>1, <3>2, <3>3 DEF WellShaped, Work
  <2> QED BY <2>1, <2>2
<1>4. s \in Callers /\ s # Button
  BY ButtonAssumption DEF Callers
<1>5. next.at \in {"idle", "out"}
  BY DEF Idle
<1>6. list = {n \in Presses : n \in next.todo \/ (next.at = "out" /\ n = next.press)}
  BY <1>2 DEF Idle
<1> HIDE DEF next
<1>7. /\ work' \in [Callers -> Work] /\ Shape' /\ work'[s] = next
      /\ \A c \in Callers \ {s} : work'[c] = work[c] /\ Holds'[c] = Holds[c]
  BY <1>1, <1>3, <1>4, OneTurns
<1>8. Holds'[s] = list
  <2>1. next.todo \in SUBSET Presses
    BY <1>3 DEF WellShaped, Work
  <2>2. Holds'[s] = next.todo \cup {n \in Presses : next.at \in {"out", "applied", "refused"}
                                                    /\ n = next.press}
    BY <1>4, <1>7 DEF Holds, Calling
  <2> QED BY <1>5, <1>6, <2>1, <2>2
<1> QED BY <1>5, <1>7, <1>8

-----------------------------------------------------------------------------
(* Steps preserve the types and the shape of who is at work.               *)
WriteType == [by : Callers, press : 0..MaxPresses, list : SUBSET Presses]

\* An outcome concerns a press, and sends nothing else to the server.
LEMMA OutcomeTypes ==
  ASSUME TypeOK, Shape, NEW c \in Callers, NEW result \in Results, Outcome(c, result)
  PROVE  /\ work[c].press \in Presses \ work[c].todo
         /\ work[c].todo \in SUBSET Presses
         /\ work[c].page \in Nat
         /\ wire' \in SUBSET Presses
         /\ wire' \subseteq wire \cup {work[c].press}
<1>1. work[c] \in Work /\ work[c].at # "idle"
  BY DEF TypeOK, Outcome, Calling
<1>2. work[c].press \in Presses \ work[c].todo
  BY <1>1 DEF Shape
<1>3. wire' = wire \/ wire' = wire \cup {work[c].press}
  BY DEF Outcome
<1> QED BY <1>1, <1>2, <1>3 DEF TypeOK, Work

\* Saving a list of presses.
LEMMA SaveTypes ==
  ASSUME TypeOK, Shape, NEW c \in Callers, Calling(c), NEW list \in SUBSET Presses,
         Save(c, list)
  PROVE  /\ queue' \in SUBSET Presses
         /\ writes' \in Seq(WriteType)
         /\ work' \in [Callers -> Work]
         /\ Shape'
         /\ \A d \in Callers \ {c} : work'[d] = work[d] /\ Holds'[d] = Holds[d]
         /\ Holds'[c] = work[c].todo
         /\ work'[c].at = "saving"
<1> DEFINE next == [work[c] EXCEPT !.at = "saving"]
<1>1. /\ work[c] \in Work /\ work[c].at # "idle"
      /\ work[c].press \in Presses \ work[c].todo
  BY DEF TypeOK, Calling, Shape
<1>2. WellShaped(next) /\ next.todo = work[c].todo /\ next.at = "saving"
  BY <1>1 DEF WellShaped, Work
<1>3. work' = [work EXCEPT ![c] = next]
  BY DEF Save
<1>4. c = Button => next.todo = {}
  BY <1>2 DEF Shape
<1> HIDE DEF next
<1>5. /\ work' \in [Callers -> Work] /\ Shape' /\ work'[c] = next
      /\ \A d \in Callers \ {c} : work'[d] = work[d] /\ Holds'[d] = Holds[d]
  BY <1>2, <1>3, <1>4, OneTurns
<1>6. Holds'[c] = work[c].todo
  BY <1>2, <1>5 DEF Holds, Calling
<1>7. [by |-> c, press |-> work[c].press, list |-> list] \in WriteType
  BY <1>1 DEF WriteType, Work
<1>8. writes \in Seq(WriteType)
  BY DEF TypeOK, WriteType
<1>9. writes' \in Seq(WriteType) /\ queue' \in SUBSET Presses
  BY <1>7, <1>8 DEF Save
<1> QED BY <1>2, <1>5, <1>6, <1>9

\* The count of a screen is a number.
LEMMA RefreshTypes ==
  ASSUME TypeOK, queue' \in SUBSET Presses, NEW list, NEW of, Refresh(list, of)
  PROVE  count' \in Nat
BY CountsAreNumbers DEF Refresh, TypeOK

\* Where a caller is in its call changes, and nothing else about it.
LEMMA TurnTypes ==
  ASSUME TypeOK, Shape, NEW c \in Callers, work[c].at = "out",
         NEW now \in {"applied", "refused"}, work' = [work EXCEPT ![c].at = now]
  PROVE  /\ work' \in [Callers -> Work]
         /\ Shape'
         /\ \A d \in Callers : Holds'[d] = Holds[d]
         /\ \A d \in Callers \ {c} : work'[d] = work[d]
         /\ work'[c].at = now /\ work'[c].press = work[c].press
         /\ work[c].press \in Presses
<1> DEFINE next == [work[c] EXCEPT !.at = now]
<1>1. work[c] \in Work /\ work[c].press \in Presses \ work[c].todo
  BY DEF TypeOK, Shape
<1>2. /\ WellShaped(next) /\ next.todo = work[c].todo /\ next.press = work[c].press
      /\ next.at = now
  BY <1>1 DEF WellShaped, Work
<1>3. work' = [work EXCEPT ![c] = next]
  OBVIOUS
<1>4. c = Button => next.todo = {}
  BY <1>2 DEF Shape
<1> HIDE DEF next
<1>5. /\ work' \in [Callers -> Work] /\ Shape' /\ work'[c] = next
      /\ \A d \in Callers \ {c} : work'[d] = work[d] /\ Holds'[d] = Holds[d]
  BY <1>2, <1>3, <1>4, OneTurns
<1>6. Holds'[c] = Holds[c]
  BY <1>2, <1>5 DEF Holds, Calling
<1> QED BY <1>1, <1>2, <1>5, <1>6

\* The button falls idle, or a sync does, by an answer that ends its business.
LEMMA RestTypes ==
  ASSUME TypeOK, Shape, NEW c \in Callers, work' = [work EXCEPT ![c] = Idle]
  PROVE  /\ work' \in [Callers -> Work]
         /\ Shape'
         /\ \A d \in Callers \ {c} : work'[d] = work[d] /\ Holds'[d] = Holds[d]
         /\ Holds'[c] = {}
         /\ work'[c] = Idle
<1>1. WellShaped(Idle) /\ Idle.todo = {}
  BY IdleIsWellShaped DEF Idle
<1>2. /\ work' \in [Callers -> Work] /\ Shape' /\ work'[c] = Idle
      /\ \A d \in Callers \ {c} : work'[d] = work[d] /\ Holds'[d] = Holds[d]
  BY <1>1, OneTurns
<1>3. Holds'[c] = {}
  BY <1>2 DEF Holds, Calling, Idle
<1> QED BY <1>2, <1>3

\* A run of syncNow that is cut off is at rest.
LEMMA BreakTypes ==
  ASSUME TypeOK, Shape, NEW s \in Syncs, SyncBreaksOff(s)
  PROVE  /\ work' \in [Callers -> Work]
         /\ Shape'
         /\ \A d \in Callers \ {s} : work'[d] = work[d] /\ Holds'[d] = Holds[d]
         /\ Holds'[s] = {}
         /\ work'[s] = Idle
         /\ doubt' \in SUBSET Presses
         /\ doubt \subseteq doubt'
<1>1. s \in Callers /\ work' = [work EXCEPT ![s] = Idle]
  BY DEF SyncBreaksOff, Callers
<1>2. work[s].press \in Presses
  BY <1>1 DEF SyncBreaksOff, Shape
<1>3. doubt' \in SUBSET Presses /\ doubt \subseteq doubt'
  BY <1>2 DEF SyncBreaksOff, TypeOK
<1> QED BY <1>1, <1>3, RestTypes

\* A button that is cut off keeps its press, and will not hear of it.
LEMMA StuckTypes ==
  ASSUME TypeOK, Shape, ButtonBreaksOff
  PROVE  /\ work' \in [Callers -> Work]
         /\ Shape'
         /\ \A d \in Callers \ {Button} : work'[d] = work[d] /\ Holds'[d] = Holds[d]
         /\ Holds'[Button] = {}
         /\ work'[Button].at = "stuck"
<1> DEFINE next == [work[Button] EXCEPT !.at = "stuck"]
<1>1. /\ Button \in Callers
      /\ work[Button] \in Work /\ work[Button].press \in Presses \ work[Button].todo
      /\ work[Button].todo = {}
  BY DEF ButtonBreaksOff, TypeOK, Shape, Callers
<1>2. WellShaped(next) /\ next.todo = {} /\ next.at = "stuck"
  BY <1>1 DEF WellShaped, Work
<1>3. work' = [work EXCEPT ![Button] = next]
  BY DEF ButtonBreaksOff
<1> HIDE DEF next
<1>4. /\ work' \in [Callers -> Work] /\ Shape' /\ work'[Button] = next
      /\ \A d \in Callers \ {Button} : work'[d] = work[d] /\ Holds'[d] = Holds[d]
  BY <1>1, <1>2, <1>3, OneTurns
<1>5. Holds'[Button] = {}
  BY <1>1, <1>2, <1>4 DEF Holds, Calling
<1> QED BY <1>2, <1>4, <1>5

\* The server carries out a press.
LEMMA CarryOutTypes ==
  ASSUME TypeOK, NEW n \in Presses, CarryOut(n)
  PROVE  /\ applied' \in [Presses -> 0..2]
         /\ \A m \in Presses \ {n} : applied'[m] = applied[m]
         /\ applied'[n] > 0
         /\ applied[n] = 0 => applied'[n] = 1
BY DEF TypeOK, CarryOut

\* They hold at first.
LEMMA InitTypes == Init => TypeOK /\ Shape
<1> SUFFICES ASSUME Init PROVE TypeOK /\ Shape
  OBVIOUS
<1>1. work \in [Callers -> Work] /\ Shape
  BY IdleIsWellShaped DEF Init, Shape, WellShaped, Idle, Callers
<1>2. writes \in Seq(WriteType)
  BY DEF Init
<1> QED BY <1>1, <1>2, BoundsAssumption DEF Init, TypeOK, WriteType

\* Every step keeps them.
LEMMA StepTypes == TypeOK /\ Shape /\ [Next]_vars => TypeOK' /\ Shape'
<1> SUFFICES ASSUME TypeOK, Shape, [Next]_vars PROVE TypeOK' /\ Shape'
  OBVIOUS
<1>1. CASE OpenPage
  <2>1. count' \in Nat
    BY <1>1, CountsAreNumbers DEF OpenPage, TypeOK
  <2> QED BY <1>1, <2>1 DEF OpenPage, TypeOK, Shape
<1>2. CASE ClosePage
  <2>1. Button \in Callers
    BY DEF Callers
  <2>2. work' \in [Callers -> Work] /\ Shape'
    BY <1>2, <2>1, RestTypes DEF ClosePage
  <2>3. wire' \in SUBSET Presses
    BY <1>2, <2>1 DEF ClosePage, TypeOK, Shape
  <2> QED BY <1>2, <2>2, <2>3 DEF ClosePage, TypeOK
<1>3. CASE Press
  <2> DEFINE out == [at |-> "out", press |-> pressed + 1, todo |-> {}, page |-> page]
  <2>1. pressed + 1 \in Presses /\ pressed + 1 \in 0..MaxPresses
    BY <1>3, BoundsAssumption DEF Press, TypeOK, Presses
  <2>2. WellShaped(out) /\ out.todo = {}
    BY <2>1 DEF WellShaped, Work, TypeOK
  <2>3. Button \in Callers /\ work' = [work EXCEPT ![Button] = out]
    BY <1>3 DEF Press, Callers
  <2> HIDE DEF out
  <2>4. work' \in [Callers -> Work] /\ Shape'
    BY <2>2, <2>3, OneTurns
  <2> QED BY <1>3, <2>1, <2>4 DEF Press, TypeOK
<1>4. ASSUME NEW c \in Callers, Accept(c) PROVE TypeOK' /\ Shape'
  <2>1. work' \in [Callers -> Work] /\ Shape' /\ work[c].press \in Presses
    BY <1>4, TurnTypes DEF Accept
  <2>2. applied' \in [Presses -> 0..2]
    BY <1>4, <2>1, CarryOutTypes DEF Accept
  <2> QED BY <1>4, <2>1, <2>2 DEF Accept, TypeOK
<1>5. ASSUME NEW c \in Callers, Refuse(c) PROVE TypeOK' /\ Shape'
  <2>1. work' \in [Callers -> Work] /\ Shape'
    BY <1>5, TurnTypes DEF Refuse
  <2> QED BY <1>5, <2>1 DEF Refuse, TypeOK
<1>6. ASSUME NEW n \in Presses, AcceptLate(n) PROVE TypeOK' /\ Shape'
  <2>1. applied' \in [Presses -> 0..2]
    BY <1>6, CarryOutTypes DEF AcceptLate, TypeOK
  <2> QED BY <1>6, <2>1 DEF AcceptLate, TypeOK, Shape
<1>7. ASSUME NEW result \in Results, ButtonHears(result) PROVE TypeOK' /\ Shape'
  <2>1. Button \in Callers /\ Outcome(Button, result) /\ Calling(Button)
    BY <1>7 DEF ButtonHears, Callers, Outcome
  <2>2. work[Button].press \in Presses /\ wire' \in SUBSET Presses
    BY <2>1, OutcomeTypes
  <2>3. CASE result = "unreachable"
    <3>1. Save(Button, queue \cup {work[Button].press}) /\ doubt' \in SUBSET Presses
      BY <1>7, <2>2, <2>3 DEF ButtonHears, TypeOK
    <3>2. queue \cup {work[Button].press} \in SUBSET Presses
      BY <2>2 DEF TypeOK
    <3>3. /\ queue' \in SUBSET Presses /\ writes' \in Seq(WriteType)
          /\ work' \in [Callers -> Work] /\ Shape'
      BY <2>1, <3>1, <3>2, SaveTypes
    <3> QED BY <1>7, <2>2, <3>1, <3>3 DEF ButtonHears, TypeOK, WriteType
  <2>4. CASE result # "unreachable"
    <3>1. work' = [work EXCEPT ![Button] = Idle] /\ UNCHANGED <<queue, writes, doubt>>
      BY <1>7, <2>4 DEF ButtonHears
    <3>2. work' \in [Callers -> Work] /\ Shape'
      BY <2>1, <3>1, RestTypes
    <3> QED BY <1>7, <2>2, <3>1, <3>2 DEF ButtonHears, TypeOK
  <2> QED BY <2>3, <2>4
<1>8. ASSUME NEW result \in Results, NEW s \in Syncs, SyncHears(s, result)
      PROVE  TypeOK' /\ Shape'
  <2>1. s \in Callers /\ Outcome(s, result) /\ Calling(s)
    BY <1>8 DEF SyncHears, Callers, Outcome
  <2>2. /\ work[s].press \in Presses /\ wire' \in SUBSET Presses
        /\ work[s].todo \in SUBSET Presses /\ work[s].page \in Nat
    BY <2>1, OutcomeTypes
  <2>3. doubt' \in SUBSET Presses
    BY <1>8, <2>2 DEF SyncHears, TypeOK
  <2>4. CASE result = "success"
    <3>1. Save(s, queue \ {work[s].press}) /\ count' = count
      BY <1>8, <2>4 DEF SyncHears
    <3>2. queue \ {work[s].press} \in SUBSET Presses
      BY DEF TypeOK
    <3>3. /\ queue' \in SUBSET Presses /\ writes' \in Seq(WriteType)
          /\ work' \in [Callers -> Work] /\ Shape'
      BY <2>1, <3>1, <3>2, SaveTypes
    <3> QED BY <1>8, <2>2, <2>3, <3>1, <3>3 DEF SyncHears, TypeOK, WriteType
  <2>5. CASE result # "success"
    <3>1. /\ Send(s, work[s].todo, work[s].page) /\ UNCHANGED <<queue, writes>>
          /\ Refresh(work[s].todo, work[s].page)
      BY <1>8, <2>5 DEF SyncHears
    <3>2. work' \in [Callers -> Work] /\ Shape'
      BY <2>2, <3>1, SendHolds
    <3>3. count' \in Nat
      BY <3>1, RefreshTypes DEF TypeOK
    <3> QED BY <1>8, <2>2, <2>3, <3>1, <3>2, <3>3 DEF SyncHears, TypeOK
  <2> QED BY <2>4, <2>5
<1>9. ASSUME NEW s \in Syncs, SyncNow(s) PROVE TypeOK' /\ Shape'
  <2>1. Send(s, queue, page) /\ queue' = queue /\ Refresh(queue, page)
    BY <1>9 DEF SyncNow
  <2>2. queue \in SUBSET Presses /\ page \in Nat
    BY DEF TypeOK
  <2>3. work' \in [Callers -> Work] /\ Shape'
    BY <2>1, <2>2, SendHolds
  <2>4. count' \in Nat
    BY <2>1, <2>2, RefreshTypes
  <2>5. doubt' \in SUBSET Presses
    BY <1>9 DEF SyncNow, TypeOK
  <2> QED BY <1>9, <2>1, <2>3, <2>4, <2>5 DEF SyncNow, TypeOK
<1>10. CASE WriteDone
  <2> DEFINE w == Head(writes)
  <2> writes \in Seq(WriteType) /\ writes # <<>>
    BY <1>10 DEF WriteDone, TypeOK, WriteType
  <2>1. w \in WriteType /\ writes' \in Seq(WriteType) /\ disk' = w.list /\ queue' = queue
    BY <1>10 DEF WriteDone
  <2>2. w.by \in Callers /\ w.list \in SUBSET Presses
    BY <2>1 DEF WriteType
  <2>3. CASE UNCHANGED <<work, count, told>>
    BY <1>10, <2>1, <2>2, <2>3 DEF WriteDone, TypeOK, Shape, WriteType
  <2>4. CASE /\ w.by = Button /\ work[Button].at = "saving" /\ work[Button].press = w.press
             /\ work' = [work EXCEPT ![Button] = Idle]
             /\ count' = Cardinality(queue) /\ told' = told \cup {w.press}
    <3>1. work' \in [Callers -> Work] /\ Shape'
      BY <2>2, <2>4, RestTypes
    <3>2. count' \in Nat
      BY <2>4, CountsAreNumbers DEF TypeOK
    <3>3. told' \in SUBSET Presses
      BY <2>2, <2>4 DEF TypeOK, Shape
    <3> QED BY <1>10, <2>1, <2>2, <3>1, <3>2, <3>3 DEF WriteDone, TypeOK, WriteType
  <2>5. CASE /\ w.by \in Syncs /\ told' = told
             /\ Send(w.by, work[w.by].todo, work[w.by].page)
             /\ Refresh(work[w.by].todo, work[w.by].page)
    <3>1. work[w.by].todo \in SUBSET Presses /\ work[w.by].page \in Nat
      BY <2>2 DEF TypeOK, Work
    <3>2. work' \in [Callers -> Work] /\ Shape'
      BY <2>5, <3>1, SendHolds
    <3>3. count' \in Nat
      BY <2>1, <2>5, RefreshTypes DEF TypeOK
    <3> QED BY <1>10, <2>1, <2>2, <2>5, <3>2, <3>3 DEF WriteDone, TypeOK, WriteType
  <2> HIDE DEF w
  <2> QED BY <1>10, <2>2, <2>3, <2>4, <2>5 DEF WriteDone, w, Callers
<1>11. CASE Kill
  <2>1. work' \in [Callers -> Work] /\ Shape'
    BY <1>11, IdleIsWellShaped DEF Kill, Shape, Idle, WellShaped, Callers
  <2>2. \A c \in Callers : work[c].at = "out" \/ Calling(c) => work[c].press \in Presses
    BY DEF Shape, Calling
  <2>3. wire' \in SUBSET Presses /\ doubt' \in SUBSET Presses
    BY <1>11, <2>2 DEF Kill, TypeOK
  <2>4. writes' \in Seq(WriteType) /\ kills' \in 0..MaxKills
    BY <1>11, BoundsAssumption DEF Kill, TypeOK
  <2> QED BY <1>11, <2>1, <2>3, <2>4 DEF Kill, TypeOK, WriteType
<1>12. CASE UNCHANGED vars
  BY <1>12 DEF vars, TypeOK, Shape
<1>13. ASSUME NEW s \in Syncs, SyncBreaksOff(s) PROVE TypeOK' /\ Shape'
  BY <1>13, BreakTypes DEF SyncBreaksOff, TypeOK
<1>14. CASE ButtonBreaksOff
  BY <1>14, StuckTypes DEF ButtonBreaksOff, TypeOK
<1> QED BY <1>1, <1>2, <1>3, <1>4, <1>5, <1>6, <1>7, <1>8, <1>9, <1>10, <1>11, <1>12, <1>13, <1>14
        DEF Next, Results

\* Types are kept by every step: in particular only presses are queued, written or sent.
THEOREM QueueTypeOK == Spec => []TypeOK
<1>1. Init => TypeOK /\ Shape
  BY InitTypes
<1>2. TypeOK /\ Shape /\ [Next]_vars => TypeOK' /\ Shape'
  BY StepTypes
<1> QED BY <1>1, <1>2, PTL DEF Spec

-----------------------------------------------------------------------------
(* What was promised is kept: a list keeps a press that it holds, or that  *)
(* the server has carried out.  The memory, the disk and every list yet to *)
(* be written keep all that was promised, and those from a button's write  *)
(* on keep the press that it is about to promise.                          *)
Keeps(list, n) == n \in list \/ applied[n] > 0

PromisesKept ==
  /\ \A n \in told : Keeps(disk, n) /\ Keeps(queue, n)
  /\ \A n \in told, i \in DOMAIN writes : Keeps(writes[i].list, n)

NextPromiseKept ==
  \A i \in DOMAIN writes :
    writes[i].by = Button =>
      /\ writes[i].press \in Presses
      /\ Keeps(queue, writes[i].press)
      /\ \A j \in DOMAIN writes : i <= j => Keeps(writes[j].list, writes[i].press)

AppliedIsCarriedOut ==
  \A c \in Callers : work[c].at = "applied" => applied[work[c].press] > 0

KeptInv == PromisesKept /\ NextPromiseKept /\ AppliedIsCarriedOut

\* The server never takes back what it has carried out.
Grows == \A n \in Presses : applied[n] > 0 => applied'[n] > 0

\* A step that leaves the queue, the disk and the promises alone.
LEMMA QuietKeeps ==
  ASSUME TypeOK, Shape, TypeOK', PromisesKept, NextPromiseKept, Grows,
         UNCHANGED <<queue, disk, writes, told>>
  PROVE  PromisesKept' /\ NextPromiseKept'
<1>1. ASSUME NEW n \in Presses, NEW list, Keeps(list, n) PROVE Keeps(list, n)'
  BY <1>1 DEF Keeps, Grows
<1>2. PromisesKept'
  <2>1. ASSUME NEW n \in told PROVE Keeps(disk, n)' /\ Keeps(queue, n)'
    BY <1>1, <2>1 DEF PromisesKept, Keeps, TypeOK, Grows
  <2>2. ASSUME NEW n \in told, NEW i \in DOMAIN writes PROVE Keeps(writes[i].list, n)'
    BY <2>2 DEF PromisesKept, Keeps, TypeOK, Grows
  <2> QED BY <2>1, <2>2 DEF PromisesKept
<1>3. NextPromiseKept'
  BY DEF NextPromiseKept, Keeps, Grows
<1> QED BY <1>2, <1>3

\* A list is saved that keeps what the memory kept, and the button's own press.
LEMMA SaveKeeps ==
  ASSUME TypeOK, Shape, PromisesKept, NextPromiseKept,
         NEW c \in Callers, NEW list \in SUBSET Presses, Calling(c), Save(c, list),
         \A n \in Presses : Keeps(queue, n) => Keeps(list, n),
         c = Button => work[c].press \in list,
         UNCHANGED <<disk, told, applied>>
  PROVE  PromisesKept' /\ NextPromiseKept'
<1> DEFINE w == [by |-> c, press |-> work[c].press, list |-> list]
           last == Len(writes) + 1
<1>1. queue' = list /\ writes' = Append(writes, w)
  BY DEF Save
<1>2. w.by = c /\ w.press = work[c].press /\ w.list = list /\ w.press \in Presses
  BY DEF Shape, Calling
<1> HIDE DEF w
<1> writes \in Seq(WriteType)
  BY DEF TypeOK, WriteType
<1>3. /\ DOMAIN writes' = DOMAIN writes \cup {last}
      /\ last \notin DOMAIN writes /\ \A i \in DOMAIN writes : ~(last <= i) /\ i \in Nat
      /\ writes'[last] = w
      /\ \A i \in DOMAIN writes : writes'[i] = writes[i]
  BY <1>1
<1> HIDE DEF last
<1>4. \A n, l : Keeps(l, n)' <=> n \in l' \/ applied[n] > 0
  BY DEF Keeps
<1>5. PromisesKept'
  <2>1. \A n \in told : Keeps(disk, n)' /\ Keeps(queue, n)' /\ Keeps(list, n)
    BY <1>1 DEF PromisesKept, Keeps, TypeOK
  <2>2. ASSUME NEW n \in told, NEW i \in DOMAIN writes'
        PROVE  Keeps(writes[i].list, n)'
    BY <1>2, <1>3, <2>1, <2>2 DEF PromisesKept, Keeps
  <2> QED BY <2>1, <2>2 DEF PromisesKept
<1>6. NextPromiseKept'
  <2> SUFFICES ASSUME NEW i \in DOMAIN writes', writes'[i].by = Button
               PROVE  /\ writes'[i].press \in Presses
                      /\ Keeps(list, writes'[i].press)
                      /\ \A j \in DOMAIN writes' : i <= j => Keeps(writes'[j].list, writes'[i].press)
    BY <1>1 DEF NextPromiseKept, Keeps
  <2>1. CASE i = last
    BY <1>2, <1>3, <2>1 DEF Keeps
  <2>2. CASE i \in DOMAIN writes
    BY <1>2, <1>3, <2>2 DEF NextPromiseKept
  <2> QED BY <1>3, <2>1, <2>2
<1> QED BY <1>5, <1>6

\* The first write happens; a button's promises what its list and the later ones keep.
LEMMA WriteKeeps ==
  ASSUME TypeOK, Shape, PromisesKept, NextPromiseKept, WriteDone
  PROVE  PromisesKept' /\ NextPromiseKept'
<1> DEFINE w == Head(writes)
<1> writes \in Seq(WriteType) /\ writes # <<>>
  BY DEF WriteDone, TypeOK, WriteType
<1>1. disk' = w.list /\ writes' = Tail(writes) /\ queue' = queue /\ applied' = applied
  BY DEF WriteDone
<1>2. 1 \in DOMAIN writes /\ w = writes[1]
  OBVIOUS
<1>3. told' = told \/ (w.by = Button /\ told' = told \cup {w.press})
  <2>1. w \in WriteType
    OBVIOUS
  <2>2. w.by = Button \/ w.by \in Syncs
    BY <2>1 DEF WriteType, Callers
  <2> QED BY <2>2 DEF WriteDone
<1>4. ASSUME NEW i \in DOMAIN writes'
      PROVE  i + 1 \in DOMAIN writes /\ writes'[i] = writes[i + 1] /\ 1 <= i + 1 /\ i \in Nat
  BY <1>1, <1>4
<1> HIDE DEF w
<1>5. ASSUME NEW n \in told'
      PROVE  Keeps(queue, n) /\ \A j \in DOMAIN writes : Keeps(writes[j].list, n)
  <2>1. CASE n \in told
    BY <2>1 DEF PromisesKept
  <2>2. CASE w.by = Button /\ n = w.press
    BY <1>2, <2>2 DEF NextPromiseKept
  <2> QED BY <1>3, <1>5, <2>1, <2>2
<1>6. PromisesKept'
  <2>1. ASSUME NEW n \in told' PROVE Keeps(disk, n)' /\ Keeps(queue, n)'
    BY <1>1, <1>2, <1>5, <2>1 DEF Keeps
  <2>2. ASSUME NEW n \in told', NEW i \in DOMAIN writes' PROVE Keeps(writes[i].list, n)'
    <3>1. Keeps(writes[i + 1].list, n)
      BY <1>4, <1>5, <2>2
    <3> QED BY <1>1, <1>4, <2>2, <3>1 DEF Keeps
  <2> QED BY <2>1, <2>2 DEF PromisesKept
<1>7. NextPromiseKept'
  <2> SUFFICES ASSUME NEW i \in DOMAIN writes', writes'[i].by = Button
               PROVE  /\ writes'[i].press \in Presses
                      /\ Keeps(queue, writes'[i].press)
                      /\ \A j \in DOMAIN writes' : i <= j => Keeps(writes'[j].list, writes'[i].press)
    BY <1>1 DEF NextPromiseKept, Keeps
  <2>1. /\ writes'[i].press \in Presses
        /\ Keeps(queue, writes'[i].press)
        /\ \A j \in DOMAIN writes : i + 1 <= j => Keeps(writes[j].list, writes'[i].press)
    BY <1>4 DEF NextPromiseKept
  <2>2. ASSUME NEW j \in DOMAIN writes', i <= j
        PROVE  Keeps(writes'[j].list, writes'[i].press)
    <3>1. j + 1 \in DOMAIN writes /\ writes'[j] = writes[j + 1] /\ i + 1 <= j + 1
      BY <1>4, <2>2
    <3> QED BY <2>1, <3>1
  <2> QED BY <2>1, <2>2
<1> QED BY <1>6, <1>7

\* A kill loses the lists that were yet to be written, and promises nothing.
LEMMA KillKeeps ==
  ASSUME PromisesKept, NextPromiseKept, Kill
  PROVE  PromisesKept' /\ NextPromiseKept'
<1>1. queue' = disk /\ disk' = disk /\ writes' = <<>> /\ told' = told /\ applied' = applied
  BY DEF Kill
<1>2. DOMAIN writes' = {}
  BY <1>1
<1> QED BY <1>1, <1>2 DEF PromisesKept, NextPromiseKept, Keeps

\* Nobody takes back what the server has carried out, or believes it before it has.
LEMMA CarriedOutStays ==
  ASSUME TypeOK, Shape, AppliedIsCarriedOut, [Next]_vars
  PROVE  Grows /\ AppliedIsCarriedOut'
<1>1. ASSUME NEW c \in Callers, Accept(c) PROVE Grows /\ AppliedIsCarriedOut'
  <2>1. /\ \A d \in Callers \ {c} : work'[d] = work[d]
        /\ work'[c].press = work[c].press /\ work[c].press \in Presses
    BY <1>1, TurnTypes DEF Accept
  <2>2. /\ \A m \in Presses \ {work[c].press} : applied'[m] = applied[m]
        /\ applied'[work[c].press] > 0
    BY <1>1, <2>1, CarryOutTypes DEF Accept
  <2>3. Grows
    BY <2>2 DEF Grows
  <2>4. ASSUME NEW d \in Callers, work'[d].at = "applied" PROVE applied'[work'[d].press] > 0
    <3>1. CASE d = c
      BY <2>1, <2>2, <3>1
    <3>2. CASE d # c
      BY <2>1, <2>3, <2>4, <3>2 DEF AppliedIsCarriedOut, Grows, Shape
    <3> QED BY <3>1, <3>2
  <2> QED BY <2>3, <2>4 DEF AppliedIsCarriedOut
<1>2. ASSUME NEW n \in Presses, AcceptLate(n) PROVE Grows /\ AppliedIsCarriedOut'
  <2>1. CASE applied' = applied
    BY <1>2, <2>1 DEF AcceptLate, Grows, AppliedIsCarriedOut
  <2>2. CASE CarryOut(n)
    <3>1. Grows
      BY <2>2, CarryOutTypes DEF Grows
    <3>2. work' = work
      BY <1>2 DEF AcceptLate
    <3> QED BY <3>1, <3>2 DEF Grows, AppliedIsCarriedOut, Shape
  <2> QED BY <1>2, <2>1, <2>2 DEF AcceptLate
<1>3. ASSUME applied' = applied,
             \A c \in Callers : work'[c] = work[c] \/ work'[c].at # "applied"
      PROVE  Grows /\ AppliedIsCarriedOut'
  BY <1>3 DEF Grows, AppliedIsCarriedOut
<1>4. CASE OpenPage \/ ClosePage \/ Press \/ Kill \/ UNCHANGED vars
  <2>1. applied' = applied
    BY <1>4 DEF OpenPage, ClosePage, Press, Kill, vars
  <2>2. CASE OpenPage \/ UNCHANGED vars
    BY <1>3, <2>1, <2>2 DEF OpenPage, vars
  <2>3. CASE ClosePage \/ Press
    BY <1>3, <2>1, <2>3 DEF ClosePage, Press, Idle, TypeOK
  <2>4. CASE Kill
    BY <1>3, <2>1, <2>4 DEF Kill, Idle
  <2> QED BY <1>4, <2>2, <2>3, <2>4
<1>10. ASSUME NEW c \in Callers, Refuse(c) PROVE Grows /\ AppliedIsCarriedOut'
  BY <1>3, <1>10 DEF Refuse, TypeOK
<1>5. ASSUME NEW result \in Results, ButtonHears(result) PROVE Grows /\ AppliedIsCarriedOut'
  <2>1. Button \in Callers /\ applied' = applied
    BY <1>5 DEF ButtonHears, Callers
  <2>2. \/ work' = [work EXCEPT ![Button] = Idle]
        \/ work' = [work EXCEPT ![Button].at = "saving"]
    BY <1>5 DEF ButtonHears, Save
  <2>3. \A c \in Callers : work'[c] = work[c] \/ work'[c].at # "applied"
    <3>1. CASE work' = [work EXCEPT ![Button] = Idle]
      BY <2>1, <3>1 DEF Idle, TypeOK
    <3>2. CASE work' = [work EXCEPT ![Button].at = "saving"]
      <4>1. work[Button] \in Work
        BY <2>1 DEF TypeOK
      <4>2. [work[Button] EXCEPT !.at = "saving"].at = "saving"
        BY <4>1 DEF Work
      <4> QED BY <2>1, <3>2, <4>2 DEF TypeOK
    <3> QED BY <2>2, <3>1, <3>2
  <2> QED BY <1>3, <2>1, <2>3
<1>6. ASSUME NEW s \in Syncs, NEW list \in SUBSET Presses, NEW of \in Nat,
             Send(s, list, of), applied' = applied
      PROVE  Grows /\ AppliedIsCarriedOut'
  <2>1. \A c \in Callers : work'[c] = work[c] \/ work'[c].at # "applied"
    BY <1>6, SendHolds
  <2> QED BY <1>3, <1>6, <2>1
<1>7. ASSUME NEW result \in Results, NEW s \in Syncs, SyncHears(s, result)
      PROVE  Grows /\ AppliedIsCarriedOut'
  <2>1. s \in Callers /\ Outcome(s, result) /\ Calling(s) /\ applied' = applied
    BY <1>7 DEF SyncHears, Callers, Outcome
  <2>2. CASE result = "success"
    <3>1. work' = [work EXCEPT ![s].at = "saving"]
      BY <1>7, <2>2 DEF SyncHears, Save
    <3> QED BY <1>3, <2>1, <3>1 DEF TypeOK
  <2>3. CASE result # "success"
    BY <1>6, <1>7, <2>1, <2>3, OutcomeTypes DEF SyncHears
  <2> QED BY <2>2, <2>3
<1>8. ASSUME NEW s \in Syncs, SyncNow(s) PROVE Grows /\ AppliedIsCarriedOut'
  BY <1>6, <1>8 DEF SyncNow, TypeOK
<1>9. CASE WriteDone
  <2> DEFINE w == Head(writes)
  <2> writes \in Seq(WriteType) /\ writes # <<>>
    BY <1>9 DEF WriteDone, TypeOK, WriteType
  <2>1. w.by \in Callers /\ applied' = applied
    <3>1. w \in WriteType
      OBVIOUS
    <3> QED BY <1>9, <3>1 DEF WriteDone, WriteType
  <2>2. CASE work' = work \/ work' = [work EXCEPT ![Button] = Idle]
    BY <1>3, <2>1, <2>2 DEF TypeOK, Idle
  <2>3. CASE w.by \in Syncs /\ Send(w.by, work[w.by].todo, work[w.by].page)
    <3>1. work[w.by].todo \in SUBSET Presses /\ work[w.by].page \in Nat
      BY <2>1 DEF TypeOK, Work
    <3> HIDE DEF w
    <3> QED BY <1>6, <2>1, <2>3, <3>1
  <2> QED BY <1>9, <2>1, <2>2, <2>3 DEF WriteDone, Callers
<1>11. ASSUME NEW s \in Syncs, SyncBreaksOff(s) PROVE Grows /\ AppliedIsCarriedOut'
  <2>1. applied' = applied /\ Idle.at # "applied"
    BY <1>11 DEF SyncBreaksOff, Idle
  <2>2. \A c \in Callers : work'[c] = work[c] \/ work'[c].at # "applied"
    BY <1>11, <2>1, BreakTypes
  <2> QED BY <1>3, <2>1, <2>2
<1>12. CASE ButtonBreaksOff
  <2>1. applied' = applied
    BY <1>12 DEF ButtonBreaksOff
  <2>2. \A c \in Callers : work'[c] = work[c] \/ work'[c].at # "applied"
    BY <1>12, StuckTypes
  <2> QED BY <1>3, <2>1, <2>2
<1> QED BY <1>1, <1>2, <1>4, <1>5, <1>7, <1>8, <1>9, <1>10, <1>11, <1>12 DEF Next

\* Every step keeps what was promised.
LEMMA StepKeeps == TypeOK /\ Shape /\ KeptInv /\ [Next]_vars => KeptInv'
<1> SUFFICES ASSUME TypeOK, Shape, KeptInv, [Next]_vars PROVE KeptInv'
  OBVIOUS
<1> USE DEF KeptInv
<1>1. Grows /\ AppliedIsCarriedOut' /\ TypeOK'
  BY CarriedOutStays, StepTypes
<1>2. ASSUME UNCHANGED <<queue, disk, writes, told>> PROVE KeptInv'
  BY <1>1, <1>2, QuietKeeps
<1>3. CASE OpenPage \/ ClosePage \/ Press \/ UNCHANGED vars
  BY <1>2, <1>3 DEF OpenPage, ClosePage, Press, vars
<1>4. ASSUME NEW c \in Callers, Accept(c) \/ Refuse(c) PROVE KeptInv'
  BY <1>2, <1>4 DEF Accept, Refuse
<1>5. ASSUME NEW n \in Presses, AcceptLate(n) PROVE KeptInv'
  BY <1>2, <1>5 DEF AcceptLate
<1>6. ASSUME NEW result \in Results, ButtonHears(result) PROVE KeptInv'
  <2>1. /\ Button \in Callers /\ Outcome(Button, result) /\ Calling(Button)
        /\ UNCHANGED <<disk, told, applied>>
    BY <1>6 DEF ButtonHears, Callers, Outcome
  <2>2. CASE result = "unreachable"
    <3>1. Save(Button, queue \cup {work[Button].press})
      BY <1>6, <2>2 DEF ButtonHears
    <3>2. queue \cup {work[Button].press} \in SUBSET Presses
      BY <2>1, OutcomeTypes DEF TypeOK
    <3>3. \A n \in Presses : Keeps(queue, n) => Keeps(queue \cup {work[Button].press}, n)
      BY DEF Keeps
    <3>4. PromisesKept' /\ NextPromiseKept'
      BY <2>1, <3>1, <3>2, <3>3, SaveKeeps
    <3> QED BY <1>1, <3>4
  <2>3. CASE result # "unreachable"
    BY <1>2, <1>6, <2>1, <2>3 DEF ButtonHears
  <2> QED BY <2>2, <2>3
<1>7. ASSUME NEW result \in Results, NEW s \in Syncs, SyncHears(s, result) PROVE KeptInv'
  <2>1. /\ s \in Callers /\ s # Button /\ Outcome(s, result) /\ Calling(s)
        /\ UNCHANGED <<disk, told, applied>>
    BY <1>7, ButtonAssumption DEF SyncHears, Callers, Outcome
  <2>2. CASE result = "success"
    <3>1. Save(s, queue \ {work[s].press}) /\ work[s].at = "applied"
      BY <1>7, <2>1, <2>2 DEF SyncHears, Outcome
    <3>2. queue \ {work[s].press} \in SUBSET Presses
      BY DEF TypeOK
    <3>3. applied[work[s].press] > 0
      BY <2>1, <3>1 DEF AppliedIsCarriedOut
    <3>4. \A n \in Presses : Keeps(queue, n) => Keeps(queue \ {work[s].press}, n)
      BY <3>3 DEF Keeps
    <3>5. PromisesKept' /\ NextPromiseKept'
      BY <2>1, <3>1, <3>2, <3>4, SaveKeeps
    <3> QED BY <1>1, <3>5
  <2>3. CASE result # "success"
    BY <1>2, <1>7, <2>1, <2>3 DEF SyncHears
  <2> QED BY <2>2, <2>3
<1>8. ASSUME NEW s \in Syncs, SyncNow(s) PROVE KeptInv'
  BY <1>2, <1>8 DEF SyncNow
<1>9. CASE WriteDone
  BY <1>1, <1>9, WriteKeeps
<1>10. CASE Kill
  BY <1>1, <1>10, KillKeeps
<1>11. ASSUME NEW s \in Syncs, SyncBreaksOff(s) PROVE KeptInv'
  BY <1>2, <1>11 DEF SyncBreaksOff
<1>12. CASE ButtonBreaksOff
  BY <1>2, <1>12 DEF ButtonBreaksOff
<1> QED BY <1>11, <1>12, <1>3, <1>4, <1>5, <1>6, <1>7, <1>8, <1>9, <1>10 DEF Next

(* What the screen said is queued is on disk or carried out, for ever: the *)
(* list that a button awaits holds its press, and no later list drops it   *)
(* before a success was heard.                                             *)
THEOREM QueueQueuedIsKept == Spec => []QueuedIsKept
<1>1. Init => TypeOK /\ Shape /\ KeptInv
  BY InitTypes DEF Init, KeptInv, PromisesKept, NextPromiseKept, AppliedIsCarriedOut, Idle
<1>2. TypeOK /\ Shape /\ KeptInv /\ [Next]_vars => (TypeOK /\ Shape /\ KeptInv)'
  BY StepTypes, StepKeeps
<1>3. KeptInv => QueuedIsKept
  BY DEF KeptInv, PromisesKept, Keeps, QueuedIsKept
<1> QED BY <1>1, <1>2, <1>3, PTL DEF Spec

-----------------------------------------------------------------------------
(* A press that is in no doubt is in one place: one caller has it in hand, *)
(* or it is on the wire, or it waits in the queue; a sync has it from the  *)
(* queue, the button and the wire have it while it is not there.  Once the *)
(* server has carried it out, nobody is to send it again: whoever has it   *)
(* in hand knows, and it waits in the queue only until that sync removes   *)
(* it.                                                                     *)
HeldOnce(n) ==
  /\ \A c, d \in Callers : n \in Holds[c] /\ n \in Holds[d] => c = d
  /\ n \in Holds[Button] => n \notin queue
  /\ n \in wire => n \notin queue /\ \A c \in Callers : n \notin Holds[c]

CarriedOutOnce(n) ==
  /\ applied[n] <= 1
  /\ applied[n] > 0 =>
       /\ n \notin wire
       /\ \A c \in Callers : n \in Holds[c] => work[c].at = "applied" /\ work[c].press = n
       /\ n \in queue => \E s \in Syncs : n \in Holds[s]

Once(n) == n \notin doubt => HeldOnce(n) /\ CarriedOutOnce(n)

\* What exists of a press anywhere; presses to come are unknown.
Known(n) ==
  \/ n \in queue \/ n \in disk \/ n \in wire \/ applied[n] > 0
  \/ \E c \in Callers : n \in Holds[c]
  \/ \E i \in DOMAIN writes : n \in writes[i].list

Fresh(n) == Known(n) => n <= pressed

OnceInv == \A n \in Presses : Fresh(n) /\ Once(n)

\* What a caller has in hand, by what it is doing.
LEMMA InHand ==
  ASSUME TypeOK, Shape, NEW c \in Callers
  PROVE  /\ work[c].at = "idle" => Holds[c] = {}
         /\ Calling(c) => work[c].press \in Holds[c] /\ work[c].press \in Presses
         /\ Calling(c) => work[c].press \notin work[c].todo
         /\ Holds[c] \subseteq Presses
         /\ Holds[c] = work[c].todo \/ Holds[c] = work[c].todo \cup {work[c].press}
         /\ work[c].todo \subseteq Holds[c]
<1>1. work[c].todo \in SUBSET Presses
  BY DEF TypeOK, Work
<1> QED BY <1>1 DEF Shape, Holds, Calling

\* The button and the syncs are the callers.
LEMMA Everyone == Button \in Callers /\ \A s \in Syncs : s \in Callers /\ s # Button
BY ButtonAssumption DEF Callers

\* What syncNow calls being sent is what syncs have in hand.
LEMMA BeingSentIsInHand ==
  ASSUME NEW n \in Presses
  PROVE  n \in BeingSent <=> \E s \in Syncs : n \in Holds[s]
<1>1. \A s \in Syncs : n \in Holds[s] <=> n \in work[s].todo \/ (Calling(s) /\ n = work[s].press)
  BY Everyone DEF Holds
<1>2. n \in UNION {work[s].todo : s \in Syncs} <=> \E s \in Syncs : n \in work[s].todo
  OBVIOUS
<1> DEFINE called == {work[t].press : t \in {u \in Syncs : Calling(u)}}
<1>3. ASSUME NEW s \in Syncs, Calling(s), n = work[s].press PROVE n \in called
  BY <1>3
<1>4. ASSUME n \in called PROVE \E s \in Syncs : Calling(s) /\ n = work[s].press
  <2>1. PICK s \in {u \in Syncs : Calling(u)} : n = work[s].press
    BY <1>4
  <2> QED BY <2>1
<1>5. n \in BeingSent <=> n \in UNION {work[s].todo : s \in Syncs} \/ n \in called
  BY DEF BeingSent
<1> HIDE DEF called
<1> QED BY <1>1, <1>2, <1>3, <1>4, <1>5

\* The server carries out a press that a caller has in hand.
LEMMA AcceptOnce ==
  ASSUME TypeOK, Shape, NEW n \in Presses, Fresh(n), Once(n), NEW c \in Callers, Accept(c)
  PROVE  Fresh(n)' /\ Once(n)'
<1> Button \in Callers /\ \A s \in Syncs : s \in Callers
  BY Everyone
<1> DEFINE p == work[c].press
<1>1. /\ \A d \in Callers : Holds'[d] = Holds[d]
      /\ \A d \in Callers \ {c} : work'[d] = work[d]
      /\ work'[c].at = "applied" /\ work'[c].press = p /\ p \in Presses
  BY TurnTypes DEF Accept
<1>2. /\ \A m \in Presses \ {p} : applied'[m] = applied[m]
      /\ applied'[p] > 0 /\ (applied[p] = 0 => applied'[p] = 1)
  BY <1>1, CarryOutTypes DEF Accept
<1>3. UNCHANGED <<queue, disk, wire, writes, pressed, doubt>>
  BY DEF Accept
<1>4. p \in Holds[c] /\ p \notin work[c].todo /\ work[c].at = "out"
  BY InHand DEF Accept, Calling
<1> HIDE DEF p
<1>5. Fresh(n)'
  BY <1>1, <1>2, <1>3, <1>4 DEF Fresh, Known
<1>6. ASSUME n \notin doubt PROVE HeldOnce(n)' /\ CarriedOutOnce(n)'
  <2>1. HeldOnce(n)'
    BY <1>1, <1>3, <1>6 DEF Once, HeldOnce
  <2>2. CASE n # p
    <3>1. applied'[n] = applied[n]
      BY <1>2, <2>2
    <3>2. \A d \in Callers : n \in Holds[d] /\ work[d].at = "applied" /\ work[d].press = n
                               => work'[d].at = "applied" /\ work'[d].press = n
      BY <1>1, <1>4
    <3> QED BY <1>1, <1>3, <1>6, <2>1, <3>1, <3>2 DEF Once, CarriedOutOnce
  <2>3. CASE n = p
    <3>1. n \notin wire /\ (n \in queue => c # Button)
      BY <1>4, <1>6, <2>3 DEF Once, HeldOnce
    <3>2. \A d \in Callers : n \in Holds[d] => d = c
      BY <1>4, <1>6, <2>3 DEF Once, HeldOnce
    <3>3. ~ (applied[n] > 0)
      BY <1>4, <1>6, <2>3 DEF Once, CarriedOutOnce
    <3>4. applied'[n] = 1
      BY <1>2, <2>3, <3>3 DEF TypeOK
    <3>5. n \in queue => \E s \in Syncs : n \in Holds[s]
      BY <1>4, <2>3, <3>1 DEF Callers
    <3> QED BY <1>1, <1>3, <2>1, <2>3, <3>1, <3>2, <3>4, <3>5 DEF CarriedOutOnce
  <2> QED BY <2>1, <2>2, <2>3
<1> QED BY <1>3, <1>5, <1>6 DEF Once

\* It carries out a press from the wire.
LEMMA LateOnce ==
  ASSUME TypeOK, NEW n \in Presses, Fresh(n), Once(n), NEW p \in Presses, AcceptLate(p)
  PROVE  Fresh(n)' /\ Once(n)'
<1> Button \in Callers /\ \A s \in Syncs : s \in Callers
  BY Everyone
<1>1. /\ UNCHANGED <<queue, disk, writes, pressed, doubt, work>>
      /\ wire' = wire \ {p} /\ p \in wire
  BY DEF AcceptLate
<1>2. \A d \in Callers : Holds'[d] = Holds[d]
  BY <1>1 DEF Holds, Calling
<1>3. \/ applied' = applied
      \/ /\ \A m \in Presses \ {p} : applied'[m] = applied[m]
         /\ applied[p] = 0 => applied'[p] = 1
  BY CarryOutTypes DEF AcceptLate
<1>4. Fresh(n)'
  BY <1>1, <1>2, <1>3 DEF Fresh, Known
<1>5. ASSUME n \notin doubt PROVE HeldOnce(n)' /\ CarriedOutOnce(n)'
  <2>1. HeldOnce(n)'
    BY <1>1, <1>2, <1>5 DEF Once, HeldOnce
  <2>2. CASE n # p \/ applied' = applied
    <3>1. applied'[n] = applied[n]
      BY <1>3, <2>2
    <3> QED BY <1>1, <1>2, <1>5, <2>1, <3>1 DEF Once, CarriedOutOnce
  <2>3. CASE n = p /\ applied' # applied
    <3>1. ~ (applied[n] > 0)
      BY <1>1, <1>5, <2>3 DEF Once, CarriedOutOnce
    <3>2. applied'[n] = 1
      BY <1>3, <2>3, <3>1 DEF TypeOK
    <3>3. n \notin queue /\ \A d \in Callers : n \notin Holds[d]
      BY <1>1, <1>5, <2>3 DEF Once, HeldOnce
    <3> QED BY <1>1, <1>2, <2>1, <2>3, <3>2, <3>3 DEF CarriedOutOnce
  <2> QED BY <2>1, <2>2, <2>3
<1> QED BY <1>1, <1>4, <1>5 DEF Once

(* A step that the server has no part in and in which only c does          *)
(* something; what it then has in hand it had before, and what it lets go  *)
(* is nowhere twice.                                                       *)
LEMMA DropOnce ==
  ASSUME TypeOK, NEW n \in Presses, Fresh(n), Once(n), NEW c \in Callers,
         UNCHANGED <<pressed, applied>>,
         doubt \subseteq doubt',
         \A d \in Callers \ {c} : work'[d] = work[d] /\ Holds'[d] = Holds[d],
         Holds'[c] \subseteq Holds[c],
         n \in Holds'[c] /\ applied[n] > 0 /\ n \notin doubt' =>
           work'[c].at = "applied" /\ work'[c].press = n,
         n \in wire' => n \in wire \/ (n \in Holds[c] /\ n \notin Holds'[c]),
         n \in queue' => n \in queue \/ (n \in Holds[c] /\ n \notin Holds'[c]),
         n \in Holds[c] /\ n \notin Holds'[c] /\ n \notin doubt' =>
           /\ n \in wire' => n \notin queue' /\ applied[n] = 0
           /\ applied[n] > 0 => n \notin queue',
         n \in disk' => Known(n),
         \A i \in DOMAIN writes' : n \in writes'[i].list => Known(n)
  PROVE  Fresh(n)' /\ Once(n)'
<1> Button \in Callers /\ \A s \in Syncs : s \in Callers
  BY Everyone
<1>1. Fresh(n)'
  <2>1. Known(n)' => Known(n)
    BY DEF Known
  <2> QED BY <2>1 DEF Fresh
<1>2. ASSUME n \notin doubt' PROVE HeldOnce(n)' /\ CarriedOutOnce(n)'
  <2>1. HeldOnce(n) /\ CarriedOutOnce(n) /\ applied'[n] = applied[n]
    BY <1>2 DEF Once
  <2>2. \A d \in Callers : n \in Holds'[d] => n \in Holds[d]
    OBVIOUS
  <2>3. HeldOnce(n)'
    BY <1>2, <2>1, <2>2 DEF HeldOnce, TypeOK
  <2>4. CarriedOutOnce(n)'
    <3>1. CASE ~ (applied[n] > 0)
      BY <2>1, <3>1 DEF CarriedOutOnce
    <3>2. CASE applied[n] > 0
      <4>1. n \notin wire'
        BY <1>2, <2>1, <3>2 DEF CarriedOutOnce
      <4>2. \A d \in Callers : n \in Holds'[d] => work'[d].at = "applied" /\ work'[d].press = n
        BY <1>2, <2>1, <3>2 DEF CarriedOutOnce
      <4>3. n \in queue' => \E s \in Syncs : n \in Holds'[s]
        BY <1>2, <2>1, <3>2 DEF CarriedOutOnce
      <4> QED BY <2>1, <4>1, <4>2, <4>3 DEF CarriedOutOnce
    <3> QED BY <3>1, <3>2
  <2> QED BY <2>3, <2>4
<1> QED BY <1>1, <1>2 DEF Once

\* A step in which no caller does anything.
LEMMA IdleOnce ==
  ASSUME TypeOK, Shape, NEW n \in Presses, Fresh(n), Once(n),
         UNCHANGED <<pressed, applied, work, queue, wire, doubt>>,
         n \in disk' => Known(n),
         \A i \in DOMAIN writes' : n \in writes'[i].list => Known(n)
  PROVE  Fresh(n)' /\ Once(n)'
<1>1. Button \in Callers /\ \A d \in Callers : Holds'[d] = Holds[d]
  BY Everyone DEF Holds, Calling
<1>2. n \in Holds[Button] /\ applied[n] > 0 /\ n \notin doubt =>
           work[Button].at = "applied" /\ work[Button].press = n
  BY <1>1 DEF Once, CarriedOutOnce
<1> QED BY <1>1, <1>2, DropOnce

\* The server refuses: nothing moves.
LEMMA RefuseOnce ==
  ASSUME TypeOK, Shape, NEW n \in Presses, Fresh(n), Once(n), NEW c \in Callers, Refuse(c)
  PROVE  Fresh(n)' /\ Once(n)'
<1>1. /\ UNCHANGED <<pressed, applied, queue, disk, writes, wire, doubt>>
      /\ work[c].at = "out" /\ work' = [work EXCEPT ![c].at = "refused"]
  BY DEF Refuse
<1>2. /\ \A d \in Callers : Holds'[d] = Holds[d]
      /\ \A d \in Callers \ {c} : work'[d] = work[d]
  BY <1>1, TurnTypes
<1>3. ~ (n \in Holds'[c] /\ applied[n] > 0 /\ n \notin doubt')
  BY <1>1, <1>2 DEF Once, CarriedOutOnce
<1>4. /\ n \in disk' => Known(n)
      /\ \A i \in DOMAIN writes' : n \in writes'[i].list => Known(n)
  BY <1>1 DEF Known
<1> QED BY <1>1, <1>2, <1>3, <1>4, DropOnce

\* A screen is left: what its button awaits goes to the wire or is over.
LEMMA CloseOnce ==
  ASSUME TypeOK, Shape, NEW n \in Presses, Fresh(n), Once(n), ClosePage
  PROVE  Fresh(n)' /\ Once(n)'
<1> Button \in Callers
  BY Everyone
<1>1. /\ UNCHANGED <<pressed, applied, queue, disk, writes, doubt>>
      /\ work' = [work EXCEPT ![Button] = Idle]
      /\ wire' = wire \/ (work[Button].at = "out" /\ wire' = wire \cup {work[Button].press})
  BY DEF ClosePage
<1>2. /\ Holds'[Button] = {}
      /\ \A d \in Callers \ {Button} : work'[d] = work[d] /\ Holds'[d] = Holds[d]
  BY <1>1, RestTypes
<1>3. /\ n \in disk' => Known(n)
      /\ \A i \in DOMAIN writes' : n \in writes'[i].list => Known(n)
  BY <1>1 DEF Known
<1>4. n \in wire' => n \in wire \/ (n \in Holds[Button] /\ work[Button].at = "out")
  BY <1>1, InHand DEF Calling
<1>5. ASSUME n \in Holds[Button], n \notin doubt
      PROVE  n \notin queue /\ n \notin wire /\ (applied[n] > 0 => work[Button].at = "applied")
  BY <1>5 DEF Once, HeldOnce, CarriedOutOnce
<1>6. n \in Holds[Button] /\ n \notin doubt' /\ n \in wire' => n \notin queue' /\ applied[n] = 0
  BY <1>1, <1>4, <1>5 DEF TypeOK
<1>7. n \in Holds[Button] /\ n \notin doubt' => n \notin queue'
  BY <1>1, <1>5
<1> QED BY <1>1, <1>2, <1>3, <1>4, <1>6, <1>7, DropOnce

\* The lists to be written are those there were, and the one that is saved.
LEMMA SaveLists ==
  ASSUME TypeOK, NEW c \in Callers, NEW list, Save(c, list), NEW i \in DOMAIN writes'
  PROVE  writes'[i].list = list \/ (i \in DOMAIN writes /\ writes'[i] = writes[i])
<1> DEFINE w == [by |-> c, press |-> work[c].press, list |-> list]
<1> writes \in Seq(WriteType)
  BY DEF TypeOK, WriteType
<1>1. writes' = Append(writes, w) /\ w.list = list
  BY DEF Save
<1> HIDE DEF w
<1> QED BY <1>1

\* What an answer says of a press in hand that stays out of doubt.
LEMMA Answered ==
  ASSUME TypeOK, Shape, NEW n \in Presses, Once(n), NEW c \in Callers,
         NEW result \in Results, Outcome(c, result), n \notin doubt, n \in Holds[c]
  PROVE  /\ n \notin wire
         /\ n \in wire' => n = work[c].press /\ work[c].at = "out"
         /\ applied[n] > 0 => work[c].at = "applied" /\ n = work[c].press
         /\ c = Button => n \notin queue
         /\ c = Button => n = work[c].press
<1> Button \in Callers
  BY Everyone
<1>1. /\ n \notin wire
      /\ applied[n] > 0 => work[c].at = "applied" /\ n = work[c].press
      /\ c = Button => n \notin queue
  BY DEF Once, HeldOnce, CarriedOutOnce
<1>2. wire' = wire \/ (work[c].at = "out" /\ wire' = wire \cup {work[c].press})
  BY DEF Outcome
<1>3. c = Button => n = work[c].press
  BY InHand DEF Shape
<1> QED BY <1>1, <1>2, <1>3

\* The button hears: its press goes to the queue only if it was unreachable.
LEMMA ButtonOnce ==
  ASSUME TypeOK, Shape, NEW n \in Presses, Fresh(n), Once(n),
         NEW result \in Results, ButtonHears(result)
  PROVE  Fresh(n)' /\ Once(n)'
<1> Button \in Callers
  BY Everyone
<1> DEFINE p == work[Button].press
<1>1. /\ UNCHANGED <<pressed, applied, disk>> /\ Outcome(Button, result) /\ Calling(Button)
  BY DEF ButtonHears, Outcome
<1>2. p \in Holds[Button] /\ p \in Presses
  BY <1>1, InHand
<1>3. n \in wire' => n \in wire \/ n \in Holds[Button]
  BY <1>1, <1>2, OutcomeTypes
<1>4. CASE result = "unreachable"
  <2>1. /\ Save(Button, queue \cup {p})
        /\ doubt' = IF Unknown(Button, result) THEN doubt \cup {p} ELSE doubt
    BY <1>4 DEF ButtonHears
  <2>2. queue \cup {p} \in SUBSET Presses
    BY <1>2 DEF TypeOK
  <2>3. /\ \A d \in Callers \ {Button} : work'[d] = work[d] /\ Holds'[d] = Holds[d]
        /\ Holds'[Button] = {}
    BY <1>1, <2>1, <2>2, SaveTypes DEF Shape
  <2>4. queue' = queue \cup {p}
    BY <2>1 DEF Save
  <2>5. \A i \in DOMAIN writes' : n \in writes'[i].list => Known(n)
    BY <1>2, <2>1, SaveLists DEF Known
  <2>6. n \in disk' => Known(n)
    BY <1>1 DEF Known
  <2>7. ASSUME n \in Holds[Button], n \notin doubt'
        PROVE  n \notin wire' /\ ~ (applied[n] > 0)
    <3>1. n \notin doubt
      BY <2>1, <2>7
    <3>2. n = p /\ (applied[n] > 0 => work[Button].at = "applied")
      BY <1>1, <2>7, <3>1, Answered
    <3>3. ~ Unknown(Button, result)
      BY <2>1, <2>7, <3>2
    <3> QED BY <1>4, <3>2, <3>3 DEF Unknown
  <2>8. doubt \subseteq doubt'
    BY <2>1
  <2> HIDE DEF p
  <2> QED BY <1>1, <1>2, <1>3, <2>3, <2>4, <2>5, <2>6, <2>7, <2>8, DropOnce
<1>5. CASE result # "unreachable"
  <2>1. work' = [work EXCEPT ![Button] = Idle] /\ UNCHANGED <<queue, writes, doubt>>
    BY <1>5 DEF ButtonHears
  <2>2. /\ \A d \in Callers \ {Button} : work'[d] = work[d] /\ Holds'[d] = Holds[d]
        /\ Holds'[Button] = {}
    BY <2>1, RestTypes
  <2>3. /\ n \in disk' => Known(n)
        /\ \A i \in DOMAIN writes' : n \in writes'[i].list => Known(n)
    BY <1>1, <2>1 DEF Known
  <2>4. ASSUME n \in Holds[Button], n \notin doubt'
        PROVE  n \notin queue' /\ (n \in wire' => applied[n] = 0)
    <3>1. /\ n \notin queue
          /\ n \in wire' => work[Button].at = "out"
          /\ applied[n] > 0 => work[Button].at = "applied"
      BY <1>1, <2>1, <2>4, Answered
    <3> QED BY <2>1, <3>1 DEF TypeOK
  <2> HIDE DEF p
  <2> QED BY <1>1, <1>3, <2>1, <2>2, <2>3, <2>4, DropOnce
<1> QED BY <1>4, <1>5

\* A sync hears: a success removes the entry, a failure leaves it to the queue.
LEMMA SyncOnce ==
  ASSUME TypeOK, Shape, NEW n \in Presses, Fresh(n), Once(n),
         NEW result \in Results, NEW s \in Syncs, SyncHears(s, result)
  PROVE  Fresh(n)' /\ Once(n)'
<1> s \in Callers
  BY Everyone
<1> DEFINE p == work[s].press
<1>1. /\ UNCHANGED <<pressed, applied, disk>> /\ Outcome(s, result) /\ Calling(s)
      /\ doubt' = IF Unknown(s, result) THEN doubt \cup {p} ELSE doubt
  BY DEF SyncHears, Outcome
<1>2. /\ p \in Holds[s] /\ p \in Presses /\ p \notin work[s].todo
      /\ Holds[s] = work[s].todo \cup {p}
  BY <1>1, InHand
<1>3. n \in wire' => n \in wire \/ n = p
  BY <1>1, <1>2, OutcomeTypes
<1>4. doubt \subseteq doubt'
  BY <1>1
<1>5. n \in disk' => Known(n)
  BY <1>1 DEF Known
<1>6. ~ (n \in work[s].todo /\ applied[n] > 0 /\ n \notin doubt')
  BY <1>1, <1>2, <1>4, Answered
<1>7. CASE result = "success"
  <2>1. Save(s, queue \ {p}) /\ work[s].at = "applied"
    BY <1>1, <1>7 DEF SyncHears, Outcome
  <2>2. queue \ {p} \in SUBSET Presses
    BY DEF TypeOK
  <2>3. /\ \A d \in Callers \ {s} : work'[d] = work[d] /\ Holds'[d] = Holds[d]
        /\ Holds'[s] = work[s].todo
    BY <1>1, <2>1, <2>2, SaveTypes
  <2>4. queue' = queue \ {p}
    BY <2>1 DEF Save
  <2>5. \A i \in DOMAIN writes' : n \in writes'[i].list => Known(n)
    BY <2>1, SaveLists DEF Known
  <2>6. n \in Holds[s] /\ n \notin Holds'[s] => n = p
    BY <1>2, <2>3
  <2>7. n \in Holds[s] /\ n \notin doubt' => n \notin wire'
    BY <1>1, <1>4, <2>1, Answered
  <2> HIDE DEF p
  <2> QED BY <1>1, <1>2, <1>3, <1>4, <1>5, <1>6, <2>3, <2>4, <2>5, <2>6, <2>7, DropOnce
<1>8. CASE result # "success"
  <2>1. Send(s, work[s].todo, work[s].page) /\ UNCHANGED <<queue, writes>>
    BY <1>8 DEF SyncHears
  <2>2. /\ \A d \in Callers \ {s} : work'[d] = work[d] /\ Holds'[d] = Holds[d]
        /\ Holds'[s] = work[s].todo
    BY <1>1, <2>1, OutcomeTypes, SendHolds
  <2>3. \A i \in DOMAIN writes' : n \in writes'[i].list => Known(n)
    BY <2>1 DEF Known
  <2>4. ASSUME n \in Holds[s], n \notin Holds'[s], n \notin doubt'
        PROVE  n \notin wire' /\ ~ (applied[n] > 0)
    <3>1. n = p
      BY <1>2, <2>2, <2>4
    <3>2. applied[n] > 0 => work[s].at = "applied"
      BY <1>1, <1>4, <2>4, Answered
    <3>3. ~ Unknown(s, result)
      BY <1>1, <2>4, <3>1
    <3> QED BY <1>8, <3>1, <3>2, <3>3 DEF Unknown
  <2> HIDE DEF p
  <2> QED BY <1>1, <1>2, <1>3, <1>4, <1>5, <1>6, <2>1, <2>2, <2>3, <2>4, DropOnce
<1> QED BY <1>7, <1>8

\* A run of syncNow is cut off: what it has in hand stays in the queue, or is in doubt.
LEMMA BreakOnce ==
  ASSUME TypeOK, Shape, NEW n \in Presses, Fresh(n), Once(n), NEW s \in Syncs,
         SyncBreaksOff(s)
  PROVE  Fresh(n)' /\ Once(n)'
<1> s \in Callers
  BY Everyone
<1>1. UNCHANGED <<pressed, applied, queue, disk, writes, wire>>
  BY DEF SyncBreaksOff
<1>2. /\ \A d \in Callers \ {s} : work'[d] = work[d] /\ Holds'[d] = Holds[d]
      /\ Holds'[s] = {} /\ doubt \subseteq doubt'
  BY BreakTypes
<1>3. /\ n \in disk' => Known(n)
      /\ \A i \in DOMAIN writes' : n \in writes'[i].list => Known(n)
  BY <1>1 DEF Known
<1>4. ASSUME n \in Holds[s], n \notin doubt'
      PROVE  n \notin wire /\ ~ (applied[n] > 0)
  <2>1. /\ n \notin wire
        /\ applied[n] > 0 => work[s].at = "applied" /\ work[s].press = n
    BY <1>2, <1>4 DEF Once, HeldOnce, CarriedOutOnce
  <2> QED BY <1>4, <2>1 DEF SyncBreaksOff
<1> QED BY <1>1, <1>2, <1>3, <1>4, DropOnce

\* A button is cut off: its press, which no queue has, is over.
LEMMA StuckOnce ==
  ASSUME TypeOK, Shape, NEW n \in Presses, Fresh(n), Once(n), ButtonBreaksOff
  PROVE  Fresh(n)' /\ Once(n)'
<1> Button \in Callers
  BY Everyone
<1>1. UNCHANGED <<pressed, applied, queue, disk, writes, wire, doubt>>
  BY DEF ButtonBreaksOff
<1>2. /\ \A d \in Callers \ {Button} : work'[d] = work[d] /\ Holds'[d] = Holds[d]
      /\ Holds'[Button] = {}
  BY StuckTypes
<1>3. /\ n \in disk' => Known(n)
      /\ \A i \in DOMAIN writes' : n \in writes'[i].list => Known(n)
  BY <1>1 DEF Known
<1>4. n \in Holds[Button] /\ n \notin doubt' => n \notin queue' /\ n \notin wire'
  BY <1>1 DEF Once, HeldOnce
<1> QED BY <1>1, <1>2, <1>3, <1>4, DropOnce

\* A write happens: a sync that awaited it goes on with what it has.
LEMMA WriteOnce ==
  ASSUME TypeOK, Shape, NEW n \in Presses, Fresh(n), Once(n), WriteDone
  PROVE  Fresh(n)' /\ Once(n)'
<1> DEFINE w == Head(writes)
<1> Button \in Callers /\ \A t \in Syncs : t \in Callers
  BY Everyone
<1> writes \in Seq(WriteType) /\ writes # <<>>
  BY DEF WriteDone, TypeOK, WriteType
<1>1. /\ disk' = w.list /\ writes' = Tail(writes)
      /\ UNCHANGED <<queue, pressed, applied, wire, doubt>>
  BY DEF WriteDone
<1>2. w = writes[1] /\ 1 \in DOMAIN writes /\ w \in WriteType
  OBVIOUS
<1>3. \A i \in DOMAIN writes' : i + 1 \in DOMAIN writes /\ writes'[i] = writes[i + 1]
  BY <1>1
<1> HIDE DEF w
<1>4. n \in disk' => Known(n)
  BY <1>1, <1>2 DEF Known
<1>5. \A i \in DOMAIN writes' : n \in writes'[i].list => Known(n)
  BY <1>3 DEF Known
<1>6. ASSUME NEW c \in Callers, work[c].at = "saving", Holds'[c] = work[c].todo,
             \A d \in Callers \ {c} : work'[d] = work[d] /\ Holds'[d] = Holds[d]
      PROVE  Fresh(n)' /\ Once(n)'
  <2>1. Holds[c] = work[c].todo
    BY <1>6 DEF Holds, Calling, TypeOK, Work
  <2>2. ~ (n \in Holds[c] /\ applied[n] > 0 /\ n \notin doubt)
    BY <1>6, <2>1 DEF Once, CarriedOutOnce
  <2> QED BY <1>1, <1>4, <1>5, <1>6, <2>1, <2>2, DropOnce
<1>7. w.by = Button \/ w.by \in Syncs
  BY <1>2 DEF WriteType, Callers
<1>8. CASE work' = work
  BY <1>1, <1>4, <1>5, <1>8, IdleOnce
<1>9. CASE work' = [work EXCEPT ![Button] = Idle] /\ work[Button].at = "saving"
  <2>1. /\ \A d \in Callers \ {Button} : work'[d] = work[d] /\ Holds'[d] = Holds[d]
        /\ Holds'[Button] = {}
    BY <1>9, RestTypes
  <2> QED BY <1>6, <1>9, <2>1 DEF Shape
<1>10. CASE /\ w.by \in Syncs /\ work[w.by].at = "saving"
            /\ Send(w.by, work[w.by].todo, work[w.by].page)
  <2>1. work[w.by].todo \in SUBSET Presses /\ work[w.by].page \in Nat
    BY <1>10 DEF TypeOK, Work
  <2>2. /\ \A d \in Callers \ {w.by} : work'[d] = work[d] /\ Holds'[d] = Holds[d]
        /\ Holds'[w.by] = work[w.by].todo
    BY <1>10, <2>1, SendHolds
  <2> QED BY <1>6, <1>10, <2>2
<1> QED BY <1>7, <1>8, <1>9, <1>10 DEF WriteDone, w

\* A sync takes all of the queue in hand.
LEMMA SyncNowOnce ==
  ASSUME TypeOK, Shape, NEW n \in Presses, Fresh(n), Once(n), NEW s \in Syncs, SyncNow(s)
  PROVE  Fresh(n)' /\ Once(n)'
<1> Button \in Callers /\ s # Button /\ \A t \in Syncs : t \in Callers
  BY Everyone
<1>1. /\ UNCHANGED <<queue, disk, writes, pressed, applied, wire>>
      /\ Send(s, queue, page) /\ work[s] = Idle /\ doubt' = doubt \cup (queue \cap BeingSent)
  BY DEF SyncNow
<1>2. /\ \A d \in Callers \ {s} : work'[d] = work[d] /\ Holds'[d] = Holds[d]
      /\ Holds'[s] = queue
  BY <1>1, SendHolds DEF TypeOK
<1>3. Holds[s] = {}
  BY <1>1, InHand DEF Idle
<1>4. Fresh(n)'
  BY <1>1, <1>2 DEF Fresh, Known
<1>5. ASSUME n \notin doubt' PROVE HeldOnce(n)' /\ CarriedOutOnce(n)'
  <2>1. HeldOnce(n) /\ CarriedOutOnce(n)
    BY <1>1, <1>5 DEF Once
  <2>2. n \in queue => \A t \in Syncs : n \notin Holds[t]
    BY <1>1, <1>5, BeingSentIsInHand
  <2>3. n \in queue => \A d \in Callers : n \notin Holds[d]
    BY <2>1, <2>2 DEF HeldOnce, Callers
  <2>4. HeldOnce(n)'
    BY <1>1, <1>2, <2>1, <2>3 DEF HeldOnce
  <2>5. applied[n] > 0 => n \notin queue
    BY <2>1, <2>2 DEF CarriedOutOnce
  <2>6. CarriedOutOnce(n)'
    BY <1>1, <1>2, <1>3, <2>1, <2>5 DEF CarriedOutOnce
  <2> QED BY <2>4, <2>6
<1> QED BY <1>4, <1>5 DEF Once

\* A new press is unknown, so it is in no other place.
LEMMA PressOnce ==
  ASSUME TypeOK, Shape, NEW n \in Presses, Fresh(n), Once(n), Press
  PROVE  Fresh(n)' /\ Once(n)'
<1> DEFINE out == [at |-> "out", press |-> pressed + 1, todo |-> {}, page |-> page]
<1> Button \in Callers /\ \A t \in Syncs : t \in Callers
  BY Everyone
<1>1. /\ UNCHANGED <<queue, disk, writes, applied, wire, doubt>>
      /\ pressed' = pressed + 1 /\ pressed \in Nat /\ work[Button] = Idle
      /\ work' = [work EXCEPT ![Button] = out]
  BY DEF Press, TypeOK
<1>2. pressed + 1 \in Presses /\ pressed + 1 \in 0..MaxPresses
  BY BoundsAssumption DEF Press, TypeOK, Presses
<1>3. WellShaped(out) /\ out.todo = {} /\ out.at = "out" /\ out.press = pressed + 1
  BY <1>2 DEF WellShaped, Work, TypeOK
<1> HIDE DEF out
<1>4. /\ \A d \in Callers \ {Button} : work'[d] = work[d] /\ Holds'[d] = Holds[d]
      /\ work'[Button] = out
  BY <1>1, <1>3, OneTurns
<1>5. Holds'[Button] = {pressed + 1}
  BY <1>2, <1>3, <1>4 DEF Holds, Calling
<1>6. Holds[Button] = {}
  BY <1>1, InHand DEF Idle
<1>7. n \in Nat
  BY DEF Presses
<1>8. CASE n # pressed + 1
  <2>1. n \in Holds'[Button] <=> n \in Holds[Button]
    BY <1>5, <1>6, <1>8
  <2>2. \A d \in Callers : n \in Holds'[d] <=> n \in Holds[d]
    BY <1>4, <2>1
  <2>3. Known(n)' => Known(n)
    BY <1>1, <2>2 DEF Known
  <2>4. Fresh(n)'
    BY <1>1, <1>7, <2>3 DEF Fresh
  <2>5. n \notin doubt => HeldOnce(n)'
    BY <1>1, <2>2 DEF Once, HeldOnce
  <2>6. n \notin doubt => CarriedOutOnce(n)'
    BY <1>1, <1>4, <1>5, <1>8, <2>2 DEF Once, CarriedOutOnce
  <2> QED BY <1>1, <2>4, <2>5, <2>6 DEF Once
<1>9. CASE n = pressed + 1
  <2>1. ~ Known(n)
    BY <1>1, <1>7, <1>9 DEF Fresh
  <2>2. n \notin queue /\ n \notin wire /\ ~ (applied[n] > 0) /\ \A d \in Callers : n \notin Holds[d]
    BY <2>1 DEF Known
  <2>3. HeldOnce(n)'
    BY <1>1, <1>4, <2>2 DEF HeldOnce
  <2>4. CarriedOutOnce(n)'
    BY <1>1, <2>2 DEF CarriedOutOnce, TypeOK
  <2>5. Fresh(n)'
    BY <1>1, <1>9 DEF Fresh
  <2> QED BY <2>3, <2>4, <2>5 DEF Once
<1> QED BY <1>8, <1>9

\* A kill returns to the disk, which has of the queue only what is in doubt or was there.
LEMMA KillOnce ==
  ASSUME TypeOK, Shape, NEW n \in Presses, Fresh(n), Once(n), Kill
  PROVE  Fresh(n)' /\ Once(n)'
<1> Button \in Callers /\ \A t \in Syncs : t \in Callers
  BY Everyone
<1> DEFINE out == {work[c].press : c \in {d \in Callers : work[d].at = "out"}}
           called == {work[c].press : c \in {d \in Callers : Calling(d)}}
<1>1. /\ UNCHANGED <<pressed, disk, applied>>
      /\ queue' = disk /\ writes' = <<>> /\ work' = [c \in Callers |-> Idle]
      /\ wire' = wire \cup out
      /\ doubt' = (doubt \cup called) \cup (disk \ queue)
  BY DEF Kill
<1>2. n \in out => n \in called /\ \E c \in Callers : n \in Holds[c]
  BY InHand DEF Calling
<1>3. \A c \in Callers : Calling(c) => work[c].press \in called
  OBVIOUS
<1> HIDE DEF out, called
<1>4. \A c \in Callers : Holds'[c] = {}
  BY <1>1 DEF Holds, Calling, Idle
<1>5. DOMAIN writes' = {}
  BY <1>1
<1>6. Known(n)' => Known(n)
  BY <1>1, <1>2, <1>4, <1>5 DEF Known
<1>7. ASSUME n \notin doubt' PROVE HeldOnce(n)' /\ CarriedOutOnce(n)'
  <2>1. /\ HeldOnce(n) /\ CarriedOutOnce(n)
        /\ n \notin called /\ (n \in disk => n \in queue)
    BY <1>1, <1>7 DEF Once
  <2>2. n \in wire' => n \in wire
    BY <1>1, <1>2, <2>1
  <2>3. HeldOnce(n)'
    BY <1>1, <1>4, <2>1, <2>2 DEF HeldOnce
  <2>4. applied[n] > 0 => n \notin queue
    <3>1. SUFFICES ASSUME applied[n] > 0, n \in queue PROVE FALSE
      OBVIOUS
    <3>2. PICK s \in Syncs : n \in Holds[s]
      BY <2>1, <3>1 DEF CarriedOutOnce
    <3>3. work[s].at = "applied" /\ work[s].press = n
      BY <2>1, <3>1, <3>2 DEF CarriedOutOnce
    <3> QED BY <1>3, <2>1, <3>3 DEF Calling
  <2>5. CarriedOutOnce(n)'
    BY <1>1, <1>4, <2>1, <2>2, <2>4 DEF CarriedOutOnce
  <2> QED BY <2>3, <2>5
<1> QED BY <1>1, <1>6, <1>7 DEF Fresh, Once

\* Every step keeps a press in no doubt in one place.
LEMMA StepOnce == TypeOK /\ Shape /\ OnceInv /\ [Next]_vars => OnceInv'
<1> SUFFICES ASSUME TypeOK, Shape, [Next]_vars, NEW n \in Presses, Fresh(n), Once(n)
             PROVE  Fresh(n)' /\ Once(n)'
  BY DEF OnceInv
<1>1. CASE OpenPage \/ UNCHANGED vars
  <2>1. UNCHANGED <<pressed, applied, work, queue, wire, doubt, disk, writes>>
    BY <1>1 DEF OpenPage, vars
  <2>2. /\ n \in disk' => Known(n)
        /\ \A i \in DOMAIN writes' : n \in writes'[i].list => Known(n)
    BY <2>1 DEF Known
  <2> QED BY <2>1, <2>2, IdleOnce
<1> QED BY <1>1, CloseOnce, PressOnce, AcceptOnce, RefuseOnce, LateOnce, ButtonOnce, SyncOnce,
           SyncNowOnce, WriteOnce, KillOnce, BreakOnce, StuckOnce DEF Next

(* The server carries a press out twice only if some attempt of it ended   *)
(* unknown, a kill lost what the queue knew of it, or two runs of syncNow  *)
(* had it at once: one that is in none of these doubts is in one place,    *)
(* and leaves it once carried out.                                         *)
THEOREM QueueTwiceOnlyInDoubt == Spec => []TwiceOnlyInDoubt
<1>1. Init => TypeOK /\ Shape /\ OnceInv
  <2> SUFFICES ASSUME Init, NEW n \in Presses PROVE Fresh(n) /\ Once(n)
    BY InitTypes DEF OnceInv
  <2>1. /\ queue = {} /\ disk = {} /\ wire = {} /\ applied[n] = 0 /\ DOMAIN writes = {}
        /\ \A c \in Callers : Holds[c] = {}
    BY DEF Init, Holds, Calling, Idle
  <2>2. Button \in Callers
    BY Everyone
  <2> QED BY <2>1, <2>2 DEF Fresh, Known, Once, HeldOnce, CarriedOutOnce
<1>2. TypeOK /\ Shape /\ OnceInv /\ [Next]_vars => (TypeOK /\ Shape /\ OnceInv)'
  BY StepTypes, StepOnce
<1>3. OnceInv /\ TypeOK => TwiceOnlyInDoubt
  BY DEF OnceInv, Once, CarriedOutOnce, TwiceOnlyInDoubt, TypeOK
<1> QED BY <1>1, <1>2, <1>3, PTL DEF Spec
=============================================================================
