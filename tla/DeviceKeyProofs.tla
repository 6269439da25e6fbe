---------------------------- MODULE DeviceKeyProofs ----------------------------
(***************************************************************************)
(* Proofs about DeviceKey for any number of calls, names and faults: the     *)
(* types, and what each call finds and holds as long as no two daemons meet  *)
(* at an empty file, because none was there at first, or none starts while   *)
(* another is at it.                                                         *)
(***************************************************************************)
EXTENDS DeviceKey, TLAPS

\* An empty file was there at first only if whoever finds it is left alone with it.
NoMeeting == EmptyOverlaps => "empty" \notin FoundAtFirst

\* Then nobody ever makes one.
NoneIsEmpty == EmptyOverlaps => file # "empty"

--------------------------------------------------------------------------------
(* Types.                                                                     *)

LEMMA StepTyped == ASSUME TypeOK, NEW c \in Calls, Step(c) PROVE TypeOK'
<1> USE KeyAssumption
<1>1. CASE Look(c)
  BY <1>1 DEF TypeOK, Look, Move, Live, At, Keys
<1>2. CASE Clear(c)
  BY <1>2 DEF TypeOK, Clear, Move, Live, At, Keys
<1>3. CASE Stage(c)
  <2>1. PICK n \in Names :
          /\ \A d \in Calls : Live(d) => name[d] # n
          /\ IF staging[n] = "none"
             THEN /\ staging' = [staging EXCEPT ![n] = "part"]
                  /\ name' = [name EXCEPT ![c] = n]
                  /\ Move(c, "staged")
             ELSE UNCHANGED <<staging, name>> /\ Move(c, "failed")
    BY <1>3 DEF Stage
  <2>2. UNCHANGED <<file, private, holds, faults>>
    BY <1>3 DEF Stage
  <2>3. CASE staging[n] = "none"
    BY <2>1, <2>2, <2>3 DEF TypeOK, Move, Live, At, Keys
  <2>4. CASE staging[n] # "none"
    <3>1. UNCHANGED <<staging, name>> /\ at' = [at EXCEPT ![c] = "failed"]
      BY <2>1, <2>4 DEF Move
    <3>2. \A d \in Calls : Live(d)' => Live(d) /\ at'[d] = at[d]
      BY <3>1 DEF TypeOK, Live
    <3>3. at' \in [Calls -> At]
      BY <3>1 DEF TypeOK, At
    <3> QED
      BY <2>2, <3>1, <3>2, <3>3 DEF TypeOK, Live
  <2> QED
    BY <2>3, <2>4
<1>4. CASE Write(c)
  BY <1>4 DEF TypeOK, Write, Move, Live, At, Keys
<1>5. CASE WriteFails(c)
  BY <1>5 DEF TypeOK, WriteFails, Fault, Move, Live, At, Keys
<1>6. CASE Place(c)
  <2>1. at[c] = "written" /\ UNCHANGED <<staging, name, holds, faults>>
    BY <1>6 DEF Place
  <2>2. CASE file = "absent"
    <3>1. file' = c /\ private' = TRUE /\ at' = [at EXCEPT ![c] = "placed"]
      BY <1>6, <2>2 DEF Place, Move
    <3> QED
      BY <2>1, <3>1 DEF TypeOK, Live, At, Keys
  <2>3. CASE file # "absent"
    <3>1. UNCHANGED <<file, private>> /\ at' = [at EXCEPT ![c] = "lost"]
      BY <1>6, <2>3 DEF Place, Move
    <3> QED
      BY <2>1, <3>1 DEF TypeOK, Live, At, Keys
  <2> QED
    BY <2>2, <2>3
<1>7. CASE PlaceFails(c)
  BY <1>7 DEF TypeOK, PlaceFails, Fault, Move, Live, At, Keys
<1>8. CASE Unstage(c)
  BY <1>8 DEF TypeOK, Unstage, Fault, Move, Live, At, Keys
<1>9. CASE Read(c)
  BY <1>9 DEF TypeOK, Read, Move, Live, At, Keys
<1>10. CASE ReadFails(c)
  BY <1>10 DEF TypeOK, ReadFails, Fault, Move, Live, At, Keys
<1>11. CASE Report(c)
  BY <1>11 DEF TypeOK, Report, Move, Live, At, Keys
<1>12. CASE Die(c)
  BY <1>12 DEF TypeOK, Die, Fault, Move, Live, At, Keys
<1> QED
  BY <1>1, <1>2, <1>3, <1>4, <1>5, <1>6, <1>7, <1>8, <1>9, <1>10, <1>11, <1>12 DEF Step

--------------------------------------------------------------------------------
(* The invariant.                                                             *)

\* The invariant holds of what the first call finds.
LEMMA InitHolds == Init => IInv
<1> SUFFICES ASSUME Init PROVE IInv
  OBVIOUS
<1> USE KeyAssumption
<1>1. \A c \in Calls : ~Live(c) /\ ~Busy(c) /\ ~Holds(c) /\ at[c] = "idle"
  BY DEF Init, Live, Busy, Holds
<1>2. file \in {"absent", "empty", "foreign", "old"} /\ private \in BOOLEAN
  <2>1. CASE file = "absent"
    BY <2>1 DEF Init
  <2>2. CASE file # "absent"
    BY <2>2 DEF Init
  <2> QED
    BY <2>1, <2>2
<1>3. TypeOK
  BY <1>1, <1>2 DEF Init, TypeOK, At, Keys
<1>4. file = "absent" => private
  BY DEF Init
<1> QED
  BY <1>1, <1>3, <1>4 DEF IInv

\* A step of any call preserves the invariant.
LEMMA StepHolds ==
  ASSUME NoneIsEmpty, IInv, NEW c \in Calls, Step(c)
  PROVE  NoneIsEmpty' /\ IInv'
<1> USE KeyAssumption
<1>0. IInv'
  <2>1. CASE Look(c)
    BY <2>1 DEF NoneIsEmpty, IInv, TypeOK, Look, Begin, Move, Live, Busy, Holds, At, Keys
  <2>2. CASE Clear(c)
    BY <2>2 DEF IInv, TypeOK, Clear, Move, Live, Busy, Holds, At, Keys
  <2>3. CASE Stage(c)
    <3>1. PICK n \in Names :
            /\ \A d \in Calls : Live(d) => name[d] # n
            /\ IF staging[n] = "none"
               THEN /\ staging' = [staging EXCEPT ![n] = "part"]
                    /\ name' = [name EXCEPT ![c] = n]
                    /\ Move(c, "staged")
               ELSE UNCHANGED <<staging, name>> /\ Move(c, "failed")
      BY <2>3 DEF Stage
    <3>2. at[c] = "making" /\ UNCHANGED <<file, private, holds, faults>>
      BY <2>3 DEF Stage
    <3>3. CASE staging[n] = "none"
      <4>1. /\ staging' = [staging EXCEPT ![n] = "part"]
            /\ name' = [name EXCEPT ![c] = n]
            /\ at' = [at EXCEPT ![c] = "staged"]
        BY <3>1, <3>3 DEF Move
      <4>2. TypeOK'
        BY <3>1, <3>2, <4>1 DEF IInv, TypeOK, Live, At, Keys
      <4> QED
        BY <3>2, <4>1, <4>2 DEF IInv, TypeOK, Live, Busy, Holds
    <3>4. CASE staging[n] # "none"
      BY <3>1, <3>2, <3>4 DEF IInv, TypeOK, Move, Live, Busy, Holds, At, Keys
    <3> QED
      BY <3>3, <3>4
  <2>4. CASE Write(c)
    BY <2>4 DEF IInv, TypeOK, Write, Move, Live, Busy, Holds, At, Keys
  <2>5. CASE WriteFails(c)
    BY <2>5 DEF IInv, TypeOK, WriteFails, Fault, Move, Live, Busy, Holds, At, Keys
  <2>6. CASE Place(c)
    <3>1. at[c] = "written" /\ UNCHANGED <<staging, name, holds, faults>>
      BY <2>6 DEF Place
    <3>2. CASE file = "absent"
      <4>1. file' = c /\ private' = TRUE /\ at' = [at EXCEPT ![c] = "placed"]
        BY <2>6, <3>2 DEF Place, Move
      <4>2. TypeOK'
        BY <3>1, <4>1 DEF IInv, TypeOK, Live, At, Keys
      <4>3. \A d \in Calls :
              ~Holds(d) /\ at[d] \notin {"placed", "lost", "reading", "reporting", "refused"}
        BY <3>2 DEF IInv, Keys, TypeOK, KeyAssumption
      <4>4. c \in Keys /\ c \notin {"absent", "empty", "foreign"}
        BY DEF Keys, KeyAssumption
      <4>5. at \in [Calls -> At]
        BY DEF IInv, TypeOK
      <4> QED
        BY <3>1, <3>2, <4>1, <4>2, <4>3, <4>4, <4>5 DEF IInv, Live, Busy, Holds
    <3>3. CASE file # "absent"
      <4>1. UNCHANGED <<file, private>> /\ at' = [at EXCEPT ![c] = "lost"]
        BY <2>6, <3>3 DEF Place, Move
      <4>2. TypeOK'
        BY <3>1, <4>1 DEF IInv, TypeOK, Live, At, Keys
      <4>3. at \in [Calls -> At]
        BY DEF IInv, TypeOK
      <4> QED
        BY <3>1, <3>3, <4>1, <4>2, <4>3 DEF IInv, Live, Busy, Holds
    <3> QED
      BY <3>2, <3>3
  <2>7. CASE PlaceFails(c)
    BY <2>7 DEF IInv, TypeOK, PlaceFails, Fault, Move, Live, Busy, Holds, At, Keys
  <2>8. CASE Unstage(c)
    BY <2>8 DEF IInv, TypeOK, Unstage, Fault, Move, Live, Busy, Holds, At, Keys
  <2>9. CASE Read(c)
    BY <2>9 DEF IInv, TypeOK, Read, Move, Live, Busy, Holds, At, Keys
  <2>10. CASE ReadFails(c)
    BY <2>10 DEF IInv, TypeOK, ReadFails, Fault, Move, Live, Busy, Holds, At, Keys
  <2>11. CASE Report(c)
    BY <2>11 DEF IInv, TypeOK, Report, Move, Live, Busy, Holds, At, Keys
  <2>12. CASE Die(c)
    BY <2>12 DEF IInv, TypeOK, Die, Fault, Move, Live, Busy, Holds, At, Keys
  <2> QED
    BY <2>1, <2>2, <2>3, <2>4, <2>5, <2>6, <2>7, <2>8, <2>9, <2>10, <2>11, <2>12 DEF Step
<1>1. file' \in {file, "absent", c}
  BY DEF Step, Look, Clear, Stage, Write, WriteFails, Place, PlaceFails, Unstage, Read, ReadFails, Report, Die
<1>2. c # "empty"
  BY KeyAssumption
<1> QED
  BY <1>0, <1>1, <1>2 DEF NoneIsEmpty

\* The invariant holds in every reachable state.
LEMMA Inductive == ASSUME NoMeeting PROVE Spec => []IInv
<1>1. Init => NoneIsEmpty /\ IInv
  <2>1. Init => NoneIsEmpty
    BY DEF NoMeeting, NoneIsEmpty, Init
  <2> QED
    BY <2>1, InitHolds
<1>2. NoneIsEmpty /\ IInv /\ [Next]_vars => NoneIsEmpty' /\ IInv'
  <2> SUFFICES ASSUME NoneIsEmpty, IInv, [Next]_vars PROVE NoneIsEmpty' /\ IInv'
    OBVIOUS
  <2>1. CASE Next
    BY <2>1, StepHolds DEF Next
  <2>2. CASE UNCHANGED vars
    BY <2>2 DEF NoneIsEmpty, IInv, TypeOK, vars, Live, Busy, Holds
  <2> QED
    BY <2>1, <2>2
<1> QED
  BY <1>1, <1>2, PTL DEF Spec

\* TypeOK: what a call links into place is a whole file that it alone wrote, whoever
\* meets whom.
THEOREM TypeCorrect == Spec => []TypeOK
<1>1. Init => TypeOK
  BY InitHolds DEF IInv
<1>2. TypeOK /\ [Next]_vars => TypeOK'
  <2> SUFFICES ASSUME TypeOK, [Next]_vars PROVE TypeOK'
    OBVIOUS
  <2>1. CASE UNCHANGED vars
    BY <2>1 DEF TypeOK, vars, Live
  <2> QED
    BY <2>1, StepTyped DEF Next
<1> QED
  BY <1>1, <1>2, PTL DEF Spec

\* OneSigner: every daemon that load_or_create gives a key, and every report of
\* public_key_in, holds the key that is in the file, so they all hold the same one.
THEOREM OneKeyPerAccount == ASSUME NoMeeting PROVE Spec => []OneSigner
<1>1. IInv => OneSigner
  BY DEF IInv, OneSigner
<1> QED
  BY <1>1, Inductive, PTL

\* NoHalfKey: read_key refuses only a file that was never a key or that others may read.
THEOREM NoKeyIsHalfWritten == ASSUME NoMeeting PROVE Spec => []NoHalfKey
<1>1. IInv => NoHalfKey
  BY DEF IInv, NoHalfKey
<1> QED
  BY <1>1, Inductive, PTL

\* NeverReplaced: no step takes away or overwrites a file that is not empty.
THEOREM KeyIsNeverReplaced == ASSUME NoMeeting PROVE Spec => NeverReplaced
<1>1. IInv /\ [Next]_vars => [file \notin {"absent", "empty"} => file' = file]_vars
  <2> SUFFICES ASSUME IInv, [Next]_vars, file \notin {"absent", "empty"} PROVE file' = file
    OBVIOUS
  <2>1. CASE UNCHANGED vars
    BY <2>1 DEF vars
  <2>2. ASSUME NEW c \in Calls, Step(c) PROVE file' = file
    BY <2>2 DEF IInv, Step, Look, Clear, Stage, Write, WriteFails, Place, PlaceFails, Unstage,
      Read, ReadFails, Report, Die
  <2> QED
    BY <2>1, <2>2 DEF Next
<1> QED
  BY <1>1, Inductive, PTL DEF Spec, NeverReplaced
================================================================================
