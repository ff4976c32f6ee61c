------------------------ MODULE MeridianEngineProofs ------------------------
(***************************************************************************)
(* Theorems about MeridianEngine.  The types, TerminateEndsLoop and the    *)
(* size of the frame buffer are proved with every failure and every hook   *)
(* call allowed; that the engine in use is whole, and the lifecycle, for   *)
(* the documented use of the engine.                                       *)
(***************************************************************************)
EXTENDS MeridianEngine, TLAPS, SequenceTheorems

USE DEF Hooks, HostPcs, LoopPcs, UnloadPcs, Pcs

(* Where an outermost Unload returns to: the host, its Load, or a hook.    *)
Callers == {"loaded", "unloaded", "preHook", "loopHook"}

(* The calls of Unload in progress: an outermost one, and above it one for *)
(* every post hook that called Unload again.                               *)
StackOK ==
  /\ pc \in UnloadPcs => ret # << >>
  /\ pc \notin UnloadPcs \cup {"dead"} => ret = << >>
  /\ \A i \in 1 .. Len(ret) :
       IF i < Len(ret) THEN ret[i] = "postHook" ELSE ret[i] \in Callers

TypeInv == TypeOK /\ StackOK

(* The end of a call of Unload goes back to where it was called.           *)
LEMMA ReturnTarget ==
  ASSUME TypeInv, pc \in UnloadPcs, Return
  PROVE  /\ pc' \in Callers \cup {"postHook"}
         /\ ret' \in Seq(Pcs)
         /\ StackOK'
         /\ fault' = fault
         /\ Len(ret) = 1 => pc' = ret[Len(ret)] /\ ret' = << >>
         /\ Len(ret) # 1 => /\ pc' = "postHook"
                            /\ ret' # << >>
                            /\ ret'[Len(ret')] = ret[Len(ret)]
  <1>1. ret \in Seq(Pcs) /\ ret # << >>
    BY DEF TypeInv, TypeOK, StackOK
  <1>2. /\ Len(ret) \in Nat \ {0}
        /\ ret' = Tail(ret) /\ ret' \in Seq(Pcs)
        /\ Len(ret') = Len(ret) - 1
        /\ \A i \in 1 .. Len(ret') : ret'[i] = ret[i + 1]
        /\ pc' = ret[1] /\ fault' = fault
    BY <1>1, HeadTailProperties, EmptySeq, LenProperties DEF Return, Goto
  <1>3. \A i \in 1 .. Len(ret) :
          IF i < Len(ret) THEN ret[i] = "postHook" ELSE ret[i] \in Callers
    BY DEF TypeInv, StackOK
  <1>4. \A i \in 1 .. Len(ret') :
          IF i < Len(ret') THEN ret'[i] = "postHook" ELSE ret'[i] \in Callers
    BY <1>2, <1>3
  <1>5. CASE Len(ret) = 1
    <2>1. pc' = ret[Len(ret)] /\ pc' \in Callers /\ ret' = << >>
      BY <1>2, <1>3, <1>5, EmptySeq
    <2> QED
      BY <1>2, <1>4, <1>5, <2>1 DEF StackOK, Callers
  <1>6. CASE Len(ret) # 1
    <2>1. Len(ret') \in Nat \ {0} /\ pc' = "postHook"
      BY <1>2, <1>3, <1>6
    <2>2. ret' # << >>
      BY <2>1
    <2>3. ret'[Len(ret')] = ret[Len(ret)]
      BY <1>2, <2>1
    <2> QED
      BY <1>2, <1>4, <1>6, <2>1, <2>2, <2>3 DEF StackOK
  <1> QED
    BY <1>5, <1>6

(* A hook that calls Unload is a place to return to.                       *)
LEMMA PushHook ==
  ASSUME TypeInv, pc \in Hooks, ret' = << pc >> \o ret, pc' = "unload"
  PROVE  /\ ret' \in Seq(Pcs)
         /\ StackOK'
         /\ pc = "postHook" => ret'[Len(ret')] = ret[Len(ret)]
         /\ pc # "postHook" => ret'[Len(ret')] = pc
  <1>1. ret \in Seq(Pcs) /\ << pc >> \in Seq(Pcs) /\ Len(<< pc >>) = 1
    BY DEF TypeInv, TypeOK
  <1>2. /\ ret' \in Seq(Pcs)
        /\ Len(ret) \in Nat
        /\ Len(ret') = 1 + Len(ret)
        /\ \A i \in 1 .. Len(ret') :
             ret'[i] = IF i <= 1 THEN << pc >>[i] ELSE ret[i - 1]
    BY <1>1, ConcatProperties, LenProperties
  <1>3. /\ ret'[1] = pc
        /\ \A i \in 1 .. Len(ret) : ret'[i + 1] = ret[i]
    BY <1>2
  <1>4. /\ \A i \in 1 .. Len(ret) :
             IF i < Len(ret) THEN ret[i] = "postHook" ELSE ret[i] \in Callers
        /\ pc = "postHook" => ret # << >>
        /\ pc # "postHook" => ret = << >>
    BY DEF TypeInv, StackOK
  <1>5. ret' # << >>
    BY <1>2
  <1>6. CASE pc = "postHook"
    <2>1. Len(ret) \in Nat \ {0}
      BY <1>1, <1>4, <1>6, EmptySeq
    <2>2. \A i \in 1 .. Len(ret') :
            IF i < Len(ret') THEN ret'[i] = "postHook" ELSE ret'[i] \in Callers
      <3> SUFFICES ASSUME NEW i \in 1 .. Len(ret')
                   PROVE  IF i < Len(ret') THEN ret'[i] = "postHook" ELSE ret'[i] \in Callers
        OBVIOUS
      <3>1. CASE i = 1
        BY <1>2, <1>3, <1>6, <2>1, <3>1
      <3>2. CASE i # 1
        <4>1. i - 1 \in 1 .. Len(ret) /\ ret'[i] = ret[i - 1]
          BY <1>2, <3>2
        <4>2. i < Len(ret') <=> i - 1 < Len(ret)
          BY <1>2
        <4> QED
          BY <1>4, <4>1, <4>2
      <3> QED
        BY <3>1, <3>2
    <2>3. ret'[Len(ret')] = ret[Len(ret)]
      BY <1>2, <2>1
    <2> QED
      BY <1>2, <1>5, <1>6, <2>2, <2>3 DEF StackOK
  <1>7. CASE pc # "postHook"
    <2>1. Len(ret') = 1 /\ ret'[1] = pc /\ pc \in Callers
      BY <1>2, <1>3, <1>4, <1>7, EmptySeq DEF Callers
    <2> QED
      BY <1>2, <1>5, <1>7, <2>1 DEF StackOK
  <1> QED
    BY <1>6, <1>7

-----------------------------------------------------------------------------
(* Type correctness.                                                       *)

LEMMA InitTypeInv == Init => TypeInv
  <1> SUFFICES ASSUME Init
               PROVE  TypeInv
    OBVIOUS
  <1>1. TypeOK
    <2>1. /\ winSize \in Sizes
          /\ managers \in 0 .. MaxLoads
      BY SizesAssumption, PositionsAssumption, BoundsAssumption DEF Init
    <2>2. prev \in Viewport /\ now \in Viewport
      BY PositionsAssumption DEF Init, Constructed, Viewport
    <2>3. ret \in Seq(Pcs) /\ hooks \in [Hooks -> {"set", "unset"}]
      BY EmptySeq DEF Init
    <2>4. delta \in Nat /\ frame \in [duration : Nat, slept : Nat]
      BY DEF Init, NoFrame
    <2> QED
      BY <2>1, <2>2, <2>3, <2>4 DEF Init, Constructed, TypeOK, Faults
  <1>2. StackOK
    BY EmptySeq DEF Init, StackOK
  <1> QED
    BY <1>1, <1>2 DEF TypeInv

(* A second is a positive number of the clock's units.                     *)
LEMMA ClockIsPositive == 1000 * Resolution * Frequency \in Nat \ {0}
  <1> DEFINE k == 1000 * Resolution
  <1>1. k \in Nat /\ k > 0 /\ Frequency \in Nat /\ Frequency > 0
    BY ClockAssumption
  <1> HIDE DEF k
  <1>2. k * Frequency \in Nat /\ k * Frequency > 0
    BY <1>1
  <1> QED
    BY <1>2 DEF k

(* The clock of a frame stays within the naturals: Sleep is only called    *)
(* with a remainder, and the delta is a duration.                          *)
LEMMA SleepIsNatural ==
  ASSUME NEW d \in Nat, Remainder(d) > 0
  PROVE  SleepFor(d) \in Nat
  <1>1. d * Frequency \in Nat
    BY ClockAssumption
  <1>2. 1000000 * Resolution \in Nat
    BY ClockAssumption, SMT
  <1>3. Remainder(d) \in Nat
    BY <1>1, <1>2, SMT DEF Remainder
  <1>4. 1000 * Resolution * Frequency \in Nat \ {0}
    BY ClockIsPositive
  <1>5. \A m \in Nat, n \in Nat \ {0} : m \div n \in Nat
    OBVIOUS
  <1> QED
    BY <1>3, <1>4, <1>5 DEF SleepFor

LEMMA FrameTypes ==
  ASSUME TypeOK, EndOfFrame
  PROVE  delta' \in Nat /\ frame' \in [duration : Nat, slept : Nat]
  <1>1. PICK d \in Durations :
          IF Remainder(d) > 0
            THEN frame' = [duration |-> d, slept |-> SleepFor(d)] /\ delta' = delta
            ELSE frame' = [duration |-> d, slept |-> 0] /\ delta' = d * Frequency
    BY DEF EndOfFrame
  <1>2. d \in Nat /\ d * Frequency \in Nat /\ delta \in Nat
    BY ClockAssumption DEF TypeOK
  <1> QED
    BY <1>1, <1>2, SleepIsNatural

LEMMA NextTypeInv == TypeInv /\ [Next]_vars => TypeInv'
  <1> SUFFICES ASSUME TypeInv, [Next]_vars
               PROVE  TypeInv'
    OBVIOUS
  <1> USE DEF hostVars, windowVars, viewVars, clockVars, flagVars, Goto, Die, Faults
  <1>1. TypeOK /\ StackOK
    BY DEF TypeInv
  <1>2. ASSUME NEW h \in Hooks, HookTo(h)
        PROVE  TypeInv'
    <2>1. hooks' \in [Hooks -> {"set", "unset"}]
      BY <1>1, <1>2 DEF HookTo, TypeOK
    <2> QED
      BY <1>1, <1>2, <2>1 DEF HookTo, TypeInv, TypeOK, StackOK
  <1>3. CASE LoadWithoutGlfw
    BY <1>1, <1>3 DEF LoadWithoutGlfw, CanLoad, TypeInv, TypeOK, StackOK
  <1>4. CASE LoadWithoutWindow \/ LoadWithoutGL
    <2>1. /\ ret' = << "loaded" >> /\ pc' = "unload" /\ fault' = fault
          /\ pc # "dead"
          /\ window' \in {"null", "open"} /\ winSize' \in Sizes /\ closing' \in BOOLEAN
          /\ initialised' = TRUE
          /\ UNCHANGED << hostVars, gl, viewVars, clockVars, running, stopAsked >>
      BY <1>1, <1>4, SizesAssumption DEF LoadWithoutWindow, LoadWithoutGL, CanLoad, TypeOK
    <2>2. /\ ret' \in Seq(Pcs) /\ ret' # << >> /\ Len(ret') = 1
          /\ \A i \in 1 .. Len(ret') : i = 1 /\ ret'[i] = "loaded"
      BY <2>1
    <2>3. StackOK'
      BY <2>1, <2>2 DEF StackOK, Callers
    <2>4. TypeOK'
      BY <1>1, <2>1, <2>2 DEF TypeOK
    <2> QED
      BY <2>3, <2>4 DEF TypeInv
  <1>5. CASE Load
    <2>1. managers' \in 1 .. MaxLoads /\ managers' \in 0 .. MaxLoads
      BY <1>1, <1>5, BoundsAssumption DEF Load, CanLoad, TypeOK
    <2>2. live' \subseteq Modules \X (1 .. MaxLoads)
      BY <1>1, <1>5, <2>1 DEF Load, TypeOK
    <2>3. /\ pc # "dead" /\ pc \notin UnloadPcs
          /\ pc' \in {"preHook", "loaded"} /\ fault' = fault
      BY <1>5 DEF Load, CanLoad, CallHook
    <2>4. ret' = ret /\ ret = << >>
      BY <1>1, <1>5, <2>3 DEF Load, StackOK
    <2>5. TypeOK'
      <3>1. InitSize \in Sizes
        BY SizesAssumption
      <3> QED
        BY <1>1, <1>5, <2>1, <2>2, <2>3, <2>4, <3>1 DEF Load, TypeOK
    <2>6. StackOK'
      BY <1>1, <2>3, <2>4 DEF StackOK
    <2> QED
      BY <2>5, <2>6 DEF TypeInv
  <1>6. CASE Run
    BY <1>1, <1>6 DEF Run, TypeInv, TypeOK, StackOK
  <1>7. CASE CallUnload
    <2>1. /\ ret' \in Seq(Pcs) /\ ret' # << >> /\ Len(ret') = 1
          /\ \A i \in 1 .. Len(ret') : i = 1 /\ ret'[i] = "unloaded"
      BY <1>7 DEF CallUnload
    <2>2. StackOK'
      BY <1>7, <2>1 DEF CallUnload, StackOK, Callers
    <2>3. TypeOK'
      BY <1>1, <1>7, <2>1 DEF CallUnload, TypeOK
    <2> QED
      BY <2>2, <2>3 DEF TypeInv
  <1>8. CASE Delete
    <2>1. live' \subseteq live
      BY <1>8 DEF Delete
    <2> QED
      BY <1>1, <1>8, <2>1 DEF Delete, TypeInv, TypeOK, StackOK
  <1>9. CASE LoopCondition
    <2>1. delta' \in Nat /\ frame' \in [duration : Nat, slept : Nat]
      BY <1>1, <1>9 DEF LoopCondition, NoFrame, TypeOK
    <2> QED
      BY <1>1, <1>9, <2>1 DEF LoopCondition, TypeInv, TypeOK, StackOK
  <1>10. CASE PollEvents
    BY <1>1, <1>10 DEF PollEvents, TypeInv, TypeOK, StackOK
  <1>11. CASE Frame
    <2>1. prev' \in Viewport /\ now' \in Viewport
      BY <1>1, <1>11 DEF Frame, TypeOK, Viewport
    <2>2. /\ \/ pc' \in {"loopHook", "input"} /\ fault' = fault
             \/ pc' = "dead" /\ fault' \in {"noGL", "assert"}
          /\ fbo' \in {fbo, winSize}
      BY <1>11 DEF Frame, Render, CallHook
    <2> QED
      BY <1>1, <1>11, <2>1, <2>2 DEF Frame, TypeInv, TypeOK, StackOK
  <1>12. CASE EndOfFrame
    <2>1. delta' \in Nat /\ frame' \in [duration : Nat, slept : Nat]
      BY <1>1, <1>12, FrameTypes
    <2> QED
      BY <1>1, <1>12, <2>1 DEF EndOfFrame, TypeInv, TypeOK, StackOK
  <1>13. CASE Terminate
    BY <1>1, <1>13 DEF Terminate, TypeInv, TypeOK, StackOK
  <1>14. ASSUME NEW what \in {"ALL", "POSITION", "SIZE"}, NEW pos \in Positions,
                NEW size \in Sizes, SetViewport(what, pos, size)
         PROVE  TypeInv'
    <2>1. now' \in Viewport
      BY <1>1, <1>14 DEF SetViewport, TypeOK, Viewport
    <2>2. winSize' \in Sizes
      BY <1>1, <1>14 DEF SetViewport, TypeOK
    <2>3. \/ pc' = pc /\ fault' = fault
          \/ pc' = "dead" /\ fault' = "nullWindow"
      BY <1>14 DEF SetViewport
    <2> QED
      BY <1>1, <1>14, <2>1, <2>2, <2>3 DEF SetViewport, TypeInv, TypeOK, StackOK
  <1>15. CASE UnloadFromHook
    <2>1. ret' \in Seq(Pcs) /\ StackOK'
      BY <1>15, PushHook DEF UnloadFromHook
    <2> QED
      BY <1>1, <1>15, <2>1 DEF UnloadFromHook, TypeInv, TypeOK
  <1>16. CASE HookReturn
    BY <1>1, <1>16 DEF HookReturn, HookReturns, TypeInv, TypeOK, StackOK
  <1>17. CASE Unload
    <2>1. CASE initialised
      <3>1. ret' = ret /\ pc' \in {"postHook", "finalise"} /\ fault' = fault
        BY <1>17, <2>1 DEF Unload, CallHook
      <3> QED
        BY <1>1, <1>17, <3>1 DEF Unload, TypeInv, TypeOK, StackOK
    <2>2. CASE ~ initialised
      <3>1. pc \in UnloadPcs /\ Return
        BY <1>17, <2>2 DEF Unload
      <3>2. /\ pc' \in Callers \cup {"postHook"} /\ ret' \in Seq(Pcs)
            /\ StackOK' /\ fault' = fault
        BY <3>1, ReturnTarget
      <3> QED
        BY <1>1, <1>17, <3>2 DEF Unload, TypeInv, TypeOK, Callers
    <2> QED
      BY <2>1, <2>2
  <1>18. CASE Finalise
    <2>1. CASE gl
      <3>1. pc \in UnloadPcs /\ Return
        BY <1>18, <2>1 DEF Finalise
      <3>2. /\ pc' \in Callers \cup {"postHook"} /\ ret' \in Seq(Pcs)
            /\ StackOK' /\ fault' = fault
        BY <3>1, ReturnTarget
      <3> QED
        BY <1>1, <1>18, <2>1, <3>2 DEF Finalise, Finalised, TypeInv, TypeOK, Callers
    <2>2. CASE ~ gl
      BY <1>1, <1>18, <2>2 DEF Finalise, TypeInv, TypeOK, StackOK
    <2> QED
      BY <2>1, <2>2
  <1>19. CASE UNCHANGED vars
    BY <1>1, <1>19 DEF vars, TypeInv, TypeOK, StackOK
  <1> QED
    BY <1>2, <1>3, <1>4, <1>5, <1>6, <1>7, <1>8, <1>9, <1>10, <1>11, <1>12,
       <1>13, <1>14, <1>15, <1>16, <1>17, <1>18, <1>19 DEF Next

THEOREM TypeInvHolds == Spec => []TypeInv
  BY InitTypeInv, NextTypeInv, PTL DEF Spec

(* Every variable of the engine always has its type, and the stack of      *)
(* calls of Unload is never popped empty, whatever fails, whatever the     *)
(* hooks call and however deep Unload is called from post hooks.           *)
THEOREM TypeCorrect == Spec => []TypeOK
  BY TypeInvHolds, PTL DEF TypeInv
-----------------------------------------------------------------------------
(* The clock.  A duration and the Sleep it leaves, rounded up, exceed the  *)
(* target: seconds taken from milliseconds make the Sleep too long.        *)
LEMMA SleepFillsTheTick ==
  ASSUME NEW d \in Nat, Remainder(d) > 0
  PROVE  (d + (SleepFor(d) + 1) * Resolution) * Frequency > 1000 * Resolution
  <1> DEFINE f == Frequency
             p == Resolution
             s == SleepFor(d)
             r == Remainder(d)
             w == 1000 * p * f
  <1>1. f \in Nat /\ p \in Nat /\ s \in Nat /\ w \in Nat \ {0}
    BY ClockAssumption, ClockIsPositive, SleepIsNatural
  <1>2. d * f \in Nat /\ p * f \in Nat
    BY <1>1
  <1>3. r = 1000000 * p - d * f
    BY DEF Remainder
  <1>4. r \in Nat
    BY <1>1, <1>2, <1>3, SMT
  <1>5. s = r \div w
    BY DEF SleepFor
  <1> HIDE DEF f, p, s, r
  <1> DEFINE x == (s + 1) * (p * f)
  <1>6. (s + 1) * w = 1000 * x
    BY <1>1, <1>2
  <1>7. x \in Nat
    BY <1>1, <1>2
  <1>8. (d + (s + 1) * p) * f = d * f + x
    BY <1>1
  <1> HIDE DEF x, w
  <1>9. r < (s + 1) * w
    BY <1>1, <1>4, <1>5, \A m \in Nat, n \in Nat \ {0} : m < ((m \div n) + 1) * n
  <1>10. d * f + x > 1000 * p
    BY <1>1, <1>2, <1>3, <1>6, <1>7, <1>9, SMT
  <1> QED
    BY <1>8, <1>10 DEF f, p, s

(* A duration without a remainder is beyond the target already.            *)
LEMMA OverrunIsLong ==
  ASSUME NEW d \in Nat, ~ (Remainder(d) > 0)
  PROVE  (d + (0 + 1) * Resolution) * Frequency > 1000 * Resolution
  <1> DEFINE f == Frequency
             p == Resolution
  <1>1. f \in Nat /\ f > 0 /\ p \in Nat /\ p > 0 /\ d * f \in Nat /\ p * f \in Nat
    BY ClockAssumption
  <1>2. d * f >= 1000000 * p
    BY <1>1, SMT DEF Remainder
  <1> HIDE DEF f, p
  <1>3. (d + (0 + 1) * p) * f = d * f + p * f
    BY <1>1
  <1>4. d * f + p * f > 1000 * p
    BY <1>1, <1>2, SMT
  <1> QED
    BY <1>3, <1>4 DEF f, p

(* For every frequency, every duration and however finely it is measured,  *)
(* a frame and its sleep are less than a millisecond short of the target.  *)
THEOREM LoopIsNeverTooFast == Spec => NeverTooFast
  <1>1. TypeInv /\ [Next]_vars =>
          [pc = "input" /\ pc' = "cond" =>
             (frame'.duration + (frame'.slept + 1) * Resolution) * Frequency
               > 1000 * Resolution]_vars
    <2> SUFFICES ASSUME TypeInv, Next, pc = "input", pc' = "cond"
                 PROVE  (frame'.duration + (frame'.slept + 1) * Resolution) * Frequency
                          > 1000 * Resolution
      BY DEF TypeInv
    <2>1. EndOfFrame
      BY DEF Next, HookTo, LoadWithoutGlfw, LoadWithoutWindow, LoadWithoutGL, Load, CanLoad,
             Run, CallUnload, Delete, LoopCondition, PollEvents, Frame, Terminate,
             SetViewport, UnloadFromHook, HookReturn, HookReturns, Unload, Finalise
    <2>2. PICK d \in Durations :
            IF Remainder(d) > 0
              THEN frame' = [duration |-> d, slept |-> SleepFor(d)]
              ELSE frame' = [duration |-> d, slept |-> 0]
      BY <2>1 DEF EndOfFrame
    <2>3. d \in Nat
      BY ClockAssumption
    <2>4. CASE Remainder(d) > 0
      <3>1. frame'.duration = d /\ frame'.slept = SleepFor(d)
        BY <2>2, <2>4
      <3> QED
        BY <2>3, <2>4, <3>1, SleepFillsTheTick
    <2>5. CASE ~ (Remainder(d) > 0)
      <3>1. frame'.duration = d /\ frame'.slept = 0
        BY <2>2, <2>5
      <3> QED
        BY <2>3, <2>5, <3>1, OverrunIsLong
    <2> QED
      BY <2>4, <2>5
  <1> QED
    BY <1>1, TypeInvHolds, PTL DEF Spec, NeverTooFast
-----------------------------------------------------------------------------
(* Terminate.  After the loop hook has called it the thread is on its way  *)
(* out of the loop, or inside an Unload the loop hook called, which        *)
(* returns to the loop hook; nothing on these ways sets m_isRunning again. *)
TermInv ==
  stopAsked = "loopHook" =>
    /\ ~ running
    /\ \/ pc \in {"loopHook", "input", "cond", "dead"}
       \/ pc \in UnloadPcs /\ ret[Len(ret)] = "loopHook"

LEMMA NextTermInv == TypeInv /\ TermInv /\ [Next]_vars => TermInv'
  <1> SUFFICES ASSUME TypeInv, TermInv, [Next]_vars
               PROVE  TermInv'
    OBVIOUS
  <1> USE DEF hostVars, windowVars, viewVars, clockVars, flagVars, Goto, Die
  <1>1. CASE Load
    BY <1>1 DEF Load, TermInv
  <1>2. CASE Terminate
    <2>1. pc # "loopHook" => stopAsked' # "loopHook"
      BY <1>2 DEF Terminate
    <2>2. pc' = pc /\ ~ running'
      BY <1>2 DEF Terminate
    <2> QED
      BY <2>1, <2>2 DEF TermInv
  <1>3. CASE UnloadFromHook
    <2>1. /\ pc \in Hooks /\ pc' = "unload"
          /\ pc = "postHook" => ret'[Len(ret')] = ret[Len(ret)]
          /\ pc # "postHook" => ret'[Len(ret')] = pc
      BY <1>3, PushHook DEF UnloadFromHook
    <2>2. UNCHANGED << stopAsked, running >>
      BY <1>3 DEF UnloadFromHook
    <2> QED
      BY <2>1, <2>2 DEF TermInv
  <1>4. ASSUME pc \in UnloadPcs, Return, UNCHANGED << stopAsked, running >>
        PROVE  TermInv'
    <2>1. /\ Len(ret) = 1 => pc' = ret[Len(ret)]
          /\ Len(ret) # 1 => pc' = "postHook" /\ ret'[Len(ret')] = ret[Len(ret)]
      BY <1>4, ReturnTarget
    <2> QED
      BY <1>4, <2>1 DEF TermInv
  <1>5. CASE Unload
    <2>1. CASE initialised
      <3>1. /\ pc \in UnloadPcs /\ pc' \in {"postHook", "finalise", "dead"}
            /\ UNCHANGED << ret, stopAsked, running >>
        BY <1>5, <2>1 DEF Unload, CallHook
      <3> QED
        BY <3>1 DEF TermInv
    <2>2. CASE ~ initialised
      BY <1>4, <1>5, <2>2 DEF Unload
    <2> QED
      BY <2>1, <2>2
  <1>6. CASE Finalise
    <2>1. CASE gl
      BY <1>4, <1>6, <2>1 DEF Finalise
    <2>2. CASE ~ gl
      BY <1>6, <2>2 DEF Finalise, TermInv
    <2> QED
      BY <2>1, <2>2
  <1>7. ASSUME NEW h \in Hooks, HookTo(h)
        PROVE  TermInv'
    BY <1>7 DEF HookTo, TermInv
  <1>8. CASE LoadWithoutGlfw \/ LoadWithoutWindow \/ LoadWithoutGL
    BY <1>8 DEF LoadWithoutGlfw, LoadWithoutWindow, LoadWithoutGL, CanLoad, TermInv
  <1>9. CASE Run \/ CallUnload \/ Delete
    BY <1>9 DEF Run, CallUnload, Delete, TermInv
  <1>10. CASE LoopCondition
    BY <1>10 DEF LoopCondition, LoopGoesOn, TermInv
  <1>11. CASE PollEvents \/ EndOfFrame
    BY <1>11 DEF PollEvents, EndOfFrame, TermInv
  <1>12. CASE Frame
    BY <1>12 DEF Frame, TermInv
  <1>13. ASSUME NEW what \in {"ALL", "POSITION", "SIZE"}, NEW pos \in Positions,
                NEW size \in Sizes, SetViewport(what, pos, size)
         PROVE  TermInv'
    <2>1. /\ pc' \in {pc, "dead"}
          /\ UNCHANGED << ret, stopAsked, running >>
      BY <1>13 DEF SetViewport
    <2> QED
      BY <2>1 DEF TermInv
  <1>14. CASE HookReturn
    BY <1>14 DEF HookReturn, HookReturns, TermInv
  <1>15. CASE UNCHANGED vars
    BY <1>15 DEF vars, TermInv
  <1> QED
    BY <1>1, <1>2, <1>3, <1>5, <1>6, <1>7, <1>8, <1>9, <1>10, <1>11, <1>12,
       <1>13, <1>14, <1>15 DEF Next

(* Once the loop hook has called Terminate no event is polled and no frame *)
(* drawn before Run returns, whatever else the hooks do: even an Unload    *)
(* they call, and the post hooks it runs, cannot revive the loop.          *)
THEOREM TerminateIsFinal == Spec => []TerminateEndsLoop
  <1>1. Init => TermInv
    BY DEF Init, TermInv
  <1>2. TermInv => TerminateEndsLoop
    BY DEF TermInv, TerminateEndsLoop
  <1> QED
    BY <1>1, <1>2, NextTermInv, TypeInvHolds, PTL DEF Spec
-----------------------------------------------------------------------------
(* Ownership.  A context has its window and frame buffer, an engine that   *)
(* is not initialised has nothing, and one that is initialised and has no  *)
(* context never leaves Unload again.                                      *)
OwnInv ==
  /\ gl => initialised /\ window = "open" /\ fbo # NoFbo
  /\ ~ gl => fbo = NoFbo
  /\ ~ initialised => window # "open"
  /\ initialised /\ ~ gl => pc \in UnloadPcs \cup {"dead"}

LEMMA NextOwnInv == TypeInv /\ OwnInv /\ [Next]_vars => OwnInv'
  <1> SUFFICES ASSUME TypeInv, OwnInv, [Next]_vars
               PROVE  OwnInv'
    OBVIOUS
  <1> USE DEF hostVars, windowVars, viewVars, clockVars, flagVars, Goto, Die
  <1>1. winSize \in Sizes /\ winSize # NoFbo /\ InitSize # NoFbo
    BY SizesAssumption DEF TypeInv, TypeOK, NoFbo
  (* Steps that own what they owned, and stay in Unload or out of it. *)
  <1>2. ASSUME UNCHANGED << initialised, window, gl, fbo >>,
               pc \in UnloadPcs => pc' \in UnloadPcs \cup {"dead"},
               pc # "dead"
        PROVE  OwnInv'
    BY <1>2 DEF OwnInv
  <1>3. ASSUME NEW h \in Hooks, HookTo(h)
        PROVE  OwnInv'
    BY <1>2, <1>3 DEF HookTo
  <1>4. CASE LoadWithoutGlfw
    BY <1>2, <1>4 DEF LoadWithoutGlfw, CanLoad
  <1>5. CASE LoadWithoutWindow \/ LoadWithoutGL
    <2>1. ~ initialised /\ initialised' = TRUE /\ pc' = "unload" /\ UNCHANGED << gl, fbo >>
      BY <1>5 DEF LoadWithoutWindow, LoadWithoutGL, CanLoad
    <2> QED
      BY <2>1 DEF OwnInv
  <1>6. CASE Load
    BY <1>1, <1>6 DEF Load, OwnInv
  <1>7. CASE Run \/ CallUnload \/ Delete
    BY <1>2, <1>7 DEF Run, CallUnload, Delete
  <1>8. CASE LoopCondition \/ PollEvents \/ EndOfFrame
    BY <1>2, <1>8 DEF LoopCondition, PollEvents, EndOfFrame
  <1>9. CASE Frame
    <2>1. pc = "frame" /\ UNCHANGED << initialised, window, gl >>
      BY <1>9 DEF Frame
    <2>2. \/ fbo' = fbo
          \/ gl /\ fbo' = winSize
      BY <1>9 DEF Frame, Render
    <2> QED
      BY <1>1, <2>1, <2>2 DEF OwnInv
  <1>10. CASE Terminate \/ UnloadFromHook \/ HookReturn
    BY <1>2, <1>10 DEF Terminate, UnloadFromHook, HookReturn, HookReturns
  <1>11. ASSUME NEW what \in {"ALL", "POSITION", "SIZE"}, NEW pos \in Positions,
                NEW size \in Sizes, SetViewport(what, pos, size)
         PROVE  OwnInv'
    <2>1. /\ pc \in Hooks /\ pc' \in {pc, "dead"}
          /\ UNCHANGED << initialised, window, gl, fbo >>
      BY <1>11 DEF SetViewport
    <2> QED
      BY <1>2, <2>1
  <1>12. CASE Unload
    <2>1. CASE initialised
      BY <1>2, <1>12, <2>1 DEF Unload, CallHook
    <2>2. CASE ~ initialised
      BY <1>12, <2>2 DEF Unload, OwnInv
    <2> QED
      BY <2>1, <2>2
  <1>13. CASE Finalise
    <2>1. CASE gl
      BY <1>13, <2>1 DEF Finalise, Finalised, OwnInv
    <2>2. CASE ~ gl
      BY <1>2, <1>13, <2>2 DEF Finalise
    <2> QED
      BY <2>1, <2>2
  <1>14. CASE UNCHANGED vars
    BY <1>14 DEF vars, OwnInv
  <1> QED
    BY <1>3, <1>4, <1>5, <1>6, <1>7, <1>8, <1>9, <1>10, <1>11, <1>12, <1>13, <1>14 DEF Next

LEMMA OwnInvHolds == Spec => []OwnInv
  <1>1. Init => OwnInv
    BY DEF Init, Constructed, OwnInv
  <1> QED
    BY <1>1, NextOwnInv, TypeInvHolds, PTL DEF Spec

(* Outside Unload, window, context and frame buffer are there all together *)
(* or not at all, and m_isInitialised says which: whatever step of Load    *)
(* fails, whatever the hooks call and however deep.                        *)
THEOREM ResourcesAreOwnedTogether == Spec => []AllOrNothing
  <1>1. OwnInv => AllOrNothing
    <2> SUFFICES ASSUME OwnInv, pc \in HostPcs \cup LoopPcs \cup {"preHook"}
                 PROVE  Owned = IF initialised THEN Resources ELSE {}
      BY DEF AllOrNothing
    <2>1. CASE initialised
      <3>1. window = "open" /\ gl /\ fbo # NoFbo
        BY <2>1 DEF OwnInv, HostPcs, LoopPcs
      <3> QED
        BY <2>1, <3>1 DEF Owned, Resources
    <2>2. CASE ~ initialised
      <3>1. window # "open" /\ ~ gl /\ fbo = NoFbo
        BY <2>2 DEF OwnInv
      <3> QED
        BY <2>2, <3>1 DEF Owned, Resources
    <2> QED
      BY <2>1, <2>2
  <1> QED
    BY <1>1, OwnInvHolds, PTL
-----------------------------------------------------------------------------
(* The frame buffer.  Between two frames of a context the frame buffer has *)
(* the size of the viewport, so the comparison ViewportWhatChanged makes,  *)
(* with the frame before, is one with the frame buffer; only if there was  *)
(* a life before can the viewport have a size and the frame buffer Load's. *)
ViewInv ==
  /\ managers = 0 => ~ gl /\ now.size = 0
  /\ gl /\ now.size # 0 => fbo = now.size \/ (managers > 1 /\ fbo = InitSize)

(* ViewportWhatChanged never returns VIEWPORT_ALL: for a viewport that     *)
(* moved and was resized, an earlier test of it has returned already.      *)
LEMMA NeverAll == \A p, n : WhatChanged(p, n) # "ALL"
  BY DEF WhatChanged

LEMMA FrameViewInv ==
  ASSUME TypeInv, OwnInv, ViewInv, Frame
  PROVE  ViewInv'
  <1> USE DEF Goto, Die
  <1>1. now \in Viewport /\ winSize \in Sizes /\ managers \in Nat
    BY DEF TypeInv, TypeOK
  <1>2. /\ pc = "frame" /\ prev' = now
        /\ now' = [now EXCEPT !.size = IF window = "open" THEN winSize ELSE 0]
        /\ UNCHANGED << managers, gl >>
    BY DEF Frame, hostVars, windowVars
  <1>3. /\ now'.pos = now.pos
        /\ now'.size = IF window = "open" THEN winSize ELSE 0
    BY <1>1, <1>2 DEF Viewport
  <1>4. gl <=> window = "open"
    BY <1>2 DEF OwnInv, UnloadPcs
  <1>5. CASE gl
    <2>1. now'.size = winSize /\ managers # 0
      BY <1>3, <1>4, <1>5 DEF ViewInv
    <2>2. Resized <=> now.size # winSize
      BY <1>2, <1>3, <2>1 DEF Resized, WhatChanged
    <2>3. CASE UNCHANGED fbo /\ winSize = 0
      BY <1>2, <2>1, <2>3 DEF ViewInv
    <2>4. CASE fbo' = IF Resized THEN winSize ELSE fbo
      BY <1>2, <1>5, <2>1, <2>2, <2>4 DEF ViewInv
    <2> QED
      BY <1>5, <2>3, <2>4 DEF Frame, Render
  <1>6. CASE ~ gl
    BY <1>2, <1>3, <1>4, <1>6 DEF ViewInv
  <1> QED
    BY <1>5, <1>6

LEMMA NextViewInv == TypeInv /\ OwnInv /\ ViewInv /\ [Next]_vars => ViewInv'
  <1> SUFFICES ASSUME TypeInv, OwnInv, ViewInv, [Next]_vars
               PROVE  ViewInv'
    OBVIOUS
  <1> USE DEF hostVars, windowVars, viewVars, clockVars, flagVars, Goto, Die
  <1>1. ASSUME UNCHANGED << managers, gl, fbo >>, now'.size = now.size
        PROVE  ViewInv'
    BY <1>1 DEF ViewInv
  <1>2. CASE Load
    <2>1. managers \in Nat /\ managers' = managers + 1 /\ fbo' = InitSize /\ now' = now
      BY <1>2 DEF Load, TypeInv, TypeOK
    <2> QED
      BY <2>1 DEF ViewInv
  <1>3. CASE Frame
    BY <1>3, FrameViewInv
  <1>4. CASE Finalise
    BY <1>4 DEF Finalise, ViewInv
  <1>5. ASSUME NEW what \in {"ALL", "POSITION", "SIZE"}, NEW pos \in Positions,
               NEW size \in Sizes, SetViewport(what, pos, size)
        PROVE  ViewInv'
    <2>1. now'.size = now.size
      BY <1>5 DEF SetViewport, TypeInv, TypeOK, Viewport
    <2> QED
      BY <1>1, <1>5, <2>1 DEF SetViewport
  <1>6. ASSUME NEW h \in Hooks, HookTo(h)
        PROVE  ViewInv'
    BY <1>1, <1>6 DEF HookTo
  <1>7. CASE LoadWithoutGlfw \/ LoadWithoutWindow \/ LoadWithoutGL
    BY <1>1, <1>7 DEF LoadWithoutGlfw, LoadWithoutWindow, LoadWithoutGL
  <1>8. CASE Run \/ CallUnload \/ Delete \/ Unload
    BY <1>1, <1>8 DEF Run, CallUnload, Delete, Unload
  <1>9. CASE LoopCondition \/ PollEvents \/ EndOfFrame
    BY <1>1, <1>9 DEF LoopCondition, PollEvents, EndOfFrame
  <1>10. CASE Terminate \/ UnloadFromHook \/ HookReturn
    BY <1>1, <1>10 DEF Terminate, UnloadFromHook, HookReturn
  <1>11. CASE UNCHANGED vars
    BY <1>1, <1>11 DEF vars
  <1> QED
    BY <1>2, <1>3, <1>4, <1>5, <1>6, <1>7, <1>8, <1>9, <1>10, <1>11 DEF Next

LEMMA ViewInvHolds == Spec => []ViewInv
  <1>1. Init => ViewInv
    BY DEF Init, Constructed, ViewInv
  <1> QED
    BY <1>1, NextViewInv, OwnInvHolds, TypeInvHolds, PTL DEF Spec

(* In every life of an engine a frame goes through a frame buffer of the   *)
(* window's size or, from the second on, through the one Load made; for    *)
(* all sizes, resizes, hook calls and failures.                            *)
THEOREM FboIsNeverOfAnotherSize == Spec => []FboIsWindowsOrLoads
  <1>1. ViewInv => FboIsWindowsOrLoads
    BY DEF ViewInv, FboIsWindowsOrLoads
  <1> QED
    BY <1>1, ViewInvHolds, PTL

(* In the first life every frame goes through one of the window's size.    *)
(* MaxLoads = 1 is needed: after a second Load it is false, since the      *)
(* viewport of the first one is still there.                               *)
THEOREM FboFollowsWindow ==
  ASSUME MaxLoads = 1
  PROVE  Spec => []FboMatchesWindow
  <1>1. TypeInv /\ ViewInv => FboMatchesWindow
    <2>1. TypeInv => ~ managers > 1
      BY DEF TypeInv, TypeOK
    <2> QED
      BY <2>1 DEF ViewInv, FboMatchesWindow
  <1> QED
    BY <1>1, ViewInvHolds, TypeInvHolds, PTL
-----------------------------------------------------------------------------
(* A whole engine dies of no step but a resize to a window without area.   *)
THEOREM WholeSurvives ==
  ASSUME Asserts => 0 \notin Sizes
  PROVE  Spec => WholeEngineSurvives
  <1>1. TypeInv /\ [Next]_vars => [Whole => pc' # "dead"]_vars
    <2> SUFFICES ASSUME TypeInv, Next, Whole
                 PROVE  pc' # "dead"
      OBVIOUS
    <2> USE DEF Goto, Die
    <2>1. winSize \in Sizes /\ initialised /\ gl /\ window = "open"
      BY DEF TypeInv, TypeOK, Whole
    <2>2. ASSUME NEW h \in Hooks, HookTo(h)
          PROVE  pc' # "dead"
      BY <2>2 DEF HookTo
    <2>3. ASSUME NEW what \in {"ALL", "POSITION", "SIZE"}, NEW pos \in Positions,
                 NEW size \in Sizes, SetViewport(what, pos, size)
          PROVE  pc' # "dead"
      BY <2>1, <2>3 DEF SetViewport
    <2>4. CASE Frame
      BY <2>1, <2>4 DEF Frame, Render, CallHook
    <2>5. CASE Unload
      BY <2>1, <2>5 DEF Unload, CallHook
    <2>6. CASE Finalise
      BY <2>1, <2>6, ReturnTarget DEF Finalise, Callers
    <2>7. ~ CanLoad
      BY <2>1 DEF CanLoad
    <2> QED
      BY <2>2, <2>3, <2>4, <2>5, <2>6, <2>7
         DEF Next, LoadWithoutGlfw, LoadWithoutWindow, LoadWithoutGL, Load, Run, CallUnload,
             Delete, LoopCondition, PollEvents, EndOfFrame, Terminate, UnloadFromHook,
             HookReturn, HookReturns
  <1> QED
    BY <1>1, TypeInvHolds, PTL DEF Spec, WholeEngineSurvives
-----------------------------------------------------------------------------
(* The documented use: no step of Load fails, hooks do not call Unload,    *)
(* and nobody minimises the window, or else asserts are compiled out.      *)
DocumentedUse ==
  /\ Failures = {}
  /\ "Unload" \notin HookCalls
  /\ Asserts => 0 \notin Sizes

DownPcs == {"new", "unloaded", "deleted"}

Gone == ~ initialised /\ window # "open" /\ ~ gl /\ fbo = NoFbo

UseInv ==
  /\ pc # "dead"
  /\ pc \in UnloadPcs => ret = << "unloaded" >>
  /\ pc \in InUsePcs => Whole
  /\ pc \in DownPcs => Gone

LEMMA InitUseInv == Init => UseInv
  BY DEF Init, Constructed, UseInv, DownPcs, Gone, InUsePcs

LEMMA NextUseInv ==
  ASSUME DocumentedUse
  PROVE  TypeInv /\ UseInv /\ [Next]_vars => UseInv'
  <1> SUFFICES ASSUME TypeInv, UseInv, [Next]_vars
               PROVE  UseInv'
    OBVIOUS
  <1> USE DEF hostVars, windowVars, viewVars, clockVars, flagVars, Goto, Die, DownPcs, InUsePcs
  <1>1. Failures = {} /\ "Unload" \notin HookCalls /\ (Asserts => 0 \notin Sizes)
    BY DEF DocumentedUse
  <1>2. \A n \in Sizes : n # NoFbo
    BY SizesAssumption DEF NoFbo
  <1>3. winSize \in Sizes /\ pc \in Pcs
    BY DEF TypeInv, TypeOK
  (* Steps from one state of use to another keep the engine whole. *)
  <1>4. ASSUME pc \in InUsePcs, pc' \in InUsePcs, ret' = ret,
               UNCHANGED << initialised, window, gl, managers, live >>,
               fbo' = fbo \/ fbo' \in Sizes,
               pc' \in UnloadPcs => pc \in UnloadPcs
        PROVE  UseInv'
    BY <1>2, <1>4 DEF UseInv, Whole
  <1>5. ASSUME NEW h \in Hooks, HookTo(h)
        PROVE  UseInv'
    BY <1>5 DEF HookTo, UseInv, Gone
  <1>6. ~ LoadWithoutGlfw /\ ~ LoadWithoutWindow /\ ~ LoadWithoutGL /\ ~ UnloadFromHook
    BY <1>1 DEF LoadWithoutGlfw, LoadWithoutWindow, LoadWithoutGL, UnloadFromHook
  <1>7. CASE Load
    <2>1. pc' \in {"preHook", "loaded"}
      BY <1>1, <1>7 DEF Load, CallHook
    <2>2. fbo' # NoFbo
      BY <1>2, <1>7, SizesAssumption DEF Load
    <2>3. Whole'
      BY <1>7, <2>2 DEF Load, Whole
    <2> QED
      BY <2>1, <2>3 DEF UseInv
  <1>8. CASE Run
    BY <1>4, <1>8 DEF Run
  <1>9. CASE CallUnload
    BY <1>9 DEF CallUnload, UseInv, Whole
  <1>10. CASE Delete
    BY <1>1, <1>10 DEF Delete, UseInv, Gone
  <1>11. CASE LoopCondition
    BY <1>4, <1>11 DEF LoopCondition
  <1>12. CASE PollEvents
    BY <1>4, <1>12 DEF PollEvents
  <1>13. CASE Frame
    <2>1. gl
      BY <1>13 DEF Frame, UseInv, Whole
    <2>2. pc' \in {"loopHook", "input"} /\ (fbo' = fbo \/ fbo' \in Sizes)
      BY <1>1, <1>3, <1>13, <2>1 DEF Frame, Render, CallHook
    <2> QED
      BY <1>4, <1>13, <2>2 DEF Frame
  <1>14. CASE EndOfFrame
    BY <1>4, <1>14 DEF EndOfFrame
  <1>15. CASE Terminate
    BY <1>4, <1>15 DEF Terminate
  <1>16. ASSUME NEW what \in {"ALL", "POSITION", "SIZE"}, NEW pos \in Positions,
                NEW size \in Sizes, SetViewport(what, pos, size)
         PROVE  UseInv'
    <2>1. window # "null"
      BY <1>16 DEF SetViewport, UseInv, Whole
    <2> QED
      BY <1>4, <1>16, <2>1 DEF SetViewport
  <1>17. CASE HookReturn
    BY <1>4, <1>17 DEF HookReturn, HookReturns
  <1>18. CASE Unload
    <2>1. initialised
      BY <1>18 DEF Unload, UseInv, Whole
    <2> QED
      BY <1>1, <1>4, <1>18, <2>1 DEF Unload, CallHook
  <1>19. CASE Finalise
    <2>1. gl /\ ret = << "unloaded" >>
      BY <1>19 DEF Finalise, UseInv, Whole
    <2>2. pc' = "unloaded"
      BY <1>19, <2>1 DEF Finalise, Return
    <2> QED
      BY <1>19, <2>1, <2>2 DEF Finalise, Finalised, UseInv, Gone
  <1>20. CASE UNCHANGED vars
    BY <1>20 DEF vars, UseInv, Whole, Gone
  <1> QED
    BY <1>5, <1>6, <1>7, <1>8, <1>9, <1>10, <1>11, <1>12, <1>13, <1>14, <1>15,
       <1>16, <1>17, <1>18, <1>19, <1>20 DEF Next

THEOREM UseInvHolds ==
  ASSUME DocumentedUse
  PROVE  Spec => []UseInv
  BY InitUseInv, NextUseInv, TypeInvHolds, PTL DEF Spec

(* In the documented use, hooks, loop and host meet nothing but a whole    *)
(* engine, in every one of its lives.                                      *)
THEOREM EngineInUseIsWhole ==
  ASSUME DocumentedUse
  PROVE  Spec => []WholeEngineInUse
  <1>1. UseInv => WholeEngineInUse
    BY DEF UseInv, WholeEngineInUse
  <1> QED
    BY <1>1, UseInvHolds, PTL
-----------------------------------------------------------------------------
(* The lifecycle.  Where the thread is decides what it maps to.            *)

LifeMapped ==
  /\ UseInv /\ pc \in DownPcs => Life = "down" /\ Owned = {}
  /\ UseInv /\ pc \in InUsePcs \ LoopPcs => Life = "up" /\ Owned = Resources
  /\ UseInv /\ pc \in LoopPcs => Life = "looping" /\ Owned = Resources

LEMMA LifeMap == LifeMapped
  <1>1. Whole => Owned = Resources
    BY DEF Whole, Owned, Resources
  <1>2. Gone => Owned = {}
    BY DEF Gone, Owned, Resources
  <1> QED
    BY <1>1, <1>2 DEF LifeMapped, UseInv, Life, DownPcs, InUsePcs, Whole, Gone

LEMMA LifeMapNext == LifeMapped'
  BY LifeMap, PTL

(* No step of the thread leads into the loop, or out of it, past a Load    *)
(* or an Unload.                                                           *)
LEMMA LoopIsInside ==
  ASSUME DocumentedUse, TypeInv, UseInv, [Next]_vars
  PROVE  /\ pc \in DownPcs => pc' \notin LoopPcs
         /\ pc \in LoopPcs => pc' \notin DownPcs
  <1> USE DEF DownPcs, Goto, Die
  <1>1. CASE pc \in DownPcs
    <2>1. CASE Load
      BY <2>1 DEF Load, CallHook
    <2>2. CASE Delete
      BY <2>2 DEF Delete
    <2>3. ASSUME NEW h \in Hooks, HookTo(h)
          PROVE  pc' \notin LoopPcs
      BY <1>1, <2>3 DEF HookTo
    <2>4. CASE UNCHANGED vars
      BY <1>1, <2>4 DEF vars
    <2>5. CASE LoadWithoutGlfw \/ LoadWithoutWindow \/ LoadWithoutGL
      BY <2>5 DEF LoadWithoutGlfw, LoadWithoutWindow, LoadWithoutGL
    <2> QED
      BY <1>1, <2>1, <2>2, <2>3, <2>4, <2>5
         DEF Next, Run, CallUnload, LoopCondition, PollEvents, Frame, EndOfFrame, Terminate,
             SetViewport, UnloadFromHook, HookReturn, HookReturns, Unload, Finalise
  <1>2. CASE pc \in LoopPcs
    <2>1. CASE LoopCondition \/ PollEvents \/ EndOfFrame
      BY <2>1 DEF LoopCondition, PollEvents, EndOfFrame
    <2>2. CASE Frame
      BY <2>2 DEF Frame, Render, CallHook
    <2>3. CASE Terminate \/ UnloadFromHook \/ HookReturn
      BY <1>2, <2>3 DEF Terminate, UnloadFromHook, HookReturn, HookReturns
    <2>4. ASSUME NEW what \in {"ALL", "POSITION", "SIZE"}, NEW pos \in Positions,
                 NEW size \in Sizes, SetViewport(what, pos, size)
          PROVE  pc' \notin DownPcs
      BY <1>2, <2>4 DEF SetViewport
    <2>5. CASE UNCHANGED vars
      BY <1>2, <2>5 DEF vars
    <2> QED
      BY <1>2, <2>1, <2>2, <2>3, <2>4, <2>5
         DEF Next, HookTo, LoadWithoutGlfw, LoadWithoutWindow, LoadWithoutGL, Load,
             CanLoad, Run, CallUnload, Delete, Unload, Finalise
  <1> QED
    BY <1>1, <1>2

(* In the documented use the engine implements its lifecycle: window,      *)
(* context and frame buffer come and go together, the loop runs only in    *)
(* between, and Unload never strikes inside it.                            *)
THEOREM RefinesLifecycle ==
  ASSUME DocumentedUse
  PROVE  Spec => ImplementsLifecycle
  <1>1. Init => Lifecycle!Init
    <2> SUFFICES ASSUME Init
                 PROVE  Lifecycle!Init
      OBVIOUS
    <2>1. UseInv /\ pc \in DownPcs
      BY InitUseInv DEF Init, DownPcs
    <2> QED
      BY <2>1, LifeMap DEF LifeMapped, Lifecycle!Init
  <1>2. TypeInv /\ UseInv /\ TypeInv' /\ UseInv' /\ [Next]_vars
          => [Lifecycle!Next]_(Lifecycle!vars)
    <2> SUFFICES ASSUME TypeInv, UseInv, TypeInv', UseInv', [Next]_vars
                 PROVE  [Lifecycle!Next]_(Lifecycle!vars)
      OBVIOUS
    <2>1. /\ pc \in DownPcs \cup InUsePcs
          /\ pc' \in DownPcs \cup InUsePcs
      BY DEF TypeInv, TypeOK, UseInv, DownPcs, InUsePcs
    <2>2. /\ pc \in DownPcs => pc' \notin LoopPcs
          /\ pc \in LoopPcs => pc' \notin DownPcs
      BY LoopIsInside
    <2>3. /\ pc \in DownPcs => Life = "down" /\ Owned = {}
          /\ pc \in InUsePcs \ LoopPcs => Life = "up" /\ Owned = Resources
          /\ pc \in LoopPcs => Life = "looping" /\ Owned = Resources
      BY LifeMap DEF LifeMapped
    <2>4. /\ pc' \in DownPcs => Life' = "down" /\ Owned' = {}
          /\ pc' \in InUsePcs \ LoopPcs => Life' = "up" /\ Owned' = Resources
          /\ pc' \in LoopPcs => Life' = "looping" /\ Owned' = Resources
      BY LifeMapNext DEF LifeMapped
    <2>5. CASE pc \in DownPcs
      BY <2>1, <2>2, <2>3, <2>4, <2>5
         DEF Lifecycle!Next, Lifecycle!Start, Lifecycle!vars
    <2>6. CASE pc \in InUsePcs \ LoopPcs
      BY <2>1, <2>3, <2>4, <2>6
         DEF Lifecycle!Next, Lifecycle!Loop, Lifecycle!Finish, Lifecycle!vars
    <2>7. CASE pc \in LoopPcs
      BY <2>1, <2>2, <2>3, <2>4, <2>7
         DEF Lifecycle!Next, Lifecycle!Stop, Lifecycle!vars
    <2> QED
      BY <2>1, <2>5, <2>6, <2>7
  <1> QED
    BY <1>1, <1>2, TypeInvHolds, UseInvHolds, PTL
       DEF Spec, ImplementsLifecycle, Lifecycle!Spec
=============================================================================
