---------------------------- MODULE TimerInterval ----------------------------
(***************************************************************************)
(* The arithmetic of event_timer_start: how the expiration time asked for  *)
(* in milliseconds, an int32_t, becomes the struct itimerspec that         *)
(* timerfd_settime() is given, and which of them the kernel refuses.       *)
(***************************************************************************)
EXTENDS Integers, TLAPS

CONSTANTS
  Timers,   \* timers that were created
  Requests  \* values of the parameter msec

VARIABLES
  asked,  \* msec of the latest call that succeeded; 0 for event_timer_stop
  timer   \* setting of the timerfd: [it_value, it_interval]

vars == <<asked, timer>>

\* Division in C truncates towards zero, and % has the sign of the dividend.
Quotient(a, b)  == IF a >= 0 THEN a \div b ELSE -((-a) \div b)
Remainder(a, b) == a - b * Quotient(a, b)

Zero == [tv_sec |-> 0, tv_nsec |-> 0]

Expiration(msec) ==
  [tv_sec |-> Quotient(msec, 1000), tv_nsec |-> Remainder(msec, 1000) * 1000]

Second == 1000000000  \* in nanoseconds

\* What timerfd_settime() accepts as a time.
Accepted(time) ==
  /\ time.tv_sec >= 0
  /\ time.tv_nsec >= 0
  /\ time.tv_nsec < Second

Earlier(time1, time2) ==
  \/ time1.tv_sec < time2.tv_sec
  \/ time1.tv_sec = time2.tv_sec /\ time1.tv_nsec < time2.tv_nsec

Init ==
  /\ asked = [t \in Timers |-> 0]
  /\ timer = [t \in Timers |-> [it_value |-> Zero, it_interval |-> Zero]]

\* A call that the kernel refuses is a stuttering step.
Start(t, msec, is_one_shot) ==
  LET time == Expiration(msec) IN
  /\ Accepted(time)
  /\ asked' = [asked EXCEPT ![t] = msec]
  /\ timer' = [timer EXCEPT ![t] =
       [it_value |-> time, it_interval |-> IF is_one_shot THEN Zero ELSE time]]

Stop(t) ==
  /\ asked' = [asked EXCEPT ![t] = 0]
  /\ timer' = [timer EXCEPT ![t] = [it_value |-> Zero, it_interval |-> Zero]]

Next ==
  \E t \in Timers :
    \/ \E msec \in Requests, is_one_shot \in BOOLEAN : Start(t, msec, is_one_shot)
    \/ Stop(t)

Spec == Init /\ [][Next]_vars

-----------------------------------------------------------------------------
(* Properties.                                                             *)

\* Of two timers, the one that was asked for the longer time has the longer
\* time until it expires, and only a timer that was asked for none is disarmed:
\* no rounding or overflow in lines 166 to 176 of event-timer.c confuses two
\* requests.
OrderKept ==
  \A t, u \in Timers :
    /\ asked[t] < asked[u] => Earlier(timer[t].it_value, timer[u].it_value)
    /\ timer[t].it_value = Zero <=> asked[t] = 0

\* "Expiration time of this timer in miliseconds": the timer is set to the time
\* it was asked for.
SetAsAsked ==
  \A t \in Timers :
    timer[t].it_value =
      [tv_sec |-> asked[t] \div 1000, tv_nsec |-> (asked[t] % 1000) * 1000000]

-----------------------------------------------------------------------------
(* Proof that the order is kept.                                           *)

\* No request that is accepted is negative.
LEMMA AcceptedIsNat ==
  ASSUME NEW msec \in Int, Accepted(Expiration(msec))
  PROVE  msec \in Nat
<1>1. CASE msec >= 0
  BY <1>1
<1>2. CASE msec < 0
  <2>0. Expiration(msec) \in [tv_sec : Int, tv_nsec : Int]
    BY DEF Expiration, Quotient, Remainder
  <2>1. Expiration(msec).tv_sec = -((-msec) \div 1000)
    BY <1>2 DEF Expiration, Quotient
  <2>2. Expiration(msec).tv_nsec = (msec + 1000 * ((-msec) \div 1000)) * 1000
    BY <1>2 DEF Expiration, Quotient, Remainder
  <2>3. (-msec) \div 1000 = 0
    BY <1>2, <2>0, <2>1 DEF Accepted
  <2>4. msec * 1000 >= 0
    BY <2>0, <2>2, <2>3 DEF Accepted
  <2> QED BY <1>2, <2>4
<1> QED BY <1>1, <1>2

\* What is passed to the kernel for a request that is not negative.
LEMMA ExpirationOfNat ==
  ASSUME NEW msec \in Nat
  PROVE  Expiration(msec) =
           [tv_sec |-> msec \div 1000, tv_nsec |-> (msec % 1000) * 1000]
BY DEF Expiration, Quotient, Remainder

LEMMA ExpirationIncreases ==
  ASSUME NEW m \in Nat, NEW n \in Nat, m < n
  PROVE  Earlier(Expiration(m), Expiration(n))
<1>1. m \div 1000 <= n \div 1000
  OBVIOUS
<1>2. m \div 1000 = n \div 1000 => m % 1000 < n % 1000
  OBVIOUS
<1> QED BY <1>1, <1>2, ExpirationOfNat DEF Earlier

LEMMA ExpirationZero ==
  ASSUME NEW m \in Nat
  PROVE  Expiration(m) = Zero <=> m = 0
<1>1. Expiration(0) = Zero
  BY ExpirationOfNat DEF Zero
<1>2. ASSUME m # 0 PROVE Expiration(m) # Zero
  <2>1. Earlier(Expiration(0), Expiration(m))
    BY <1>2, ExpirationIncreases
  <2> QED BY <1>1, <2>1 DEF Earlier, Zero
<1> QED BY <1>1, <1>2

\* The inductive invariant: the setting is that of the request.
SettingInv ==
  /\ asked \in [Timers -> Nat]
  /\ timer \in [Timers -> [it_value : {Expiration(m) : m \in Nat},
                           it_interval : {Zero} \cup {Expiration(m) : m \in Nat}]]
  /\ \A t \in Timers : timer[t].it_value = Expiration(asked[t])

\* It is inductive for every set of integers as requests.
LEMMA SettingCorrect ==
  ASSUME Requests \subseteq Int
  PROVE  Spec => []SettingInv
<1>1. Init => SettingInv
  <2>1. Zero = Expiration(0)
    BY ExpirationZero
  <2> QED BY <2>1 DEF Init, SettingInv
<1>2. SettingInv /\ [Next]_vars => SettingInv'
  <2> SUFFICES ASSUME SettingInv, [Next]_vars PROVE SettingInv'
    OBVIOUS
  <2>1. ASSUME NEW t \in Timers, NEW msec \in Requests, NEW is_one_shot \in BOOLEAN,
               Start(t, msec, is_one_shot)
        PROVE  SettingInv'
    <3>1. msec \in Nat
      BY <2>1, AcceptedIsNat DEF Start
    <3> QED BY <2>1, <3>1 DEF Start, SettingInv
  <2>2. ASSUME NEW t \in Timers, Stop(t) PROVE SettingInv'
    <3>1. Zero = Expiration(0)
      BY ExpirationZero
    <3> QED BY <2>2, <3>1 DEF Stop, SettingInv
  <2>3. CASE UNCHANGED vars
    BY <2>3 DEF SettingInv, vars
  <2> QED BY <2>1, <2>2, <2>3 DEF Next
<1> QED BY <1>1, <1>2, PTL DEF Spec

\* For every set of integers as requests, timers are ordered as they were asked to be.
THEOREM OrderIsKept ==
  ASSUME Requests \subseteq Int
  PROVE  Spec => []OrderKept
<1>1. SettingInv => OrderKept
  BY ExpirationIncreases, ExpirationZero DEF SettingInv, OrderKept
<1> QED BY <1>1, SettingCorrect, PTL

\* Timers are set to the time they were asked for exactly as long as no request
\* has a part of a second: the unit of line 169 of event-timer.c is wrong for
\* every such request, and for no other.
THEOREM SecondsAreExact ==
  ASSUME Requests \subseteq Int
  PROVE  Spec => [](SetAsAsked <=> \A t \in Timers : asked[t] % 1000 = 0)
<1> DEFINE Exact(t) ==
      timer[t].it_value =
        [tv_sec |-> asked[t] \div 1000, tv_nsec |-> (asked[t] % 1000) * 1000000]
<1>1. ASSUME SettingInv, NEW t \in Timers
      PROVE  Exact(t) <=> asked[t] % 1000 = 0
  <2>1. asked[t] \in Nat /\ timer[t].it_value = Expiration(asked[t])
    BY <1>1 DEF SettingInv
  <2>2. timer[t].it_value =
          [tv_sec |-> asked[t] \div 1000, tv_nsec |-> (asked[t] % 1000) * 1000]
    BY <2>1, ExpirationOfNat
  <2>3. asked[t] % 1000 \in Nat
    BY <2>1
  <2>4. \A r \in Nat : r * 1000 = r * 1000000 <=> r = 0
    OBVIOUS
  <2> QED BY <2>2, <2>3, <2>4
<1>2. SetAsAsked <=> \A t \in Timers : Exact(t)
  BY DEF SetAsAsked
<1> HIDE DEF Exact
<1>3. SettingInv => (SetAsAsked <=> \A t \in Timers : asked[t] % 1000 = 0)
  BY <1>1, <1>2
<1> QED BY <1>3, SettingCorrect, PTL

=============================================================================
