--------------------------- MODULE StdCppEventFlag ---------------------------
(***************************************************************************)
(* One StdCppEventFlag and the threads that set it, reset it and wait for  *)
(* it. A step is one critical section of its m_mutex.                      *)
(***************************************************************************)
EXTENDS Integers

CONSTANTS
    Waiters,    \* the threads that wait for it
    Bits

VARIABLES
    m_autoReset,
    m_pattern,
    flagWaiter,     \* what each thread waits for, and whether it is "asleep" in m_cond,
                    \* about to "look" at the pattern or not waiting, "idle"
    flagPasses      \* of an auto-reset flag: the waits that succeeded since the last set()

flagVars == <<m_autoReset, m_pattern, flagWaiter, flagPasses>>

Modes == {"OR", "AND"}
Patterns == SUBSET Bits
FlagIdle == [at |-> "idle", want |-> {}, mode |-> "OR", timed |-> FALSE]
Waits == [at : {"asleep", "look"}, want : Patterns \ {{}}, mode : Modes, timed : BOOLEAN]

\* The predicates of m_cond.wait() and wait_for().
FlagOn(w) == IF w.mode = "OR" THEN w.want \cap m_pattern # {} ELSE w.want \subseteq m_pattern

\* A plausible mistake: an auto-reset flag is not reset.
FlagPass_keep(c) ==
    /\ flagWaiter' = [flagWaiter EXCEPT ![c] = FlagIdle]
    /\ flagPasses' = IF m_autoReset THEN flagPasses + 1 ELSE flagPasses
    /\ UNCHANGED <<m_autoReset, m_pattern>>

FlagPass(c) ==
    /\ flagWaiter' = [flagWaiter EXCEPT ![c] = FlagIdle]
    /\ m_pattern' = IF m_autoReset THEN {} ELSE m_pattern
    /\ flagPasses' = IF m_autoReset THEN flagPasses + 1 ELSE flagPasses
    /\ UNCHANGED m_autoReset

FlagLook(c, w) ==
    IF FlagOn(w) THEN FlagPass(c)
    ELSE /\ flagWaiter' = [flagWaiter EXCEPT ![c] = [w EXCEPT !.at = "asleep"]]
         /\ UNCHANGED <<m_autoReset, m_pattern, flagPasses>>

\* timedWait(), and the other waits, which call it. It refuses an empty pattern.
timedWait_begin(c) ==
    /\ flagWaiter[c].at = "idle"
    /\ \E w \in Waits : w.at = "look" /\ FlagLook(c, w)

timedWait_look(c) == flagWaiter[c].at = "look" /\ FlagLook(c, flagWaiter[c])

\* The time is up, which with POLLING it is at once: the last look decides.
timedWait_timeout(c) ==
    /\ flagWaiter[c].timed
    /\ IF FlagOn(flagWaiter[c]) THEN FlagPass(c)
       ELSE /\ flagWaiter' = [flagWaiter EXCEPT ![c] = FlagIdle]
            /\ UNCHANGED <<m_autoReset, m_pattern, flagPasses>>

\* A plausible mistake: the waiting threads are not notified.
set_quietly(bitPattern) ==
    /\ m_pattern' = m_pattern \cup bitPattern
    /\ flagPasses' = 0
    /\ UNCHANGED <<m_autoReset, flagWaiter>>

\* set(), setOne(), setAll().
set(bitPattern) ==
    /\ m_pattern' = m_pattern \cup bitPattern
    /\ flagWaiter' = [c \in Waiters |->
            IF flagWaiter[c].at = "asleep" THEN [flagWaiter[c] EXCEPT !.at = "look"]
            ELSE flagWaiter[c]]
    /\ flagPasses' = 0
    /\ UNCHANGED m_autoReset

\* reset(), resetOne(), resetAll().
reset(bitPattern) ==
    /\ m_pattern' = m_pattern \ bitPattern
    /\ UNCHANGED <<m_autoReset, flagWaiter, flagPasses>>

FlagInit ==
    /\ m_autoReset \in BOOLEAN
    /\ m_pattern = {}
    /\ flagWaiter = [c \in Waiters |-> FlagIdle]
    /\ flagPasses = 0

FlagNext ==
    \/ \E c \in Waiters : timedWait_begin(c) \/ timedWait_look(c) \/ timedWait_timeout(c)
    \/ \E bitPattern \in Patterns : set(bitPattern) \/ reset(bitPattern)

\* A thread that is woken gets to look.
FlagFairness == \A c \in Waiters : WF_flagVars(timedWait_look(c))

FlagSpec == FlagInit /\ [][FlagNext]_flagVars /\ FlagFairness

-----------------------------------------------------------------------------
(* Properties.                                                             *)

FlagTypeOK ==
    /\ m_autoReset \in BOOLEAN
    /\ m_pattern \in Patterns
    /\ flagWaiter \in [Waiters -> Waits \cup {FlagIdle}]
    /\ flagPasses \in Nat

FlagSleepersRight == \A c \in Waiters : flagWaiter[c].at = "asleep" => ~FlagOn(flagWaiter[c])

\* However many waiters one set() of an auto-reset flag wakes, one of them passes.
\* The others wait again: none sleeps while its condition holds (timedWait()).
OneSetOnePass ==
    /\ flagPasses <= 1
    /\ FlagSleepersRight

\* With it and the types, inductive: a wait that passed has reset the flag.
PassResets == flagPasses > 0 => m_autoReset /\ m_pattern = {}
FlagIInv == FlagTypeOK /\ OneSetOnePass /\ PassResets

\* Nobody waits for ever for a condition that has come to stay (set(), timedWait()).
FlagWaitEnds == \A c \in Waiters : []<>(flagWaiter[c].at = "idle" \/ ~FlagOn(flagWaiter[c]))
=============================================================================
