------------------------- MODULE ConfirmationTracker -------------------------
(***************************************************************************)
(* Confirmation of uplinked commands, uplink/src/confirmation.rs: one      *)
(* entry per tracked command, ACKs and NACKs that may be lost, repeated or *)
(* late, timeouts and retries.                                             *)
(*                                                                         *)
(* Every method holds the entries lock for its whole body, so it is one    *)
(* action, whichever of the callers' tasks calls it.  timeout_checker_task *)
(* takes the tracker by value: a program that runs it can hand over what   *)
(* it tracked, and from then on no caller has the tracker, so no answer    *)
(* reaches it and nothing new is tracked.  Each check_timeouts() and each  *)
(* retry() of that task is a step.                                         *)
(***************************************************************************)
EXTENDS Naturals, UplinkCommands

CONSTANT max_retries   \* ConfirmationEntry.max_retries

ASSUME TrackerAssumption == max_retries \in Nat \ {0}

VARIABLES
  ack_state,    \* ConfirmationEntry.state, or "Untracked" when there is no entry
  retry_count,  \* ConfirmationEntry.retry_count
  overdue,      \* commands whose ACK timeout has elapsed
  with_checker, \* the tracker was moved into timeout_checker_task()
  timed_out,    \* result of check_timeouts() that task still has to retry
  nacked        \* history: commands the satellite rejected since they were tracked

trackerVars == <<ack_state, retry_count, overdue, with_checker, timed_out, nacked>>

EntryState == {"AwaitingAck", "Acknowledged", "Failed", "Timeout", "Transmitting"}

Tracked == {c \in Commands : ack_state[c] # "Untracked"}

TrackerInit ==
  /\ ack_state = [c \in Commands |-> "Untracked"]
  /\ retry_count = [c \in Commands |-> 0]
  /\ overdue = {}
  /\ with_checker = FALSE
  /\ timed_out = {}
  /\ nacked = {}

\* A caller holds the tracker, and goes on holding it.
ByCaller == ~ with_checker /\ UNCHANGED <<with_checker, timed_out>>

\* track(): a fresh entry replaces any entry of the command.
Track(c) ==
  /\ ByCaller
  /\ ack_state' = [ack_state EXCEPT ![c] = "AwaitingAck"]
  /\ retry_count' = [retry_count EXCEPT ![c] = 0]
  /\ overdue' = overdue \ {c}
  /\ nacked' = nacked \ {c}

\* handle_ack(): whatever the entry's state.
HandleAck(c) ==
  /\ ByCaller
  /\ c \in Tracked
  /\ ack_state' = [ack_state EXCEPT ![c] = "Acknowledged"]
  /\ UNCHANGED <<retry_count, overdue, nacked>>

\* handle_nack(): whatever the entry's state.
HandleNack(c) ==
  /\ ByCaller
  /\ c \in Tracked
  /\ ack_state' = [ack_state EXCEPT ![c] = "Failed"]
  /\ nacked' = nacked \cup {c}
  /\ UNCHANGED <<retry_count, overdue>>

\* The timeout of the entry passes.
TimePasses(c) ==
  /\ ack_state[c] \in {"AwaitingAck", "Transmitting"}
  /\ c \notin overdue
  /\ overdue' = overdue \cup {c}
  /\ UNCHANGED <<ack_state, retry_count, with_checker, timed_out, nacked>>

TimesOutRetransmission(c) == ack_state[c] = "Transmitting" /\ c \in overdue

\* check_timeouts() looks only at entries that await an ACK.
TimesOut(c) == ack_state[c] = "AwaitingAck" /\ c \in overdue

TimingOut == {c \in Commands : TimesOut(c)}

\* What check_timeouts() does to the entries; it returns TimingOut.
MarkTimeouts ==
  /\ ack_state' = [c \in Commands |-> IF TimesOut(c) THEN "Timeout" ELSE ack_state[c]]
  /\ UNCHANGED <<retry_count, overdue, nacked>>

\* check_timeouts() called by a caller, who may do with the list what it likes.
CallerCheck ==
  /\ ByCaller
  /\ MarkTimeouts

ExhaustedOneEarly(c) == retry_count[c] + 1 >= max_retries

Exhausted(c) == retry_count[c] >= max_retries

\* retry(): count the attempt and transmit, or give the command up; whatever the
\* entry's state.
Retry(c) ==
  /\ c \in Tracked
  /\ \/ /\ Exhausted(c)
        /\ ack_state' = [ack_state EXCEPT ![c] = "Failed"]
        /\ UNCHANGED <<retry_count, overdue>>
     \/ /\ ~ Exhausted(c)
        /\ retry_count' = [retry_count EXCEPT ![c] = @ + 1]
        /\ ack_state' = [ack_state EXCEPT ![c] = "Transmitting"]
        /\ overdue' = overdue \ {c}

\* retry() called by a caller.
CallerRetry(c) ==
  /\ ByCaller
  /\ Retry(c)
  /\ UNCHANGED nacked

\* remove(): the entry goes; the command may be tracked again from scratch.
RemoveTracked(c) ==
  /\ ByCaller
  /\ c \in Tracked
  /\ ack_state' = [ack_state EXCEPT ![c] = "Untracked"]
  /\ retry_count' = [retry_count EXCEPT ![c] = 0]
  /\ overdue' = overdue \ {c}
  /\ nacked' = nacked \ {c}

\* timeout_checker_task(tracker, interval) is started with the tracker.
HandOver ==
  /\ ~ with_checker
  /\ with_checker' = TRUE
  /\ UNCHANGED <<ack_state, retry_count, overdue, timed_out, nacked>>

\* The loop body of the task, first half: check_timeouts().
CheckTimeouts ==
  /\ with_checker
  /\ timed_out = {}
  /\ timed_out' = TimingOut
  /\ MarkTimeouts
  /\ UNCHANGED with_checker

\* Its second half: the next retry() of the list.
CheckerRetry(c) ==
  /\ c \in timed_out
  /\ timed_out' = timed_out \ {c}
  /\ Retry(c)
  /\ UNCHANGED <<with_checker, nacked>>

TrackerNext ==
  \/ HandOver \/ CallerCheck \/ CheckTimeouts
  \/ \E c \in Commands :
       \/ Track(c) \/ HandleAck(c) \/ HandleNack(c) \/ CallerRetry(c) \/ RemoveTracked(c)
       \/ TimePasses(c) \/ CheckerRetry(c)

TrackerSpec == TrackerInit /\ [][TrackerNext]_trackerVars

-----------------------------------------------------------------------------
(* Properties *)

\* Every field of the tracker has its type.
TrackerTypeOK ==
  /\ ack_state \in [Commands -> EntryState \cup {"Untracked"}]
  /\ retry_count \in [Commands -> Nat]
  /\ overdue \subseteq Commands
  /\ with_checker \in BOOLEAN
  /\ timed_out \subseteq Tracked
  /\ nacked \subseteq Commands

\* The tracker never counts more retries of an entry than max_retries, however
\* the retries of callers and of the task interleave with answers.
RetriesBounded == \A c \in Commands : retry_count[c] <= max_retries

\* A command is given up only for a reason: the satellite rejected it, or its
\* retries are used up.
FailedForAReason ==
  \A c \in Commands :
    ack_state[c] = "Failed" => c \in nacked \/ retry_count[c] = max_retries

\* An entry is retried at most max_retries times, and given up only then or when
\* the satellite refused it since it was tracked.
RetriesAreSound == RetriesBounded /\ FailedForAReason

\* Once timeout_checker_task() has the tracker, a command that awaits its ACK is
\* retried: its timeout is noticed, and what check_timeouts() lists is not
\* forgotten on the way to retry().  Of the retransmission nothing is claimed.
SilentCommandsAreRetried ==
  \A c \in Commands :
    (with_checker /\ ack_state[c] = "AwaitingAck") ~> (ack_state[c] = "Transmitting")

=============================================================================
