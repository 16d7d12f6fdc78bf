------------------------------ MODULE NtpClient ------------------------------
(* The NTP client (apps/netutils/ntpclient/ntpclient.c) as the board builds  *)
(* it: the daemon leaves after its first successful round                    *)
(* (CONFIG_NETUTILS_NTPCLIENT_STAY_ON is off), and ntpc_start, ntpc_stop,    *)
(* ntpc_status and ntpc_dualstack_family are called by `wifi connect` and    *)
(* the ntpcstart, ntpcstop and ntpcstatus commands.  The daemon runs with    *)
(* the scheduler locked, so others run only where it waits: for a name, an   *)
(* answer, a delay or the lock.  A signal ends any such wait, the wait for   *)
(* the lock too: sem_wait's result is not looked at.                         *)
EXTENDS Integers, Sequences, FiniteSets

CONSTANTS
  NtpCallers,     \* tasks that call the client
  NtpDaemons,     \* task ids the daemons of one behaviour can have
  NtpServers,     \* addresses of time servers
  NumSamples,     \* CONFIG_NETUTILS_NTPCLIENT_NUM_SAMPLES
  NtpRetries,     \* CONFIG_NETUTILS_NTPCLIENT_RETRIES
  Selections,     \* MAX_SERVER_SELECTION_RETRIES
  OffsetBits,     \* width of an offset: int64_t in the code
  Magnitudes,     \* sizes of the offsets an answer can lead to: the most negative has none
  NtpCalls        \* calls in one behaviour: a bound

ASSUME NtpAssumption ==
  /\ IsFiniteSet(NtpCallers) /\ IsFiniteSet(NtpDaemons) /\ "none" \notin NtpDaemons
  /\ NumSamples \in Nat \ {0} /\ NtpRetries \in Nat /\ Selections \in Nat /\ NtpCalls \in Nat
  /\ OffsetBits \in Nat \ {0} /\ 2 ^ (OffsetBits - 1) \in Nat
  /\ 2 ^ OffsetBits = 2 * 2 ^ (OffsetBits - 1)
  /\ \A m \in Magnitudes : m \in 0 .. 2 ^ (OffsetBits - 1) - 1

VARIABLES
  state,      \* g_ntpc_daemon.state
  mutex,      \* count of g_ntpc_daemon.lock
  sync,       \* count of g_ntpc_daemon.sync
  pid,        \* g_ntpc_daemon.pid
  kod_list,   \* servers that asked to be left alone
  calls,      \* calls[c]: where task c is in a call
  daemon,     \* daemon[d]: the locals of a daemon task
  called      \* calls so far

ntpVars == <<state, mutex, sync, pid, kod_list, calls, daemon, called>>

NoOffset == 2 ^ OffsetBits

NoDaemon == [pc |-> "gone", samples |-> << >>, asked |-> 0, list |-> << >>,
             retry |-> 0, server |-> "none", answer |-> NoOffset,
             errval |-> "none", retries |-> 0, offset |-> NoOffset]

NtpInit ==
  /\ state = "NOT_RUNNING" /\ mutex = 1 /\ sync = 0 /\ pid = "none"
  /\ kod_list = {} /\ called = 0
  /\ calls = [c \in NtpCallers |-> "idle"]
  /\ daemon = [d \in NtpDaemons |-> NoDaemon]

-----------------------------------------------------------------------------
(* Arithmetic of the offsets.                                                *)

Wrapped(i) == ((i + 2 ^ (OffsetBits - 1)) % (2 ^ OffsetBits)) - 2 ^ (OffsetBits - 1)
(* C's division rounds towards zero.                                         *)
Half(i) == IF i < 0 THEN -((-i) \div 2) ELSE i \div 2

(* A mistake that would be easy to make here; the properties exclude it: the *)
(* two middle offsets are added as they are.                                 *)
average_wraps(o1, o2) == Half(Wrapped(o1 + o2))
(* The mean of the two middle offsets: equal signs are added without a sign, *)
(* where the sum fits; different signs cannot overflow.                      *)
average(o1, o2) ==
  IF o1 > 0 /\ o2 > 0 THEN (o1 + o2) \div 2
  ELSE IF o1 < 0 /\ o2 < 0 THEN -((-o1 - o2) \div 2)
  ELSE Half(o1 + o2)

(* The offset that sorting leaves at place i, from 0: at most i samples come *)
(* before it, and more than i do not come after it.  The difference wraps.   *)
sample_cmp(a, b) == Wrapped(a - b)
Before(samples, o)   == {k \in DOMAIN samples : sample_cmp(samples[k].offset, o) < 0}
NotAfter(samples, o) == {k \in DOMAIN samples : sample_cmp(samples[k].offset, o) <= 0}
Sorted(samples, i) ==
  CHOOSE o \in {samples[k].offset : k \in DOMAIN samples} :
    Cardinality(Before(samples, o)) <= i /\ i < Cardinality(NotAfter(samples, o))

(* The median of the sorted offsets. *)
median(samples) ==
  LET middle == Len(samples) \div 2
  IN IF Len(samples) % 2 = 1 THEN Sorted(samples, middle)
     ELSE average(Sorted(samples, middle), Sorted(samples, middle - 1))

-----------------------------------------------------------------------------
(* Semaphores and the signal.                                                *)

(* kill(): a daemon that waits comes back at once; one that is about to run  *)
(* goes on as if nothing had been sent.                                      *)
Signalled(d) ==
  LET r == daemon[d] IN
  CASE r.pc = "recv"     -> [r EXCEPT !.pc = "woken", !.errval = "eintr"]
    [] r.pc = "sleep"    -> [r EXCEPT !.pc = "top"]
    [] r.pc = "lockwait" -> [r EXCEPT !.pc = "unlock"]
    [] OTHER -> r

-----------------------------------------------------------------------------
(* The calls.                                                                *)

Call(c) ==
  /\ calls[c] = "idle" /\ called < NtpCalls
  /\ called' = called + 1
  /\ \E what \in {"start", "stop", "status"} : calls' = [calls EXCEPT ![c] = what]
  /\ UNCHANGED <<state, mutex, sync, pid, kod_list, daemon>>

Returns(c) == calls' = [calls EXCEPT ![c] = "idle"]

(* ntpc_status, ntpc_dualstack_family: a moment under the lock.              *)
ntpc_status(c) ==
  /\ calls[c] = "status" /\ mutex > 0
  /\ Returns(c)
  /\ UNCHANGED <<state, mutex, sync, pid, kod_list, daemon, called>>

(* ntpc_start_with_list: a daemon that runs, or is being stopped, stays.     *)
StartFindsOne(c) ==
  /\ calls[c] = "start" /\ mutex > 0
  /\ state \notin {"NOT_RUNNING", "STOPPED"}
  /\ Returns(c)
  /\ UNCHANGED <<state, mutex, sync, pid, kod_list, daemon, called>>

ntpc_start(c) ==
  /\ calls[c] = "start" /\ mutex > 0
  /\ state \in {"NOT_RUNNING", "STOPPED"}
  /\ \/ \E d \in NtpDaemons :
          /\ daemon[d].pc = "gone"
          /\ daemon' = [daemon EXCEPT ![d].pc = "born"]
          /\ pid' = d /\ state' = "STARTED" /\ mutex' = mutex - 1
          /\ calls' = [calls EXCEPT ![c] = "start_sync"]
     \/ /\ state' = "STOPPED" /\ pid' = "none"
        /\ Returns(c)
        /\ UNCHANGED <<mutex, daemon>>
  /\ UNCHANGED <<sync, kod_list, called>>

(* The lock is kept until the daemon has changed the state.                  *)
StartWaits(c) ==
  /\ calls[c] = "start_sync" /\ sync > 0
  /\ sync' = sync - 1
  /\ IF state = "STARTED"
     THEN UNCHANGED <<mutex, calls>>
     ELSE mutex' = mutex + 1 /\ Returns(c)
  /\ UNCHANGED <<state, pid, kod_list, daemon, called>>

StopFindsNone(c) ==
  /\ calls[c] = "stop" /\ mutex > 0
  /\ state \notin {"STARTED", "RUNNING"}
  /\ Returns(c)
  /\ UNCHANGED <<state, mutex, sync, pid, kod_list, daemon, called>>

(* kill() finds no task: the daemon is gone, or none could be created.       *)
KillFails == pid = "none" \/ daemon[pid].pc = "gone"

(* ntpc_stop: the request is set once, the signal sent before every wait; a  *)
(* signal that finds no task ends the call.                                  *)
ntpc_stop(c) ==
  /\ calls[c] = "stop" /\ mutex > 0
  /\ state \in {"STARTED", "RUNNING"}
  /\ state' = "STOP_REQUESTED"
  /\ IF KillFails
     THEN Returns(c) /\ UNCHANGED <<daemon, mutex>>
     ELSE /\ daemon' = [daemon EXCEPT ![pid] = Signalled(pid)]
          /\ mutex' = mutex - 1
          /\ calls' = [calls EXCEPT ![c] = "stop_sync"]
  /\ UNCHANGED <<sync, pid, kod_list, called>>

(* A mistake that would be easy to make here; the properties exclude it: any *)
(* post is taken for the daemon's end.                                       *)
StopWaits_once(c) ==
  /\ calls[c] = "stop_sync" /\ sync > 0
  /\ sync' = sync - 1
  /\ mutex' = mutex + 1 /\ Returns(c)
  /\ UNCHANGED <<state, pid, kod_list, daemon, called>>
(* A post that an earlier daemon left behind wakes it as well: it looks at   *)
(* the state, signals again and waits on.                                    *)
StopWaits(c) ==
  /\ calls[c] = "stop_sync" /\ sync > 0
  /\ sync' = sync - 1
  /\ IF state = "STOP_REQUESTED" /\ ~KillFails
     THEN /\ daemon' = [daemon EXCEPT ![pid] = Signalled(pid)]
          /\ UNCHANGED <<mutex, calls>>
     ELSE /\ mutex' = mutex + 1 /\ Returns(c)
          /\ UNCHANGED daemon
  /\ UNCHANGED <<state, pid, kod_list, called>>

CallSteps(c) ==
  \/ ntpc_status(c) \/ StartFindsOne(c) \/ ntpc_start(c) \/ StartWaits(c)
  \/ StopFindsNone(c) \/ ntpc_stop(c) \/ StopWaits(c)

-----------------------------------------------------------------------------
(* The daemon.                                                               *)

Now(d, r) == daemon' = [daemon EXCEPT ![d] = r]
OneOf(d, rs) == \E r \in rs : Now(d, r)

(* The task that finds no memory is gone without a word: the state stays     *)
(* NTP_STARTED and nothing is posted.                                        *)
DaemonBegins(d) ==
  /\ daemon[d].pc = "born"
  /\ \/ /\ Now(d, [NoDaemon EXCEPT !.pc = "announce"])
        /\ state' = "RUNNING"
     \/ Now(d, NoDaemon) /\ UNCHANGED state
  /\ UNCHANGED <<mutex, sync, pid, kod_list, calls, called>>

DaemonAnnounces(d) ==
  /\ daemon[d].pc = "announce"
  /\ Now(d, [daemon[d] EXCEPT !.pc = "top"])
  /\ sync' = sync + 1
  /\ UNCHANGED <<state, mutex, pid, kod_list, calls, called>>

(* The head of the loop: a round starts with no sample and a new list.       *)
RoundBegins(d) ==
  /\ daemon[d].pc = "top"
  /\ Now(d, IF state = "STOP_REQUESTED"
            THEN [daemon[d] EXCEPT !.pc = "ending"]
            ELSE [NoDaemon EXCEPT !.pc = "select", !.retries = daemon[d].retries])
  /\ UNCHANGED <<state, mutex, sync, pid, kod_list, calls, called>>

(* ntpc_settime: the offset is applied, unless another task has set the      *)
(* clock since the round began.                                              *)
ntpc_settime(samples) == {NoOffset, median(samples)}

(* After the attempt r, where the daemon can be: at the next one, or past a  *)
(* look at the samples.  With samples the clock is set and they are saved    *)
(* under the lock; without, the daemon tries again after a delay, or at once *)
(* when it was a signal that ended the last wait.                            *)
Attempted(r) ==
  LET next == [r EXCEPT !.asked = @ + 1, !.retry = 0, !.server = "none",
                        !.answer = NoOffset]
  IN IF next.asked < NumSamples THEN {[next EXCEPT !.pc = "select"]}
     ELSE IF next.samples # << >>
     THEN {[next EXCEPT !.offset = o, !.list = << >>,
                        !.pc = IF mutex > 0 THEN "ending" ELSE "lockwait"] :
             o \in ntpc_settime(next.samples)}
     ELSE IF next.retries >= NtpRetries THEN {[NoDaemon EXCEPT !.pc = "ending"]}
     ELSE {[NoDaemon EXCEPT !.retries = next.retries + 1,
                            !.pc = IF next.errval = "eintr" THEN "top" ELSE "sleep"]}

Failed(r) == Attempted([r EXCEPT !.errval = "other"])

(* ntp_get_next_hostip: the list is used up, the next name gives a new one.  *)
ntp_get_next_hostip(d) ==
  /\ daemon[d].pc = "select" /\ daemon[d].list = << >>
  /\ \/ \E a, b \in NtpServers : Now(d, [daemon[d] EXCEPT !.list = <<a, b>>])
     \/ \E a \in NtpServers : Now(d, [daemon[d] EXCEPT !.list = <<a>>])
     \/ OneOf(d, Failed(daemon[d]))
  /\ UNCHANGED <<state, mutex, sync, pid, kod_list, calls, called>>

(* The choice of a server: one on the KoD list is never asked, one that has  *)
(* answered already only when the retries are used up.  What is sent waits   *)
(* for its answer; the socket or the send can fail.                          *)
SelectServer(d) ==
  LET r == daemon[d]
      s == Head(r.list)
      rest == [r EXCEPT !.list = Tail(@)]
      again == \E i \in DOMAIN r.samples : r.samples[i].server = s
  IN /\ r.pc = "select" /\ r.list # << >>
     /\ IF (s \in kod_list \/ again) /\ r.retry < Selections
        THEN Now(d, [rest EXCEPT !.retry = @ + 1])
        ELSE IF s \in kod_list THEN OneOf(d, Failed(rest))
        ELSE \/ Now(d, [rest EXCEPT !.pc = "recv", !.server = s])
             \/ OneOf(d, Failed(rest))
     /\ UNCHANGED <<state, mutex, sync, pid, kod_list, calls, called>>

(* What recvfrom returns: an answer that verifies and gives an offset        *)
(* (ntpc_calculate_offset); one that does not, or none in time.              *)
ntpc_verify_recvd_ntp_datagram(d) ==
  LET r == daemon[d] IN
  /\ r.pc = "recv"
  /\ \/ \E o \in Magnitudes \cup {-m : m \in Magnitudes} :
          Now(d, [r EXCEPT !.pc = "woken", !.answer = o])
     \/ Now(d, [r EXCEPT !.pc = "woken", !.errval = "other"])
  /\ UNCHANGED <<state, mutex, sync, pid, kod_list, calls, called>>

(* A kiss of death is no answer; DENY, RSTR and RATE put the server on the   *)
(* list, which outlives the daemon.                                          *)
ntp_is_kiss_of_death(d) ==
  LET r == daemon[d] IN
  /\ r.pc = "recv"
  /\ Now(d, [r EXCEPT !.pc = "woken", !.errval = "other"])
  /\ kod_list' = kod_list \cup {r.server}
  /\ UNCHANGED <<state, mutex, sync, pid, calls, called>>

(* The daemon runs again after its wait for an answer.                       *)
ntpc_get_ntp_sample(d) ==
  LET r == daemon[d] IN
  /\ r.pc = "woken"
  /\ OneOf(d, Attempted(IF r.answer = NoOffset THEN r
                        ELSE [r EXCEPT !.samples =
                                Append(@, [server |-> r.server, offset |-> r.answer])]))
  /\ UNCHANGED <<state, mutex, sync, pid, kod_list, calls, called>>

DelayEnds(d) ==
  /\ daemon[d].pc = "sleep"
  /\ Now(d, [daemon[d] EXCEPT !.pc = "top"])
  /\ UNCHANGED <<state, mutex, sync, pid, kod_list, calls, called>>

(* The samples are saved and the lock given back, by whoever passed the wait *)
(* for it: also by one that a signal took out of it.                         *)
SamplesSaved(d) ==
  /\ \/ daemon[d].pc = "lockwait" /\ mutex > 0 /\ UNCHANGED mutex
     \/ daemon[d].pc = "unlock" /\ mutex' = mutex + 1
  /\ Now(d, [daemon[d] EXCEPT !.pc = "ending"])
  /\ UNCHANGED <<state, sync, pid, kod_list, calls, called>>

DaemonStops(d) ==
  /\ daemon[d].pc = "ending"
  /\ state' = "STOPPED"
  /\ Now(d, [NoDaemon EXCEPT !.pc = "posting"])
  /\ UNCHANGED <<mutex, sync, pid, kod_list, calls, called>>

DaemonLeaves(d) ==
  /\ daemon[d].pc = "posting"
  /\ sync' = sync + 1
  /\ Now(d, NoDaemon)
  /\ UNCHANGED <<state, mutex, pid, kod_list, calls, called>>

(* A lookup ends, an answer or its timeout comes, a delay passes.            *)
ntpc_daemon(d) ==
  \/ DaemonBegins(d) \/ DaemonAnnounces(d) \/ RoundBegins(d)
  \/ ntp_get_next_hostip(d) \/ SelectServer(d)
  \/ ntpc_verify_recvd_ntp_datagram(d) \/ ntp_is_kiss_of_death(d)
  \/ ntpc_get_ntp_sample(d) \/ DelayEnds(d) \/ SamplesSaved(d)
  \/ DaemonStops(d) \/ DaemonLeaves(d)

NtpNext ==
  \/ \E c \in NtpCallers : Call(c) \/ CallSteps(c)
  \/ \E d \in NtpDaemons : ntpc_daemon(d)

NtpFair ==
  /\ \A c \in NtpCallers : WF_ntpVars(CallSteps(c))
  /\ \A d \in NtpDaemons : WF_ntpVars(ntpc_daemon(d))

NtpSpec == NtpInit /\ [][NtpNext]_ntpVars /\ NtpFair

-----------------------------------------------------------------------------
(* Properties.                                                               *)

DaemonPlaces == {"gone", "born", "announce", "top", "select", "recv", "woken",
                 "sleep", "lockwait", "unlock", "ending", "posting"}

(* The types, and at most one daemon between its start and the end of its    *)
(* loop.                                                                     *)
NtpTypeOK ==
  /\ state \in {"NOT_RUNNING", "STARTED", "RUNNING", "STOP_REQUESTED", "STOPPED"}
  /\ mutex \in 0 .. 1 + NtpCalls /\ sync \in 0 .. 2 * NtpCalls
  /\ pid \in NtpDaemons \cup {"none"} /\ kod_list \subseteq NtpServers
  /\ calls \in [NtpCallers -> {"idle", "start", "start_sync", "stop", "stop_sync", "status"}]
  /\ \A d \in NtpDaemons :
       /\ daemon[d].pc \in DaemonPlaces
       /\ daemon[d].pc \notin {"gone", "posting"} => d = pid

(* Samples whose offsets can be compared by their differences, as the sort   *)
(* does: a clock off by less than half the range of an offset has no others. *)
SamplesFit(samples) ==
  \A j, k \in DOMAIN samples :
    samples[j].offset - samples[k].offset \in -(2 ^ (OffsetBits - 1)) .. 2 ^ (OffsetBits - 1) - 1

(* What the clock is moved by is a middle one of the offsets of the round:   *)
(* the sort, and the mean of the middle offsets (ntpc_daemon), also hold for *)
(* offsets whose sum does not fit.                                           *)
OffsetIsMedian ==
  \A d \in NtpDaemons :
    LET r == daemon[d]
        smaller == {i \in DOMAIN r.samples : r.samples[i].offset < r.offset}
        larger == {i \in DOMAIN r.samples : r.samples[i].offset > r.offset}
    IN r.offset # NoOffset /\ SamplesFit(r.samples) =>
         /\ 2 * Cardinality(smaller) <= Len(r.samples)
         /\ 2 * Cardinality(larger) <= Len(r.samples)

(* The lock has been given back no more often than it was taken.  A daemon   *)
(* that a signal took out of its wait for the lock gives it back all the     *)
(* same: from then on two calls can be under way at once, and one of them    *)
(* can start a daemon that the other one, which stopped its predecessor,     *)
(* finds running.                                                            *)
Holders == {c \in NtpCallers : calls[c] \in {"start_sync", "stop_sync"}}
LockIntact == mutex + Cardinality(Holders) <= 1

(* When ntpc_stop comes back from its wait, the daemon it stopped has left   *)
(* its loop and will not set the clock: the posts of earlier starts and      *)
(* ends, which stay in the semaphore, do not pass for its end.  It is so as  *)
(* long as no signal ended a wait for the lock.                              *)
StopMeansStopped ==
  \A c \in NtpCallers :
    LockIntact /\ calls[c] = "stop_sync" /\ calls'[c] = "idle" =>
      KillFails' \/ daemon'[pid].pc = "posting"

(* The clock is moved by a middle offset, and never after a stop (both of    *)
(* the above).                                                               *)
ClockIsSafe == [][OffsetIsMedian' /\ StopMeansStopped]_ntpVars

(* A caller that waits for the daemon and keeps the lock, and the daemon     *)
(* that waits for the lock to save its samples.                              *)
Circle ==
  /\ mutex = 0
  /\ \E c \in NtpCallers, d \in NtpDaemons :
       calls[c] = "stop_sync" /\ daemon[d].pc = "lockwait"

(* A caller that waits for the first word of a daemon that found no memory.  *)
NoWord ==
  /\ sync = 0
  /\ \E c \in NtpCallers : calls[c] = "start_sync" /\ KillFails

(* Every call returns, but for these two and for what may follow when the    *)
(* lock was given back too often, where one caller can take the post that    *)
(* another one waits for: the lock is never lost, and no post is missed, in  *)
(* any other way.                                                            *)
Stuck == Circle \/ NoWord \/ ~LockIntact
NtpCallsReturn == \A c \in NtpCallers : calls[c] # "idle" ~> (calls[c] = "idle" \/ Stuck)

(* ntpc_stop ends: "Wait for the NTP client to respond to the stop request"  *)
(* (ntpc_stop), which the daemon does at the head of its loop.               *)
StopIsAnswered == ~Circle
=============================================================================
