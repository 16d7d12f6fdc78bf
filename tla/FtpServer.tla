------------------------------ MODULE FtpServer ------------------------------
(* The life of the FTP server: the `ftpd` command of the board               *)
(* (apps/system/a733ftpd), its listener task, and the workers the server     *)
(* library starts for each client (apps/netutils/ftpd: ftpd_session,         *)
(* ftpd_worker, ftpd_freesession, ftpd_close).  The server's accounts and    *)
(* the saved verifier are used by every worker without a lock; they may go   *)
(* only when the last worker has left.                                       *)
EXTENDS Naturals, FiniteSets

CONSTANTS
  FtpWorkers,     \* connections that can be open at a time: a bound
  MaxSessions,    \* CONFIG_FTPD_MAX_SESSIONS
  Starts          \* times the server is started: a bound

ASSUME FtpServerAssumption ==
  IsFiniteSet(FtpWorkers) /\ MaxSessions \in Nat /\ Starts \in Nat

VARIABLES
  g_server,   \* "none", or the state of the server object behind g_server
  g_stop,     \* stop was asked for
  listener,   \* where server_task is
  accounts,   \* the account list and the verifier: "none", "there", "freed"
  clients,    \* server->clients
  session,    \* session[w]: a session object and its worker
  starts

serverVars == <<g_server, g_stop, listener, accounts, clients, session, starts>>

ServerInit ==
  /\ g_server = "none" /\ g_stop = FALSE /\ listener = "none"
  /\ accounts = "none" /\ clients = 0
  /\ session = [w \in FtpWorkers |-> "none"]
  /\ starts = 0

-----------------------------------------------------------------------------
(* The command.  It runs under g_lock from the first check to its end.       *)

(* `ftpd start`: the listening socket, the account, the verifier, the        *)
(* listener task; whatever fails after ftpd_open closes the server again,    *)
(* which no worker uses yet.                                                 *)
ftpd_start ==
  /\ g_server = "none"
  /\ starts < Starts
  /\ starts' = starts + 1
  /\ \/ /\ g_server' = "open" /\ g_stop' = FALSE
        /\ listener' = "loop" /\ accounts' = "there"
     \/ UNCHANGED <<g_server, g_stop, listener, accounts>>
  /\ UNCHANGED <<clients, session>>

ftpd_stop ==
  /\ g_stop' = (g_server # "none")
  /\ UNCHANGED <<g_server, listener, accounts, clients, session, starts>>

-----------------------------------------------------------------------------
(* server_task.                                                              *)

(* A mistake that would be easy to make here; the properties exclude it: the *)
(* listener goes on accepting until no session is left.                      *)
server_task_lingers ==
  /\ listener = "loop"
  /\ listener' = IF g_stop /\ clients = 0 THEN "close" ELSE "accept"
  /\ UNCHANGED <<g_server, g_stop, accounts, clients, session, starts>>
(* The stop flag is read before every wait for a connection of a second.     *)
server_task ==
  /\ listener = "loop"
  /\ listener' = IF g_stop THEN "close" ELSE "accept"
  /\ UNCHANGED <<g_server, g_stop, accounts, clients, session, starts>>

(* ftpd_session: no client in time, or no memory; the loop goes on after a   *)
(* timeout and leaves after another error.                                   *)
AcceptFails ==
  /\ listener = "accept"
  /\ listener' \in {"loop", "close"}
  /\ UNCHANGED <<g_server, g_stop, accounts, clients, session, starts>>

(* A connection is accepted: counted when there is room and its worker can   *)
(* be created, answered 421 or dropped otherwise.                            *)
ftpd_session_accepts(w) ==
  /\ listener = "accept"
  /\ session[w] = "none"
  /\ clients < MaxSessions
  /\ clients' = clients + 1
  /\ session' = [session EXCEPT ![w] = "counted"]
  /\ listener' = "create"
  /\ UNCHANGED <<g_server, g_stop, accounts, starts>>

TooManyClients ==
  /\ listener = "accept"
  /\ clients >= MaxSessions
  /\ listener' = "loop"
  /\ UNCHANGED <<g_server, g_stop, accounts, clients, session, starts>>

ftpd_startworker(w) ==
  /\ listener = "create"
  /\ session[w] = "counted"
  /\ \/ session' = [session EXCEPT ![w] = "login"] /\ listener' = "loop"
     \/ session' = [session EXCEPT ![w] = "free"] /\ listener' = "close"
  /\ UNCHANGED <<g_server, g_stop, accounts, clients, starts>>

(* ftpd_close: the listening socket is closed, the workers are waited for,   *)
(* and then accounts and server are freed; server_task erases the verifier   *)
(* and makes room for the next start.                                        *)
ClosesListener ==
  /\ listener = "close"
  /\ listener' = "drain" /\ g_server' = "closed"
  /\ UNCHANGED <<g_stop, accounts, clients, session, starts>>

Freed ==
  /\ listener' = "forget" /\ accounts' = "freed"
  /\ UNCHANGED <<g_server, g_stop, clients, session, starts>>
(* A mistake that would be easy to make here; the properties exclude it:     *)
(* the condition variable is waited on once, not until the count is zero.    *)
ftpd_close_once == listener = "drain" /\ clients <= 1 /\ Freed
ftpd_close == listener = "drain" /\ clients = 0 /\ Freed

Forgets ==
  /\ listener = "forget"
  /\ g_server' = "none" /\ g_stop' = FALSE /\ listener' = "none"
  /\ UNCHANGED <<accounts, clients, session, starts>>

-----------------------------------------------------------------------------
(* A worker: it serves commands, reading the accounts at every login, until  *)
(* its client leaves or is idle for a minute; it never reads g_stop.         *)

ftpd_account_login(w) ==
  /\ session[w] = "login"
  /\ session' = [session EXCEPT ![w] = "serve"]
  /\ UNCHANGED <<g_server, g_stop, listener, accounts, clients, starts>>

NextCommand(w) ==
  /\ session[w] = "serve"
  /\ session' = [session EXCEPT ![w] = "login"]
  /\ UNCHANGED <<g_server, g_stop, listener, accounts, clients, starts>>

WorkerLeaves(w) ==
  /\ session[w] = "serve"
  /\ session' = [session EXCEPT ![w] = "free"]
  /\ UNCHANGED <<g_server, g_stop, listener, accounts, clients, starts>>

Uncounted(w) ==
  /\ session[w] = "free"
  /\ session' = [session EXCEPT ![w] = "none"]
  /\ UNCHANGED <<g_server, g_stop, listener, accounts, starts>>
(* A mistake that would be easy to make here; the properties exclude it: a   *)
(* session whose worker could not be created stays counted.                  *)
ftpd_freesession_forgets(w) ==
  Uncounted(w) /\ clients' = IF listener = "close" THEN clients ELSE clients - 1
(* ftpd_freesession: the count goes down under the server's lock, where      *)
(* ftpd_close waits for it, and the server is not touched after that.        *)
ftpd_uncount(w) == Uncounted(w) /\ clients' = clients - 1

ServerNext ==
  \/ ftpd_start \/ ftpd_stop
  \/ server_task \/ AcceptFails \/ TooManyClients
  \/ ClosesListener \/ ftpd_close \/ Forgets
  \/ \E w \in FtpWorkers :
       \/ ftpd_session_accepts(w) \/ ftpd_startworker(w)
       \/ ftpd_account_login(w) \/ NextCommand(w) \/ WorkerLeaves(w)
       \/ ftpd_uncount(w)

(* The listener and the workers run; clients do not keep their sessions for  *)
(* ever: they leave, or a minute of silence ends the session.                *)
Leaving == \E w \in FtpWorkers : WorkerLeaves(w)
ServerFair ==
  /\ WF_serverVars(server_task \/ AcceptFails)
  /\ WF_serverVars(ClosesListener \/ ftpd_close \/ Forgets)
  /\ \A w \in FtpWorkers :
       /\ WF_serverVars(ftpd_startworker(w))
       /\ WF_serverVars(ftpd_account_login(w))
       /\ WF_serverVars(ftpd_uncount(w))
  /\ SF_serverVars(Leaving)

ServerSpec == ServerInit /\ [][ServerNext]_serverVars /\ ServerFair

-----------------------------------------------------------------------------
ServerTypeOK ==
  /\ g_server \in {"none", "open", "closed"}
  /\ g_stop \in BOOLEAN
  /\ listener \in {"none", "loop", "accept", "create", "close", "drain", "forget"}
  /\ accounts \in {"none", "there", "freed"}
  /\ clients \in 0 .. MaxSessions
  /\ session \in [FtpWorkers -> {"none", "counted", "login", "serve", "free"}]
  /\ starts \in 0 .. Starts

OpenSessions == {w \in FtpWorkers : session[w] # "none"}

(* While a worker is inside its session the accounts and the verifier it     *)
(* compares passwords with are there, and the count that ftpd_close waits    *)
(* for is the number of sessions (ftpd_close, ftpd_freesession; the comment  *)
(* "never free their account early" of server_task).                         *)
AccountsOutlive ==
  /\ clients = Cardinality(OpenSessions)
  /\ OpenSessions # {} => accounts = "there"

(* A stop that was asked for ends: the listener closes, the sessions drain,  *)
(* and the server can be started again (server_task, ftpd_close).            *)
StopDrains == g_stop ~> g_server = "none"
=============================================================================
