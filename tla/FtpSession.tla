----------------------------- MODULE FtpSession -----------------------------
(* A worker of the FTP server (apps/netutils/ftpd/ftpd.c) and a client that  *)
(* uploads one large file the way the board's guide tells it to: under the   *)
(* name "part", resumed after an interruption from the size the board        *)
(* reports (REST and STOR, or APPE), and renamed to "model" once a transfer  *)
(* of it was acknowledged.  The transfer type is binary throughout, as the   *)
(* guide demands; the server is built with passive connections only and      *)
(* keeps what an interrupted upload has stored (CONFIG_FTPD_PASSIVE_ONLY,    *)
(* CONFIG_FTPD_KEEP_PARTIAL of the board's defconfig).                       *)
(*                                                                           *)
(* A worker whose client has gone lives on until its receive times out: it   *)
(* is an interleaving of its own with the session that resumes the upload.   *)
EXTENDS Integers, Sequences, SequencesExt, FiniteSets

CONSTANTS
  Workers,     \* sessions the server runs at a time (CONFIG_FTPD_MAX_SESSIONS)
  Buffers,     \* length of the client's file, in data buffers
  InFlight,    \* buffers that fit between the client and the worker: a bound
  Losses,      \* times the client loses its connections: a bound
  Patient      \* TRUE: the client comes back when the old worker has ended

ASSUME FtpConstants ==
  /\ "none" \notin Workers
  /\ Buffers \in Nat /\ InFlight \in Nat \ {0} /\ Losses \in Nat
  /\ Patient \in BOOLEAN

VARIABLES
  ftp,       \* ftp[w]: the session of worker w (struct ftpd_session_s)
  files,     \* the served directory: a name is in its domain when it exists
  client     \* the client: the session it talks to and what it was told

ftpVars == <<ftp, files, client>>

Names    == {"part", "model"}
Original == [i \in 1 .. Buffers |-> i]
NoWorker == "none"

(* The session as ftpd_session prepares it; `worker` says where ftpd_worker  *)
(* is: no thread, waiting for a command, or inside ftpd_stream.              *)
Fresh == [worker |-> "none", user |-> FALSE, loggedin |-> FALSE,
          restartpos |-> 0, renamefrom |-> "none", data |-> "none",
          cmd |-> "none", pos |-> 0, inbox |-> <<>>, fin |-> FALSE]

(* `offset`: where the client's own REST put the next transfer; `known`: the *)
(* size it was told, -1 before it asked; `acked`: "part" is all there as far *)
(* as it was told.                                                           *)
NewClient == [active |-> NoWorker, offset |-> 0, known |-> -1, next |-> 0,
              got |-> <<>>, acked |-> FALSE, losses |-> 0]

FtpInit == /\ ftp = [w \in Workers |-> Fresh]
           /\ files = <<>>
           /\ client = NewClient

Content(n) == IF n \in DOMAIN files THEN files[n] ELSE <<>>
Stored(n, c) == [m \in DOMAIN files \cup {n} |-> IF m = n THEN c ELSE files[m]]
Without(n)   == [m \in DOMAIN files \ {n} |-> files[m]]

-----------------------------------------------------------------------------
(* Sessions.                                                                 *)

Set(w, session) == ftp' = [ftp EXCEPT ![w] = session]

(* ftpd_session accepts the connection and starts ftpd_worker, which greets  *)
(* the client; the count of sessions and the close are FtpServer's.          *)
ftpd_session(w) ==
  /\ client.active = NoWorker
  /\ ftp[w].worker = "none"
  /\ Patient => \A v \in Workers : ftp[v].worker = "none"
  /\ Set(w, [Fresh EXCEPT !.worker = "command"])
  /\ client' = [client EXCEPT !.active = w, !.offset = 0, !.known = -1,
                              !.acked = FALSE]
  /\ UNCHANGED files

(* ftpd_worker leaves its loop and ftpd_freesession closes whatever the      *)
(* session still has open.                                                   *)
ftpd_freesession(w) ==
  /\ Set(w, Fresh)
  /\ client' = IF client.active = w
               THEN [client EXCEPT !.active = NoWorker] ELSE client

(* The client's connections break: silently, so that only timeouts tell, or  *)
(* with its sockets closed, which is the end of the data stream.             *)
ClientLost ==
  /\ client.active # NoWorker
  /\ client.losses < Losses
  /\ \E closed \in BOOLEAN : Set(client.active, [ftp[client.active] EXCEPT !.fin = closed])
  /\ client' = [client EXCEPT !.active = NoWorker, !.losses = @ + 1, !.got = <<>>]
  /\ UNCHANGED files

(* ftpd_recv on the control socket returns 0 or times out.                   *)
CommandTimesOut(w) ==
  /\ ftp[w].worker = "command"
  /\ client.active # w
  /\ ftpd_freesession(w)
  /\ UNCHANGED files

-----------------------------------------------------------------------------
(* Commands: ftpd_command calls a handler for the session's next line, and   *)
(* the handlers marked FTPD_CMDFLAG_LOGIN only after a login.                *)

Commanded(w) == client.active = w /\ ftp[w].worker = "command"
ftpd_command(w) == Commanded(w) /\ ftp[w].loggedin

ftpd_command_user(w) ==
  /\ Commanded(w)
  /\ Set(w, [ftp[w] EXCEPT !.user = TRUE, !.loggedin = FALSE, !.restartpos = 0,
                           !.renamefrom = "none"])
  /\ client' = [client EXCEPT !.offset = 0]
  /\ UNCHANGED files

ftpd_command_pass(w) ==
  /\ Commanded(w) /\ ftp[w].user
  /\ \E valid \in BOOLEAN : Set(w, [ftp[w] EXCEPT !.loggedin = valid])
  /\ UNCHANGED <<files, client>>

(* PASV and EPSV drop an earlier data socket and listen on a new one, or     *)
(* answer that they cannot.                                                  *)
ftpd_command_pasv(w) ==
  /\ ftpd_command(w)
  /\ \E opened \in {"none", "listening"} : Set(w, [ftp[w] EXCEPT !.data = opened])
  /\ UNCHANGED <<files, client>>

ftpd_command_epsv(w) == ftpd_command_pasv(w)

(* PORT, EPRT and ABOR only close the data socket in this build.             *)
ftpd_command_abor(w) ==
  /\ ftpd_command(w) /\ Set(w, [ftp[w] EXCEPT !.data = "none"])
  /\ UNCHANGED <<files, client>>

ftpd_command_quit(w) ==
  /\ Commanded(w) /\ ftpd_freesession(w) /\ UNCHANGED files

(* SIZE: the length of the name, or an error the client takes for nothing    *)
(* stored.  A file that a worker holds open may have a shorter length in its *)
(* directory entry.                                                          *)
SizesOf(n) ==
  IF \E v \in Workers : ftp[v].worker = "stream" /\ ftp[v].cmd # "retr"
  THEN 0 .. Len(Content(n)) ELSE {Len(Content(n))}

ftpd_command_size(w) ==
  /\ ftpd_command(w)
  /\ \E size \in SizesOf("part") : client' = [client EXCEPT !.known = size]
  /\ UNCHANGED <<ftp, files>>

ftpd_command_rest(w) ==
  /\ ftpd_command(w)
  /\ client.known >= 0
  /\ Set(w, [ftp[w] EXCEPT !.restartpos = client.known])
  /\ client' = [client EXCEPT !.offset = client.known]
  /\ UNCHANGED files

ftpd_command_rnfr(w) ==
  /\ ftpd_command(w)
  /\ client.acked
  /\ Set(w, [ftp[w] EXCEPT !.renamefrom = IF "part" \in DOMAIN files THEN "part" ELSE "none"])
  /\ UNCHANGED <<files, client>>

(* RNTO: a failed rename also ends the session, as every negative result of  *)
(* a handler does.                                                           *)
ftpd_command_rnto(w) ==
  /\ ftpd_command(w)
  /\ client.acked /\ client.offset = 0
  /\ \/ /\ ftp[w].renamefrom \in DOMAIN files
        /\ files' = [m \in (DOMAIN files \ {ftp[w].renamefrom}) \cup {"model"} |->
                       IF m = "model" THEN files[ftp[w].renamefrom] ELSE files[m]]
        /\ client' = [client EXCEPT !.acked = FALSE, !.known = -1]
        /\ UNCHANGED ftp
     \/ ftpd_freesession(w) /\ UNCHANGED files

ftpd_command_dele(w) ==
  /\ ftpd_command(w)
  /\ client.offset = 0
  /\ \E n \in DOMAIN files :
       \/ /\ files' = Without(n)
          /\ client' = [client EXCEPT !.acked = FALSE, !.known = -1]
          /\ UNCHANGED ftp
       \/ ftpd_freesession(w) /\ UNCHANGED files

(* LIST and NLST: without a data socket or a connection to it the session    *)
(* goes on; the restart position is left alone.                              *)
ftpd_command_list(w) ==
  /\ ftpd_command(w) /\ Set(w, [ftp[w] EXCEPT !.data = "none"])
  /\ UNCHANGED <<files, client>>

-----------------------------------------------------------------------------
(* Transfers: ftpd_stream.                                                   *)

(* ftpd_stream's one way out: data socket and file closed, the restart       *)
(* position spent, what was stored kept.                                     *)
StreamLeft(w) == [Fresh EXCEPT !.worker = "command", !.user = ftp[w].user,
                    !.loggedin = ftp[w].loggedin, !.renamefrom = ftp[w].renamefrom]
(* A mistake that would be easy to make here; the properties exclude it:     *)
(* the error exits taken before the file is open forget the restart          *)
(* position.                                                                 *)
StreamRefusedLate(w) == [StreamLeft(w) EXCEPT !.restartpos = ftp[w].restartpos]
StreamRefused(w) == StreamLeft(w)

(* The client's side of a transfer that is over: its REST is spent.          *)
Spent == [client EXCEPT !.offset = 0, !.known = -1, !.next = 0, !.got = <<>>,
                        !.acked = FALSE]

(* The path, the file or the seek is refused: answered, the session stays.   *)
StreamFails(w) ==
  /\ Set(w, StreamRefused(w)) /\ client' = Spent /\ UNCHANGED files

(* ftpd_dataopen: no passive socket, no connection within the timeout, or a  *)
(* connection from elsewhere; its negative result ends the session.          *)
ftpd_dataopen_fails(w) == ftpd_freesession(w) /\ UNCHANGED files

(* The file as open leaves it: STOR without a restart position truncates.    *)
Opened(cmd, w) ==
  IF cmd = "retr" THEN files
  ELSE Stored("part", IF cmd = "stor" /\ ftp[w].restartpos <= 0
                      THEN <<>> ELSE Content("part"))

(* The 150 answer is sent; a client starts at the offset it asked for, and   *)
(* at the size it was told when it appends.                                  *)
StreamBegins(w, cmd) ==
  /\ ftp[w].data = "listening"
  /\ cmd = "retr" => "part" \in DOMAIN files
  /\ files' = Opened(cmd, w)
  /\ Set(w, [ftp[w] EXCEPT !.worker = "stream", !.data = "connected", !.cmd = cmd,
                           !.pos = ftp[w].restartpos])
  /\ client' = [client EXCEPT !.acked = FALSE,
                  !.next = IF cmd = "appe" THEN client.known ELSE client.offset]

Transfer(w, cmd) ==
  \/ StreamFails(w)
  \/ ftpd_dataopen_fails(w)
  \/ StreamBegins(w, cmd)

ftpd_command_retr(w) == ftpd_command(w) /\ Transfer(w, "retr")

ftpd_command_stor(w) ==
  /\ ftpd_command(w)
  /\ client.offset > 0 \/ client.known = 0
  /\ Transfer(w, "stor")

ftpd_command_appe(w) ==
  /\ ftpd_command(w)
  /\ client.known >= 0 /\ client.offset = 0
  /\ Transfer(w, "appe")

Streaming(w, cmds) == ftp[w].worker = "stream" /\ ftp[w].cmd \in cmds

(* The client sends the next buffer, or closes the data connection when all  *)
(* is sent.                                                                  *)
ClientSends ==
  /\ client.active # NoWorker
  /\ LET w == client.active IN
     /\ Streaming(w, {"stor", "appe"}) /\ ~ftp[w].fin
     /\ IF client.next < Buffers
        THEN /\ Len(ftp[w].inbox) < InFlight
             /\ Set(w, [ftp[w] EXCEPT !.inbox = Append(@, client.next + 1)])
             /\ client' = [client EXCEPT !.next = @ + 1]
        ELSE Set(w, [ftp[w] EXCEPT !.fin = TRUE]) /\ UNCHANGED client
     /\ UNCHANGED files

(* What write does at a position: O_APPEND writes at the end, and a position *)
(* beyond the end leaves a gap of zeros.                                     *)
Written(c, pos, b) ==
  [i \in 1 .. (IF pos + 1 > Len(c) THEN pos + 1 ELSE Len(c)) |->
     IF i = pos + 1 THEN b ELSE IF i <= Len(c) THEN c[i] ELSE 0]

Position(w) == IF ftp[w].cmd = "appe" THEN Len(Content("part")) ELSE ftp[w].pos

(* One buffer received and written.                                          *)
StreamStores(w) ==
  /\ Streaming(w, {"stor", "appe"})
  /\ ftp[w].inbox # <<>>
  /\ files' = Stored("part", Written(Content("part"), Position(w), ftp[w].inbox[1]))
  /\ Set(w, [ftp[w] EXCEPT !.inbox = Tail(@), !.pos = Position(w) + 1])
  /\ UNCHANGED client

(* The stream is over and was all accepted: 226.                             *)
Acknowledged(w) ==
  /\ Set(w, StreamLeft(w))
  /\ client' = IF client.active = w THEN [Spent EXCEPT !.acked = TRUE] ELSE client

(* The transfer fails: 451, and the session stays.                           *)
Refused(w) ==
  /\ Set(w, StreamLeft(w))
  /\ client' = IF client.active = w THEN Spent ELSE client

(* End of the data: the file is flushed and closed, and only then the upload *)
(* is acknowledged.  A flush that fails may lose the end of what was written. *)
FlushLoses(w) == \E k \in 0 .. Len(Content("part")) :
                   files' = Stored("part", SubSeq(Content("part"), 1, k))
(* A mistake that would be easy to make here; the properties exclude it:     *)
(* the upload is acknowledged when the client closes the data connection.    *)
StreamFlushesUnchecked(w) ==
  /\ Streaming(w, {"stor", "appe"})
  /\ ftp[w].inbox = <<>> /\ ftp[w].fin
  /\ UNCHANGED files \/ FlushLoses(w)
  /\ Acknowledged(w)
StreamFlushes(w) ==
  /\ Streaming(w, {"stor", "appe"})
  /\ ftp[w].inbox = <<>> /\ ftp[w].fin
  /\ \/ UNCHANGED files /\ Acknowledged(w)
     \/ FlushLoses(w) /\ Refused(w)

(* write fails, or the receive times out on a client that is gone.           *)
StreamBreaks(w) ==
  /\ Streaming(w, {"stor", "appe"})
  /\ \/ ftp[w].inbox # <<>>
     \/ client.active # w /\ ~ftp[w].fin
  /\ Refused(w)
  /\ UNCHANGED files

(* RETR: a buffer is read at the position and sent; the end of the file is   *)
(* the end of the transfer.                                                  *)
StreamSends(w) ==
  /\ Streaming(w, {"retr"})
  /\ client.active = w
  /\ ftp[w].pos < Len(Content("part"))
  /\ client' = [client EXCEPT !.got = Append(@, Content("part")[ftp[w].pos + 1])]
  /\ Set(w, [ftp[w] EXCEPT !.pos = @ + 1])
  /\ UNCHANGED files

StreamSent(w) ==
  /\ Streaming(w, {"retr"})
  /\ \/ ftp[w].pos >= Len(Content("part"))
     \/ client.active # w
  /\ Set(w, StreamLeft(w))
  /\ client' = IF client.active = w
               THEN [Spent EXCEPT !.acked = client.acked] ELSE client
  /\ UNCHANGED files

FtpWorker(w) ==
  \/ ftpd_session(w) \/ CommandTimesOut(w)
  \/ ftpd_command_user(w) \/ ftpd_command_pass(w)
  \/ ftpd_command_epsv(w) \/ ftpd_command_abor(w) \/ ftpd_command_quit(w)
  \/ ftpd_command_size(w) \/ ftpd_command_rest(w)
  \/ ftpd_command_rnfr(w) \/ ftpd_command_rnto(w) \/ ftpd_command_dele(w)
  \/ ftpd_command_list(w)
  \/ ftpd_command_retr(w) \/ ftpd_command_stor(w) \/ ftpd_command_appe(w)
  \/ StreamStores(w) \/ StreamFlushes(w) \/ StreamBreaks(w)
  \/ StreamSends(w) \/ StreamSent(w)

FtpNext == ClientLost \/ ClientSends \/ \E w \in Workers : FtpWorker(w)

FtpSpec == FtpInit /\ [][FtpNext]_ftpVars

-----------------------------------------------------------------------------
FtpTypeOK ==
  /\ DOMAIN files \subseteq Names
  /\ \A n \in DOMAIN files : Len(files[n]) <= 2 * Buffers
  /\ client.active \in Workers \cup {NoWorker}
  /\ \A w \in Workers :
       /\ ftp[w].worker \in {"none", "command", "stream"}
       /\ ftp[w].worker = "stream" <=> ftp[w].data = "connected"
       /\ ftp[w].restartpos \in 0 .. 2 * Buffers
       /\ Len(ftp[w].inbox) <= InFlight

(* An upload that is interrupted any number of times and resumed leaves a    *)
(* beginning of the client's file under "part" at every moment, "model" is   *)
(* only ever the whole file, and an acknowledged upload is the whole file    *)
(* (ftpd_stream: the truncation, the restart position, the fsync before      *)
(* 226).                                                                     *)
ResumedWhole ==
  /\ \A n \in DOMAIN files : IsPrefix(files[n], Original)
  /\ "model" \in DOMAIN files => files["model"] = Original
  /\ client.acked => files["part"] = Original

(* A restart position is used by the transfer it was sent for or not at all: *)
(* whatever failed in between, the server's position and the one the client  *)
(* believes in agree (ftpd_stream's errout, ftpd_command_user).              *)
RestartIsSpent ==
  \A w \in Workers :
    client.active = w /\ ftp[w].worker = "command" =>
      ftp[w].restartpos = client.offset

(* An upload can be resumed after any interruption (both of the above).      *)
FtpResumes == ResumedWhole /\ RestartIsSpent

(* After a transfer command that could not be carried out the client can go  *)
(* on in the same session; only QUIT and a broken control connection end one *)
(* (the comment of ftpd_transfer_error).                                     *)
SessionSurvives ==
  [][\A w \in Workers :
       client.active = w /\ (\E cmd \in {"retr", "stor", "appe"} : Transfer(w, cmd))
         => client'.active = w]_ftpVars
=============================================================================
