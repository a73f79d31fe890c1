--------------------------- MODULE SocketService ---------------------------
(***************************************************************************)
(* The blocking sockets of src/net_sync/mod.rs: how a SocketHandle is made *)
(* by TcpSocket::connect, TcpSocket::bind and TcpListener::accept, and how *)
(* it is closed when it is dropped, against the file descriptors that the  *)
(* socket service (external, soc:U) has open.                              *)
(*                                                                         *)
(* Every call is one request and its reply.  The request can fail, and a   *)
(* reply carries a result code and a posix code; a negative posix code is  *)
(* translated by net_try (src/err.rs).                                     *)
(***************************************************************************)
EXTENDS Integers, Sequences

CONSTANTS Sockets,     \* the TcpSockets and TcpListeners, by number
          Fds,         \* the descriptors of the service, by number
          BadFd,       \* a number that is no descriptor
          Addrs,       \* IPv4 addresses: two bytes of port, four of address
          MaxFaults    \* bound: replies that report an error

ASSUME SocketAssumption ==
  /\ Sockets \subseteq Nat /\ Fds \subseteq Nat
  /\ BadFd \notin Fds
  /\ Addrs \subseteq [1..6 -> 0..255]
  /\ MaxFaults \in Nat

VARIABLES up,        \* SOCKET_SERVICES is set
          open,      \* external: the descriptors the service has open
          wire,      \* external: the peer's address, as the service has it
          sock,      \* where each socket is
          fd,        \* SocketHandle.0
          addr,      \* TcpSocket.addr
          panicked,  \* sockets whose opening or closing ended in a panic
          lost,      \* history: descriptors whose close failed
          refused,   \* history: an accept() met a failed result code
          faults

socketVars ==
  <<up, open, wire, sock, fd, addr, panicked, lost, refused, faults>>

(* States in which the socket's SocketHandle exists. *)
Live == {"connecting", "binding", "bound", "stream", "listening", "dropping"}

(* Sockets and descriptors are numbered in the order of their first use. *)
NewSocket(h) ==
  sock[h] = "none" /\ \A g \in Sockets : g < h => sock[g] # "none"

NewFd(f) ==
  f \in Fds \ open /\ \A g \in Fds : g < f => \E h \in Sockets : fd[h] = g

SocketInit ==
  /\ up = FALSE
  /\ open = {}
  /\ wire = [h \in Sockets |-> <<>>]
  /\ sock = [h \in Sockets |-> "none"]
  /\ fd = [h \in Sockets |-> BadFd]
  /\ addr = [h \in Sockets |-> <<>>]
  /\ panicked = {}
  /\ lost = {}
  /\ refused = FALSE
  /\ faults = 0
-----------------------------------------------------------------------------
(* Replies.                                                                *)

ERROR_MAP_LEN == 77
EAGAIN == 6        \* index of libc::EAGAIN in ERROR_MAP
EBADF == 8         \* index of libc::EBADF

(* net_try; an index behind the end of ERROR_MAP is a todo!(). *)
NetTry(posix) ==
  CASE posix >= 0                          -> "ok"
    [] posix < 0 /\ -posix >= ERROR_MAP_LEN -> "panic"
    [] posix = -EAGAIN                     -> "again"
    [] OTHER                               -> "err"

(* What a request can bring back.  A posix code is a success, an error the *)
(* map knows, or one it does not know.                                     *)
Replies == [sent : BOOLEAN, res : {0, -1}, posix : {0, -EBADF, -ERROR_MAP_LEN}]

(* request()?, ds_try!(res_code), net_try(posix_code)? *)
Checked(r) ==
  IF r.sent /\ r.res >= 0 THEN NetTry(r.posix) ELSE "err"

Fault(outcome) ==
  IF outcome = "ok" THEN UNCHANGED faults
  ELSE faults < MaxFaults /\ faults' = faults + 1
-----------------------------------------------------------------------------
(* Addresses, as the service wants them: length, family, and the bytes of  *)
(* sockaddr.sa_data.                                                       *)

AF_INET == 2

sockaddr_as_bytes(a) == <<8, AF_INET>> \o a

(* The buffer of 0x1C bytes, before and after the service filled it. *)
EmptyBuffer == [i \in 1..28 |-> 0]
Filled(bytes) == bytes \o [i \in 1..(28 - Len(bytes)) |-> 0]

(* What read_sockaddr copies: user_addrlen - 2 bytes. *)
CopiedLen(tmpaddr) == tmpaddr[1] + (IF tmpaddr[2] = AF_INET THEN 8 ELSE 0) - 2

(* A faulty one that takes the family for a byte of the address. *)
ReadSockaddrShifted(tmpaddr) == SubSeq(tmpaddr, 2, 7)

(* read_sockaddr(tmpaddr).as_socket_ipv4().unwrap() *)
read_sockaddr(tmpaddr) ==
  LET sa_data == [i \in 1..14 |->
                    IF i <= CopiedLen(tmpaddr) THEN tmpaddr[i + 2] ELSE 0]
  IN  SubSeq(sa_data, 1, 6)
-----------------------------------------------------------------------------
(* init(), called by RuntimeConfiguration::run before its future runs;     *)
(* only when the configuration asks for sockets.                           *)
InitService ==
  /\ ~up
  /\ \A h \in Sockets : sock[h] = "none"
  /\ up' = TRUE
  /\ UNCHANGED <<open, wire, sock, fd, addr, panicked, lost, refused, faults>>

(* SOCKET_SERVICES.get().unwrap() of connect or bind, without init(). *)
ServiceMissing(h) ==
  /\ ~up
  /\ NewSocket(h)
  /\ sock' = [sock EXCEPT ![h] = "gone"]
  /\ panicked' = panicked \cup {h}
  /\ UNCHANGED <<up, open, wire, fd, addr, lost, refused, faults>>

(* create_socket: a socket for `to`.  Only the result code is looked at: a *)
(* posix error becomes a handle too.                                       *)
CreateSocket(h, to) ==
  /\ up
  /\ NewSocket(h)
  /\ \/ \E f \in Fds :
          /\ NewFd(f)
          /\ open' = open \cup {f}
          /\ fd' = [fd EXCEPT ![h] = f]
          /\ sock' = [sock EXCEPT ![h] = to]
          /\ UNCHANGED faults
     \/ /\ Fault("err")
        /\ sock' = [sock EXCEPT ![h] = to]
        /\ UNCHANGED <<open, fd>>
     \/ /\ Fault("err")
        /\ sock' = [sock EXCEPT ![h] = "gone"]
        /\ UNCHANGED <<open, fd>>
  /\ UNCHANGED <<up, wire, addr, panicked, lost, refused>>

(* The reply of a call that looks at every code: on success the socket     *)
(* goes on, otherwise `?` or the panic drops its handle.  The service      *)
(* refuses what is no descriptor.                                          *)
Reply(h, r, to) ==
  /\ fd[h] = BadFd => Checked(r) # "ok"
  /\ IF fd[h] = BadFd THEN UNCHANGED faults ELSE Fault(Checked(r))
  /\ sock' = [sock EXCEPT ![h] = IF Checked(r) = "ok" THEN to ELSE "dropping"]
  /\ panicked' = IF Checked(r) = "panic" THEN panicked \cup {h} ELSE panicked
  /\ UNCHANGED <<up, open, fd, lost, refused>>

(* TcpSocket::connect: soc.connect(&fd, addr)? *)
Connect(h, a, r) ==
  /\ sock[h] = "connecting"
  /\ addr' = [addr EXCEPT ![h] = a]
  /\ wire' = [wire EXCEPT ![h] = sockaddr_as_bytes(a)]
  /\ Reply(h, r, "stream")

(* A faulty bind() that keeps its handle from being dropped on an error. *)
BindForgets(h, r) ==
  /\ sock[h] = "binding"
  /\ Checked(r) # "ok" /\ Fault(Checked(r))
  /\ sock' = [sock EXCEPT ![h] = "gone"]
  /\ UNCHANGED <<up, open, wire, fd, addr, panicked, lost, refused>>

(* TcpSocket::bind: soc.bind(&fd, addr)?, soc.listen(&fd)? *)
Bind(h, r) ==
  /\ sock[h] = "binding"
  /\ Reply(h, r, "bound")
  /\ UNCHANGED <<wire, addr>>

Listen(h, r) ==
  /\ sock[h] = "bound"
  /\ Reply(h, r, "listening")
  /\ UNCHANGED <<wire, addr>>

(* accept() when the service has a connection. *)
Accept(l, h, a) ==
  /\ sock[l] = "listening"
  /\ NewSocket(h)
  /\ \E f \in Fds :
       /\ NewFd(f)
       /\ open' = open \cup {f}
       /\ fd' = [fd EXCEPT ![h] = f]
  /\ wire' = [wire EXCEPT ![h] = sockaddr_as_bytes(a)]
  /\ addr' = [addr EXCEPT ![h] = read_sockaddr(Filled(sockaddr_as_bytes(a)))]
  /\ sock' = [sock EXCEPT ![h] = "stream"]
  /\ UNCHANGED <<up, panicked, lost, refused, faults>>

(* accept() when the request fails, or the posix code is an error. *)
AcceptFails(l, h, r) ==
  /\ sock[l] = "listening"
  /\ NewSocket(h)
  /\ ~r.sent \/ (r.res = 0 /\ NetTry(r.posix) # "ok")
  /\ Fault("err")
  /\ sock' = [sock EXCEPT ![h] = "gone"]
  /\ panicked' = IF Checked(r) = "panic" THEN panicked \cup {h} ELSE panicked
  /\ UNCHANGED <<up, open, wire, fd, addr, lost, refused>>

(* accept() when the result code is an error: the posix code, which means  *)
(* nothing then, is not looked at and becomes a handle.  The address       *)
(* buffer is empty and user_addrlen - 2 below zero: in a build with        *)
(* overflow checks that panics and drops the handle, in another one the    *)
(* copy runs through memory and nothing can be said of what follows.       *)
AcceptRefused(l, h) ==
  /\ sock[l] = "listening"
  /\ NewSocket(h)
  /\ CopiedLen(EmptyBuffer) < 0
  /\ Fault("err")
  /\ \E f \in Fds \cup {BadFd} : fd' = [fd EXCEPT ![h] = f]
  /\ sock' = [sock EXCEPT ![h] = "dropping"]
  /\ panicked' = panicked \cup {h}
  /\ refused' = TRUE
  /\ UNCHANGED <<up, open, wire, addr, lost>>

(* SocketHandle::drop: close(self).  An error is ignored, but a posix code *)
(* that net_try does not know panics the thread that drops the handle.     *)
Close(h) ==
  /\ sock[h] = "dropping"
  /\ sock' = [sock EXCEPT ![h] = "gone"]
  /\ \E r \in Replies :
       /\ Fault(Checked(r))
       /\ IF Checked(r) = "ok"
          THEN open' = open \ {fd[h]} /\ UNCHANGED lost
          ELSE lost' = lost \cup {fd[h]} /\ UNCHANGED open
       /\ panicked' = IF Checked(r) = "panic" THEN panicked \cup {h}
                      ELSE panicked
  /\ UNCHANGED <<up, wire, fd, addr, refused>>

SocketStep(h) ==
  \/ ServiceMissing(h)
  \/ CreateSocket(h, "connecting") \/ CreateSocket(h, "binding")
  \/ Close(h)
  \/ \E r \in Replies :
       \/ \E a \in Addrs : Connect(h, a, r)
       \/ Bind(h, r) \/ Listen(h, r)
       \/ \E l \in Sockets : AcceptFails(l, h, r)
  \/ \E l \in Sockets :
       AcceptRefused(l, h) \/ \E a \in Addrs : Accept(l, h, a)
-----------------------------------------------------------------------------
SocketTypeOK ==
  /\ up \in BOOLEAN
  /\ open \subseteq Fds
  /\ wire \in [Sockets -> Seq(0..255)]
  /\ sock \in [Sockets -> Live \cup {"none", "gone"}]
  /\ fd \in [Sockets -> Fds \cup {BadFd}]
  /\ addr \in [Sockets -> Seq(0..255)]
  /\ panicked \subseteq Sockets
  /\ lost \subseteq Fds \cup {BadFd}
  /\ refused \in BOOLEAN
  /\ faults \in 0..MaxFaults

Holders(f) == {h \in Sockets : sock[h] \in Live /\ fd[h] = f}

(* Descriptors and handles match, on every error path of connect, bind and *)
(* accept: an open descriptor has exactly one handle, whose drop will      *)
(* close it, unless its close failed; and a descriptor that has a handle   *)
(* is open.  A refused accept() breaks this: it makes a handle from a      *)
(* number that may be another socket's.                                    *)
HandlesMatchFds ==
  ~refused =>
    \A f \in Fds :
      /\ f \in open => f \in lost \/ Holders(f) # {}
      /\ Holders(f) # {} => f \in open
      /\ \A g, h \in Holders(f) : g = h

(* The address that send_to() puts into its messages is the one the        *)
(* service knows the peer by: what accept() reads out of the reply, and    *)
(* what connect() was given, survive both conversions.                     *)
AddressIsThePeers ==
  \A h \in Sockets : sock[h] = "stream" => sockaddr_as_bytes(addr[h]) = wire[h]
=============================================================================
