--------------------------- MODULE AsyncTcpProofs ---------------------------
(***************************************************************************)
(* Proofs about SocketService and AsyncTcp, for any sockets, descriptors,  *)
(* addresses and tasks: handles and descriptors match, a peer's address    *)
(* survives its conversions, and a socket is closed after its worker and   *)
(* with its last owner.                                                    *)
(***************************************************************************)
EXTENDS AsyncTcp, TLAPS

(* Steps that no prover is named for are given a minute of SMT. *)
USE SMTT(60)

(* add()'s push keeps the type of a queue. *)
LEMMA PushBackFacts ==
  ASSUME NEW S, NEW v \in S, NEW x \in QueueOf(S)
  PROVE  PushBack(x, v) \in QueueOf(S)
  BY DEF QueueOf, PushBack

(* add()'s release keeps the items; there is a permit after it, even when  *)
(* the kernel refused it at the maximum.                                   *)
LEMMA ReleaseFacts ==
  ASSUME NEW S, NEW x \in QueueOf(S)
  PROVE  /\ ReleasePermit(x) \in QueueOf(S)
         /\ ReleasePermit(x).vals = x.vals
         /\ ReleasePermit(x).permits =
              IF Saturated(x) THEN x.permits ELSE x.permits + 1
         /\ Signalled(ReleasePermit(x))
  BY MaxPermitsAssumption DEF QueueOf, ReleasePermit, Saturated, Signalled

(* A wait() that returns has taken one permit. *)
LEMMA TakePermitFacts ==
  ASSUME NEW S, NEW x \in QueueOf(S), Signalled(x)
  PROVE  /\ TakePermit(x) \in QueueOf(S)
         /\ TakePermit(x).vals = x.vals
         /\ TakePermit(x).permits = x.permits - 1
  BY MaxPermitsAssumption DEF QueueOf, TakePermit, Signalled

(* What a concatenation holds. *)
LEMMA ConcatFacts ==
  ASSUME NEW S, NEW s \in Seq(S), NEW t \in Seq(S)
  PROVE  /\ s \o t \in Seq(S)
         /\ Len(s \o t) = Len(s) + Len(t)
         /\ \A i \in 1..Len(s) : (s \o t)[i] = s[i]
  OBVIOUS

(* Where a concatenation holds its second half. *)
LEMMA ConcatSecond ==
  ASSUME NEW S, NEW s \in Seq(S), NEW t \in Seq(S), NEW i \in 1..Len(t)
  PROVE  (s \o t)[Len(s) + i] = t[i]
  OBVIOUS

(* What read_sockaddr makes of the bytes that sockaddr_as_bytes wrote is   *)
(* the address they were made from.                                        *)
LEMMA AddressRoundTrip ==
  ASSUME NEW a \in Addrs
  PROVE  /\ a \in Seq(0..255)
         /\ sockaddr_as_bytes(a) \in Seq(0..255)
         /\ read_sockaddr(Filled(sockaddr_as_bytes(a))) = a
  <1> DEFINE p == <<8, AF_INET>>
             b == sockaddr_as_bytes(a)
             z == [i \in 1..(28 - Len(b)) |-> 0]
             c == Filled(b)
             d == [i \in 1..14 |-> IF i <= CopiedLen(c) THEN c[i + 2] ELSE 0]
  <1>1. a \in [1..6 -> 0..255] /\ a \in Seq(0..255) /\ Len(a) = 6
    <2>1. a \in [1..6 -> 0..255] /\ a = [i \in 1..6 |-> a[i]]
      BY ZenonT(60), SocketAssumption
    <2> QED
      BY <2>1
  <1>2. p \in Seq(0..255) /\ Len(p) = 2 /\ p[1] = 8 /\ p[2] = 2
    BY DEF AF_INET
  <1>3. b = p \o a
    BY ZenonT(60) DEF sockaddr_as_bytes
  <1> HIDE DEF p, b
  <1>4. /\ b \in Seq(0..255) /\ Len(b) = 8
        /\ b[1] = 8 /\ b[2] = 2
        /\ \A i \in 1..6 : b[2 + i] = a[i]
    <2>1. /\ p \o a \in Seq(0..255)
          /\ Len(p \o a) = Len(p) + Len(a)
          /\ \A i \in 1..Len(p) : (p \o a)[i] = p[i]
          /\ \A i \in 1..Len(a) : (p \o a)[Len(p) + i] = a[i]
      <3>1. p \in Seq(0..255) /\ a \in Seq(0..255)
        BY ZenonT(60), <1>1, <1>2
      <3>2. p \o a \in Seq(0..255) /\ Len(p \o a) = Len(p) + Len(a)
        BY <3>1, ConcatFacts, ZenonT(60)
      <3>3. \A i \in 1..Len(p) : (p \o a)[i] = p[i]
        BY <3>1, ConcatFacts, ZenonT(60)
      <3>4. \A i \in 1..Len(a) : (p \o a)[Len(p) + i] = a[i]
        BY <3>1, ConcatSecond, ZenonT(60)
      <3> QED
        BY <3>2, <3>3, <3>4, ZenonT(60)
    <2>2. /\ b \in Seq(0..255)
          /\ Len(b) = Len(p) + Len(a)
          /\ \A i \in 1..Len(p) : b[i] = p[i]
          /\ \A i \in 1..Len(a) : b[Len(p) + i] = a[i]
      BY <1>3, <2>1, ZenonT(60)
    <2> QED
      BY <1>1, <1>2, <2>2
  <1>5. z \in Seq(0..255) /\ c = b \o z
    BY <1>4 DEF Filled
  <1> HIDE DEF z, c
  <1>6. \A i \in 1..8 : c[i] = b[i]
    <2>1. b \in Seq(0..255) /\ z \in Seq(0..255)
      BY ZenonT(60), <1>4, <1>5
    <2>2. \A i \in 1..Len(b) : (b \o z)[i] = b[i]
      BY <2>1, ConcatFacts, ZenonT(60)
    <2> QED
      BY <1>4, <1>5, <2>2, ZenonT(60)
  <1>7. CopiedLen(c) = 14
    BY <1>4, <1>6 DEF CopiedLen, AF_INET
  <1>8. \A i \in 1..6 : d[i] = a[i]
    BY <1>4, <1>6, <1>7
  <1>9. SubSeq(d, 1, 6) = [i \in 1..6 |-> d[i]]
    OBVIOUS
  <1> QED
    BY ZenonT(60), <1>1, <1>4, <1>8, <1>9 DEF read_sockaddr, c, b
-----------------------------------------------------------------------------
(* The handles of SocketService.                                           *)

(* A socket that was never opened has no descriptor. *)
FreshHasNoFd == \A h \in Sockets : sock[h] = "none" => fd[h] = BadFd

(* A step that opens no descriptor and closes none, and makes no handle    *)
(* and drops none but of a socket that has no descriptor.                  *)
KeepsHandle(h, s) ==
  /\ UNCHANGED <<open, fd, lost, refused>>
  /\ sock' = [sock EXCEPT ![h] = s]
  /\ \/ fd[h] = BadFd /\ s \in Live \cup {"gone"}
     \/ sock[h] \in Live /\ s \in Live

(* A step that opens a descriptor together with its handle. *)
OpensHandle(h, f, s) ==
  /\ sock[h] = "none" /\ s \in Live
  /\ f \in Fds \ open
  /\ open' = open \cup {f}
  /\ fd' = [fd EXCEPT ![h] = f]
  /\ sock' = [sock EXCEPT ![h] = s]
  /\ UNCHANGED <<lost, refused>>

(* Both keep handles and descriptors matched. *)
LEMMA KeepsHandleMatch ==
  ASSUME SocketTypeOK, FreshHasNoFd, HandlesMatchFds,
         NEW h \in Sockets, NEW s, KeepsHandle(h, s)
  PROVE  FreshHasNoFd' /\ HandlesMatchFds'
  BY SocketAssumption
  DEF SocketTypeOK, FreshHasNoFd, HandlesMatchFds, Holders, KeepsHandle, Live

(* socket() and accept() open a descriptor for a handle that had none. *)
LEMMA OpensHandleMatch ==
  ASSUME SocketTypeOK, FreshHasNoFd, HandlesMatchFds,
         NEW h \in Sockets, NEW f, NEW s, OpensHandle(h, f, s)
  PROVE  FreshHasNoFd' /\ HandlesMatchFds'
  BY SocketAssumption
  DEF SocketTypeOK, FreshHasNoFd, HandlesMatchFds, Holders, OpensHandle, Live

(* SocketHandle::drop closes the one descriptor of its handle. *)
LEMMA CloseMatch ==
  ASSUME SocketTypeOK, FreshHasNoFd, HandlesMatchFds,
         NEW h \in Sockets, Close(h)
  PROVE  FreshHasNoFd' /\ HandlesMatchFds'
  <1>1. /\ sock[h] = "dropping"
        /\ sock' = [sock EXCEPT ![h] = "gone"]
        /\ UNCHANGED <<fd, refused>>
        /\ \/ open' = open \ {fd[h]} /\ UNCHANGED lost
           \/ UNCHANGED open /\ lost' = lost \cup {fd[h]}
    BY ZenonT(60) DEF Close
  <1>2. \A g \in Sockets : /\ sock'[g] = IF g = h THEN "gone" ELSE sock[g]
                           /\ sock[g] = "none" => g # h
    BY ZenonT(60), <1>1 DEF SocketTypeOK
  <1>3. FreshHasNoFd'
    BY <1>1, <1>2 DEF FreshHasNoFd
  <1>4. \A f \in Fds : Holders(f)' = Holders(f) \ {h}
    BY <1>1, <1>2 DEF Holders, Live
  <1>5. h \in Holders(fd[h])
    BY ZenonT(60), <1>1 DEF Holders, Live
  <1>6. ASSUME ~refused, NEW f \in Fds
        PROVE  /\ f \in open' => f \in lost' \/ Holders(f)' # {}
               /\ Holders(f)' # {} => f \in open'
               /\ \A g, k \in Holders(f)' : g = k
    <2>1. /\ f \in open => f \in lost \/ Holders(f) # {}
          /\ Holders(f) # {} => f \in open
          /\ \A g, k \in Holders(f) : g = k
      BY ZenonT(60), <1>6 DEF HandlesMatchFds
    <2>2. CASE f = fd[h]
      BY ZenonT(60), <1>1, <1>4, <1>5, <2>1, <2>2
    <2>3. CASE f # fd[h]
      <3>1. Holders(f)' = Holders(f)
        BY ZenonT(60), <1>4, <2>3 DEF Holders
      <3> QED
        BY ZenonT(60), <1>1, <2>1, <2>3, <3>1
    <2> QED
      BY ZenonT(60), <2>2, <2>3
  <1> QED
    BY ZenonT(60), <1>1, <1>3, <1>6 DEF HandlesMatchFds

(* The reply of a call moves the handle's socket on, or drops the handle. *)
LEMMA ReplyKeeps ==
  ASSUME SocketTypeOK, NEW h \in Sockets, NEW r, NEW s \in Live,
         Reply(h, r, s), sock[h] \in Live
  PROVE  KeepsHandle(h, IF Checked(r) = "ok" THEN s ELSE "dropping")
  BY ZenonT(60) DEF Reply, KeepsHandle, Live

(* Every step of a socket keeps handles and descriptors matched. *)
LEMMA SocketStepMatch ==
  ASSUME SocketTypeOK, FreshHasNoFd, HandlesMatchFds,
         NEW h \in Sockets, SocketStep(h)
  PROVE  FreshHasNoFd' /\ HandlesMatchFds'
  <1> DEFINE Goal == FreshHasNoFd' /\ HandlesMatchFds'
  <1>1. ASSUME NEW s \in {"connecting", "binding"}, CreateSocket(h, s)
        PROVE  Goal
    <2>1. CASE \E f \in Fds : OpensHandle(h, f, s)
      BY ZenonT(60), <2>1, OpensHandleMatch
    <2>2. CASE KeepsHandle(h, s) \/ KeepsHandle(h, "gone")
      BY ZenonT(60), <2>2, KeepsHandleMatch
    <2> QED
      BY ZenonT(60), <1>1, <2>1, <2>2
      DEF CreateSocket, NewSocket, NewFd, KeepsHandle,
                              OpensHandle, FreshHasNoFd, Live
  <1>2. ASSUME NEW r, NEW a, Connect(h, a, r)
        PROVE  Goal
    <2>1. Reply(h, r, "stream") /\ sock[h] \in Live /\ "stream" \in Live
      BY ZenonT(60), <1>2 DEF Connect, Live
    <2> QED
      BY ZenonT(60), <2>1, ReplyKeeps, KeepsHandleMatch
  <1>3. ASSUME NEW r, NEW s \in {"bound", "listening"},
               Reply(h, r, s), sock[h] \in {"binding", "bound"}
        PROVE  Goal
    BY ZenonT(60), <1>3, ReplyKeeps, KeepsHandleMatch DEF Live
  <1>4. ASSUME NEW r, NEW l, AcceptFails(l, h, r)
        PROVE  Goal
    <2>1. KeepsHandle(h, "gone")
      BY ZenonT(60), <1>4 DEF AcceptFails, NewSocket, KeepsHandle, FreshHasNoFd
    <2> QED
      BY ZenonT(60), <2>1, KeepsHandleMatch
  <1>5. ASSUME NEW l, NEW a, Accept(l, h, a)
        PROVE  Goal
    <2>1. \E f \in Fds : OpensHandle(h, f, "stream")
      <3>1. PICK f \in Fds : /\ NewFd(f)
                              /\ open' = open \cup {f}
                              /\ fd' = [fd EXCEPT ![h] = f]
        BY <1>5, ZenonT(60) DEF Accept
      <3>2. /\ NewSocket(h) /\ sock' = [sock EXCEPT ![h] = "stream"]
            /\ UNCHANGED <<lost, refused>>
        BY <1>5, ZenonT(60) DEF Accept
      <3>3. OpensHandle(h, f, "stream")
        BY ZenonT(60), <3>1, <3>2 DEF NewSocket, NewFd, OpensHandle, Live
      <3> QED
        BY ZenonT(60), <3>3
    <2> QED
      BY ZenonT(60), <2>1, OpensHandleMatch
  <1>6. ASSUME NEW l, AcceptRefused(l, h)
        PROVE  Goal
    BY ZenonT(60), <1>6
    DEF AcceptRefused, FreshHasNoFd, HandlesMatchFds, SocketTypeOK
  <1>7. ASSUME ServiceMissing(h)
        PROVE  Goal
    <2>1. KeepsHandle(h, "gone")
      BY ZenonT(60), <1>7
         DEF ServiceMissing, NewSocket, KeepsHandle, FreshHasNoFd
    <2> QED
      BY ZenonT(60), <2>1, KeepsHandleMatch
  <1> HIDE DEF Goal
  <1>8. ASSUME NEW r, Bind(h, r) \/ Listen(h, r)
        PROVE  Goal
    BY ZenonT(60), <1>3, <1>8 DEF Bind, Listen
  <1>9. Goal
    BY ZenonT(60), <1>1, <1>2, <1>4, <1>5, <1>6, <1>7, <1>8, CloseMatch
       DEF SocketStep, Goal
  <1> QED
    BY ZenonT(60), <1>9 DEF Goal

(* A reply that is counted as a fault stays below the bound. *)
LEMMA FaultTypes ==
  ASSUME NEW o, Fault(o), faults \in 0..MaxFaults
  PROVE  faults' \in 0..MaxFaults
  BY SocketAssumption DEF Fault

(* The reply of a call keeps the types. *)
LEMMA ReplyTypes ==
  ASSUME SocketTypeOK, NEW h \in Sockets, NEW r, NEW s \in Live,
         Reply(h, r, s),
         wire' \in [Sockets -> Seq(0..255)], addr' \in [Sockets -> Seq(0..255)]
  PROVE  SocketTypeOK'
  <1>1. faults' \in 0..MaxFaults
    BY ZenonT(60), FaultTypes DEF Reply, SocketTypeOK
  <1>2. sock' \in [Sockets -> Live \cup {"none", "gone"}]
    BY ZenonT(60) DEF Reply, SocketTypeOK, Live
  <1>3. panicked' \subseteq Sockets
    BY ZenonT(60) DEF Reply, SocketTypeOK
  <1> QED
    BY ZenonT(60), <1>1, <1>2, <1>3 DEF Reply, SocketTypeOK

(* Every step of a socket keeps the types of SocketService. *)
LEMMA SocketStepTypes ==
  ASSUME SocketTypeOK, NEW h \in Sockets, SocketStep(h)
  PROVE  SocketTypeOK'
  <1> DEFINE Goal == SocketTypeOK'
  <1>1. ASSUME NEW s \in {"connecting", "binding"}, CreateSocket(h, s)
        PROVE  Goal
    <2>1. faults' \in 0..MaxFaults
      BY ZenonT(60), <1>1, FaultTypes DEF CreateSocket, SocketTypeOK
    <2>2. sock' \in [Sockets -> Live \cup {"none", "gone"}]
      <3>1. \E u \in Live \cup {"gone"} : sock' = [sock EXCEPT ![h] = u]
        BY <1>1, ZenonT(60) DEF CreateSocket, Live
      <3>2. sock \in [Sockets -> Live \cup {"none", "gone"}]
        BY ZenonT(60) DEF SocketTypeOK
      <3> QED
        BY ZenonT(60), <3>1, <3>2
    <2>3. open' \subseteq Fds /\ fd' \in [Sockets -> Fds \cup {BadFd}]
      <3>1. \/ UNCHANGED <<open, fd>>
            \/ \E f \in Fds : /\ open' = open \cup {f}
                              /\ fd' = [fd EXCEPT ![h] = f]
        BY <1>1, ZenonT(60) DEF CreateSocket
      <3>2. open \subseteq Fds /\ fd \in [Sockets -> Fds \cup {BadFd}]
        BY ZenonT(60) DEF SocketTypeOK
      <3> QED
        BY ZenonT(60), <3>1, <3>2
    <2>4. UNCHANGED <<up, wire, addr, panicked, lost, refused>>
      BY ZenonT(60), <1>1 DEF CreateSocket
    <2> QED
      BY ZenonT(60), <2>1, <2>2, <2>3, <2>4 DEF SocketTypeOK
  <1>2. ASSUME NEW r, NEW a \in Addrs, Connect(h, a, r)
        PROVE  Goal
    <2>1. /\ wire' \in [Sockets -> Seq(0..255)]
          /\ addr' \in [Sockets -> Seq(0..255)]
      <3>1. /\ addr' = [addr EXCEPT ![h] = a]
            /\ wire' = [wire EXCEPT ![h] = sockaddr_as_bytes(a)]
        BY ZenonT(60), <1>2 DEF Connect
      <3> QED
        BY ZenonT(60), <3>1, AddressRoundTrip DEF SocketTypeOK
    <2>2. Reply(h, r, "stream") /\ "stream" \in Live
      BY ZenonT(60), <1>2 DEF Connect, Live
    <2> QED
      BY ZenonT(60), <2>1, <2>2, ReplyTypes
  <1>3. ASSUME NEW r, Bind(h, r) \/ Listen(h, r)
        PROVE  Goal
    <2>1. /\ wire' \in [Sockets -> Seq(0..255)]
          /\ addr' \in [Sockets -> Seq(0..255)]
      BY ZenonT(60), <1>3 DEF Bind, Listen, SocketTypeOK
    <2>2. \E s \in Live : Reply(h, r, s)
      BY ZenonT(60), <1>3 DEF Bind, Listen, Live
    <2> QED
      BY ZenonT(60), <2>1, <2>2, ReplyTypes
  <1>4. ASSUME NEW r, NEW l, AcceptFails(l, h, r)
        PROVE  Goal
    <2>1. faults' \in 0..MaxFaults
      BY ZenonT(60), <1>4, FaultTypes DEF AcceptFails, SocketTypeOK
    <2> QED
      BY ZenonT(60), <1>4, <2>1 DEF AcceptFails, SocketTypeOK
  <1>5. ASSUME NEW l, NEW a \in Addrs, Accept(l, h, a)
        PROVE  Goal
    <2> DEFINE b == sockaddr_as_bytes(a)
               c == read_sockaddr(Filled(b))
    <2>1. b \in Seq(0..255) /\ c \in Seq(0..255)
      BY AddressRoundTrip, ZenonT(60)
    <2>2. /\ wire' = [wire EXCEPT ![h] = b]
          /\ addr' = [addr EXCEPT ![h] = c]
          /\ sock' = [sock EXCEPT ![h] = "stream"]
          /\ \E f \in Fds : /\ open' = open \cup {f}
                            /\ fd' = [fd EXCEPT ![h] = f]
          /\ UNCHANGED <<up, panicked, lost, refused, faults>>
      BY <1>5, ZenonT(60) DEF Accept
    <2> HIDE DEF b, c
    <2> QED
      BY <2>1, <2>2 DEF SocketTypeOK, Live
  <1>6. ASSUME NEW l, AcceptRefused(l, h)
        PROVE  Goal
    <2>1. faults' \in 0..MaxFaults
      BY ZenonT(60), <1>6, FaultTypes DEF AcceptRefused, SocketTypeOK
    <2> QED
      BY ZenonT(60), <1>6, <2>1 DEF AcceptRefused, SocketTypeOK, Live
  <1>7. ASSUME Close(h)
        PROVE  Goal
    <2>1. faults' \in 0..MaxFaults
      BY ZenonT(60), <1>7, FaultTypes DEF Close, SocketTypeOK
    <2>2. open' \subseteq Fds /\ lost' \subseteq Fds \cup {BadFd}
      <3>1. \/ open' = open \ {fd[h]} /\ UNCHANGED lost
            \/ UNCHANGED open /\ lost' = lost \cup {fd[h]}
        BY ZenonT(60), <1>7 DEF Close
      <3>2. /\ open \subseteq Fds /\ lost \subseteq Fds \cup {BadFd}
            /\ fd[h] \in Fds \cup {BadFd}
        BY ZenonT(60) DEF SocketTypeOK
      <3> QED
        BY ZenonT(60), <3>1, <3>2
    <2>3. panicked' \subseteq Sockets
      BY ZenonT(60), <1>7 DEF Close, SocketTypeOK
    <2> QED
      BY ZenonT(60), <1>7, <2>1, <2>2, <2>3 DEF Close, SocketTypeOK
  <1>8. ASSUME ServiceMissing(h)
        PROVE  Goal
    BY ZenonT(60), <1>8 DEF ServiceMissing, SocketTypeOK
  <1> HIDE DEF Goal
  <1>9. Goal
    BY ZenonT(60), <1>1, <1>2, <1>3, <1>4, <1>5, <1>6, <1>7, <1>8
       DEF SocketStep
  <1> QED
    BY ZenonT(60), <1>9 DEF Goal

(* What a step of SocketService does to where its socket is and to the     *)
(* peer's address: it leaves a stream alone, moves a dropped socket no     *)
(* further than "gone", and a stream it makes has the address of its peer. *)
NamesPeer(h, a) ==
  /\ wire' = [wire EXCEPT ![h] = sockaddr_as_bytes(a)]
  /\ addr' = [addr EXCEPT ![h] = a]

(* The handle is made of descriptor f. *)
SetsFd(h, f) == fd' = [fd EXCEPT ![h] = f]

(* Socket h goes to s; only a step that makes it a stream names a peer. *)
MovesTo(h, s) ==
  /\ sock' = [sock EXCEPT ![h] = s]
  /\ sock[h] # "stream"
  /\ sock[h] \in {"dropping", "gone"} => s = "gone"
  /\ UNCHANGED fd \/ \E f \in Fds \cup {BadFd} : SetsFd(h, f)
  /\ \/ s # "stream" /\ UNCHANGED <<wire, addr>>
     \/ \E a \in Addrs : NamesPeer(h, a)

(* Every step of opening or closing a socket moves that one socket. *)
LEMMA SocketStepMoves ==
  ASSUME NEW h \in Sockets, SocketStep(h)
  PROVE  \E s \in Live \cup {"gone"} : MovesTo(h, s)
  <1> DEFINE Goal == \E s \in Live \cup {"gone"} : MovesTo(h, s)
  <1>1. ASSUME NEW s \in {"connecting", "binding"}, CreateSocket(h, s)
        PROVE  Goal
    <2>1. MovesTo(h, s) \/ MovesTo(h, "gone")
      BY ZenonT(60), <1>1 DEF CreateSocket, NewSocket, MovesTo, SetsFd
    <2> QED
      BY ZenonT(60), <2>1 DEF Live
  <1>2. ASSUME NEW r, NEW a \in Addrs, Connect(h, a, r)
        PROVE  Goal
    <2>1. MovesTo(h, IF Checked(r) = "ok" THEN "stream" ELSE "dropping")
      <3>1. NamesPeer(h, a) /\ UNCHANGED fd /\ sock[h] = "connecting"
        BY ZenonT(60), <1>2 DEF Connect, Reply, NamesPeer
      <3>2. sock' = [sock EXCEPT ![h] =
                       IF Checked(r) = "ok" THEN "stream" ELSE "dropping"]
        BY ZenonT(60), <1>2 DEF Connect, Reply
      <3> QED
        BY ZenonT(60), <3>1, <3>2 DEF MovesTo
    <2> QED
      BY ZenonT(60), <2>1 DEF Live
  <1>3. ASSUME NEW r, Bind(h, r) \/ Listen(h, r)
        PROVE  Goal
    <2>1. \E s \in {"bound", "listening"} :
            MovesTo(h, IF Checked(r) = "ok" THEN s ELSE "dropping")
      BY ZenonT(60), <1>3 DEF Bind, Listen, Reply, MovesTo
    <2> QED
      BY ZenonT(60), <2>1 DEF Live
  <1>4. ASSUME NEW r, NEW l, AcceptFails(l, h, r)
        PROVE  Goal
    <2>1. MovesTo(h, "gone")
      BY ZenonT(60), <1>4 DEF AcceptFails, NewSocket, MovesTo
    <2> QED
      BY ZenonT(60), <2>1
  <1>5. ASSUME NEW l, NEW a \in Addrs, Accept(l, h, a)
        PROVE  Goal
    <2> DEFINE c == read_sockaddr(Filled(sockaddr_as_bytes(a)))
    <2>1. c = a
      BY AddressRoundTrip, ZenonT(60)
    <2>2. /\ wire' = [wire EXCEPT ![h] = sockaddr_as_bytes(a)]
          /\ addr' = [addr EXCEPT ![h] = c]
          /\ sock' = [sock EXCEPT ![h] = "stream"]
          /\ \E f \in Fds : SetsFd(h, f)
          /\ sock[h] = "none"
      BY <1>5, ZenonT(60) DEF Accept, NewSocket, SetsFd
    <2> HIDE DEF c
    <2>3. NamesPeer(h, a)
      BY ZenonT(60), <2>1, <2>2 DEF NamesPeer
    <2>4. MovesTo(h, "stream")
      BY ZenonT(60), <2>2, <2>3 DEF MovesTo
    <2> QED
      BY ZenonT(60), <2>4 DEF Live
  <1>6. ASSUME NEW l, AcceptRefused(l, h)
        PROVE  Goal
    <2>1. MovesTo(h, "dropping")
      <3>1. /\ \E f \in Fds \cup {BadFd} : SetsFd(h, f)
            /\ sock[h] = "none"
            /\ sock' = [sock EXCEPT ![h] = "dropping"]
            /\ UNCHANGED <<wire, addr>>
        BY <1>6, ZenonT(60) DEF AcceptRefused, NewSocket, SetsFd
      <3> QED
        BY ZenonT(60), <3>1 DEF MovesTo
    <2> QED
      BY ZenonT(60), <2>1 DEF Live
  <1>7. ASSUME Close(h)
        PROVE  Goal
    <2>1. MovesTo(h, "gone")
      BY ZenonT(60), <1>7 DEF Close, MovesTo
    <2> QED
      BY <2>1
  <1>8. ASSUME ServiceMissing(h)
        PROVE  Goal
    <2>1. MovesTo(h, "gone")
      BY ZenonT(60), <1>8 DEF ServiceMissing, NewSocket, MovesTo
    <2> QED
      BY ZenonT(60), <2>1
  <1> HIDE DEF Goal
  <1>9. Goal
    BY ZenonT(60), <1>1, <1>2, <1>3, <1>4, <1>5, <1>6, <1>7, <1>8
       DEF SocketStep
  <1> QED
    BY ZenonT(60), <1>9 DEF Goal

(* Such a step leaves streams alone, brings no dropped socket back, and    *)
(* keeps every stream's address that of its peer.                          *)
LEMMA MovesToFacts ==
  ASSUME SocketTypeOK, NEW h \in Sockets, NEW s, MovesTo(h, s)
  PROVE  /\ AddressIsThePeers => AddressIsThePeers'
         /\ \A g \in Sockets :
              sock[g] = "stream" => sock'[g] = "stream" /\ fd'[g] = fd[g]
         /\ \A g \in Sockets :
              sock[g] \in {"dropping", "gone"}
                => sock'[g] \in {"dropping", "gone"}
  <1>1. \A g \in Sockets : sock'[g] = IF g = h THEN s ELSE sock[g]
    BY ZenonT(60) DEF SocketTypeOK, MovesTo, SetsFd, NamesPeer
  <1>2. \A g \in Sockets : g # h => fd'[g] = fd[g]
    BY ZenonT(60) DEF SocketTypeOK, MovesTo, SetsFd, NamesPeer
  <1>3. ASSUME AddressIsThePeers, NEW g \in Sockets, sock'[g] = "stream"
        PROVE  sockaddr_as_bytes(addr[g])' = wire'[g]
    <2>1. CASE g = h
      BY <1>1, <1>3, <2>1 DEF SocketTypeOK, MovesTo, SetsFd, NamesPeer
    <2>2. CASE g # h
      <3>1. sockaddr_as_bytes(addr[g]) = wire[g]
        BY ZenonT(60), <1>1, <1>3, <2>2 DEF AddressIsThePeers
      <3>2. wire'[g] = wire[g] /\ addr'[g] = addr[g]
        BY ZenonT(60), <2>2 DEF SocketTypeOK, MovesTo, SetsFd, NamesPeer
      <3> QED
        BY ZenonT(60), <3>1, <3>2
    <2> QED
      BY ZenonT(60), <2>1, <2>2
  <1> QED
    BY ZenonT(60), <1>1, <1>2, <1>3 DEF MovesTo, AddressIsThePeers
-----------------------------------------------------------------------------
(* The steps of AsyncTcp by what they touch.                               *)

(* What a step does not touch: the sockets, or everything but them. *)
SocketQuiet == UNCHANGED <<open, wire, sock, fd, addr, lost, refused>>
WorkQuiet == UNCHANGED <<interests_queue, worker, held, task, wakes>>

(* A socket is opened, closed, or dropped before it was wrapped. *)
SocketSide(h) == SocketStep(h) \/ RunPanics(h) \/ DropTcp(h)

(* The executor's thread goes on with one of the tasks. *)
TaskSide(t) ==
  \/ PollStep(t) \/ Cancel(t)
  \/ \E r \in Replies : PollFails(t, r)
  \/ \E h \in Sockets, k \in Interests : Start(t, h, k)

(* The cases of Next. *)
LEMMA StepCases ==
  ASSUME [Next]_vars
  PROVE  \/ SocketQuiet /\ WorkQuiet
         \/ WorkQuiet /\ \E h \in Sockets : SocketSide(h)
         \/ \E h \in Sockets, r \in Replies : Wrap(h, r)
         \/ \E h \in Sockets : DropAsync(h) \/ WorkerDies(h)
         \/ SocketQuiet /\ UNCHANGED held /\ \E h \in Sockets : WorkerStep(h)
         \/ /\ SocketQuiet /\ UNCHANGED <<worker, held>>
            /\ \E t \in Tasks : TaskSide(t)
  <1> DEFINE Goal ==
         \/ SocketQuiet /\ WorkQuiet
         \/ WorkQuiet /\ \E h \in Sockets : SocketSide(h)
         \/ \E h \in Sockets, r \in Replies : Wrap(h, r)
         \/ \E h \in Sockets : DropAsync(h) \/ WorkerDies(h)
         \/ SocketQuiet /\ UNCHANGED held /\ \E h \in Sockets : WorkerStep(h)
         \/ /\ SocketQuiet /\ UNCHANGED <<worker, held>>
            /\ \E t \in Tasks : TaskSide(t)
  <1>1. ASSUME UNCHANGED vars PROVE Goal
    BY ZenonT(60), <1>1
    DEF vars, socketVars, workVars, taskVars, SocketQuiet, WorkQuiet
  <1>2. ASSUME InitService, UNCHANGED <<workVars, taskVars>> PROVE Goal
    BY ZenonT(60), <1>2
    DEF InitService, workVars, taskVars, SocketQuiet, WorkQuiet
  <1>3. ASSUME NEW h \in Sockets, SocketStep(h),
               UNCHANGED <<workVars, taskVars>>
        PROVE  Goal
    BY ZenonT(60), <1>3 DEF workVars, taskVars, SocketSide, WorkQuiet
  <1>4. ASSUME NEW h \in Sockets, AwaitPanics(h) \/ Arrive(h) \/ MakeSpace(h)
        PROVE  Goal
    <2>1. SocketQuiet /\ WorkQuiet
      BY <1>4, ZenonT(60) DEF AwaitPanics, Arrive, MakeSpace, socketVars,
                              workVars, taskVars, SocketQuiet, WorkQuiet
    <2> QED
      BY ZenonT(60), <2>1
  <1>5. ASSUME NEW h \in Sockets, RunPanics(h) \/ DropTcp(h)
        PROVE  Goal
    BY ZenonT(60), <1>5
    DEF RunPanics, DropTcp, workVars, taskVars, SocketSide, WorkQuiet
  <1>6. ASSUME NEW h \in Sockets, WorkerStep(h) PROVE Goal
    <2>1. SocketQuiet /\ UNCHANGED held
      BY ZenonT(60), <1>6
      DEF WorkerStep, WorkerWait, WorkerDrain, WorkerPolled,
                  WorkerTimeout, WorkerWakes, WorkerLoops, socketVars,
                  SocketQuiet
    <2> QED
      BY ZenonT(60), <1>6, <2>1
  <1>7. ASSUME NEW t \in Tasks, TaskSide(t) PROVE Goal
    <2>1. SocketQuiet /\ UNCHANGED <<worker, held>>
      BY ZenonT(60), <1>7 DEF TaskSide, PollStep, Woken, PollReady, PollAgain,
                  PollPending, Cancel, PollFails, Start, socketVars, workVars,
                  SocketQuiet
    <2> QED
      BY ZenonT(60), <1>7, <2>1
  <1>8. ASSUME NEW h \in Sockets, DropAsync(h) \/ WorkerDies(h) PROVE Goal
    BY ZenonT(60), <1>8
  <1>9. ASSUME NEW h \in Sockets, NEW r \in Replies, Wrap(h, r) PROVE Goal
    BY ZenonT(60), <1>9
  <1>10. ASSUME NEW h \in Sockets, NEW t \in Tasks, NEW k \in Interests,
                Start(t, h, k)
         PROVE  Goal
    BY ZenonT(60), <1>7, <1>10 DEF TaskSide
  <1> HIDE DEF Goal
  <1>11. ASSUME NEW t \in Tasks,
                \/ PollStep(t) \/ Cancel(t)
                \/ \E r \in Replies : PollFails(t, r)
         PROVE  Goal
    BY ZenonT(60), <1>7, <1>11 DEF TaskSide
  <1>12. Goal
    BY ZenonT(60), <1>1, <1>2, <1>3, <1>4, <1>5, <1>6, <1>8, <1>9, <1>10, <1>11
    DEF Next
  <1> QED
    BY ZenonT(60), <1>12 DEF Goal
-----------------------------------------------------------------------------
(* Types.                                                                  *)

(* The last owner's drop keeps the types. *)
LEMMA DropHandleTypes ==
  ASSUME SocketTypeOK, NEW h \in Sockets, DropHandle(h),
         faults' \in 0..MaxFaults
  PROVE  SocketTypeOK'
  BY ZenonT(60) DEF SocketTypeOK, DropHandle, Live

(* Every step keeps the types of the sockets. *)
LEMMA SocketTypes ==
  ASSUME SocketTypeOK, [Next]_vars
  PROVE  SocketTypeOK'
  <1>1. ASSUME UNCHANGED socketVars PROVE SocketTypeOK'
    BY ZenonT(60), <1>1 DEF socketVars, SocketTypeOK
  <1>2. ASSUME InitService PROVE SocketTypeOK'
    BY ZenonT(60), <1>2 DEF InitService, SocketTypeOK
  <1>3. ASSUME NEW h \in Sockets, NEW r \in Replies, Wrap(h, r)
        PROVE  SocketTypeOK'
    <2>1. /\ Reply(h, r, "stream") /\ "stream" \in Live
          /\ UNCHANGED <<wire, addr>>
      BY ZenonT(60), <1>3 DEF Wrap, SetNonblock, Live
    <2>2. /\ wire' \in [Sockets -> Seq(0..255)]
          /\ addr' \in [Sockets -> Seq(0..255)]
      BY ZenonT(60), <2>1 DEF SocketTypeOK
    <2> QED
      BY ZenonT(60), <2>1, <2>2, ReplyTypes
  <1>4. ASSUME NEW h \in Sockets,
               RunPanics(h) \/ DropTcp(h) \/ DropAsync(h) \/ WorkerDies(h)
        PROVE  SocketTypeOK'
    <2>1. faults' \in 0..MaxFaults
      BY ZenonT(60), <1>4, FaultTypes
      DEF RunPanics, DropTcp, DropAsync, WorkerDies,
                              socketVars, SocketTypeOK
    <2>2. \/ DropHandle(h)
          \/ UNCHANGED <<up, open, wire, sock, fd, addr, panicked, lost,
                         refused>>
      BY ZenonT(60), <1>4
      DEF RunPanics, DropTcp, DropAsync, WorkerDies, socketVars
    <2>3. CASE DropHandle(h)
      BY ZenonT(60), <2>1, <2>3, DropHandleTypes
    <2>4. CASE UNCHANGED <<up, open, wire, sock, fd, addr, panicked, lost,
                           refused>>
      BY ZenonT(60), <2>1, <2>4 DEF SocketTypeOK
    <2> QED
      BY ZenonT(60), <2>2, <2>3, <2>4
  <1>5. ASSUME NEW h \in Sockets,
               \/ AwaitPanics(h) \/ Arrive(h) \/ MakeSpace(h)
               \/ WorkerStep(h)
               \/ \E t \in Tasks, k \in Interests : Start(t, h, k)
        PROVE  SocketTypeOK'
    BY ZenonT(60), <1>1, <1>5
    DEF AwaitPanics, Arrive, MakeSpace, WorkerStep, WorkerWait,
                      WorkerDrain, WorkerPolled, WorkerTimeout, WorkerWakes,
                      WorkerLoops, Start
  <1>6. ASSUME NEW t \in Tasks, PollStep(t) \/ Cancel(t)
        PROVE  SocketTypeOK'
    BY ZenonT(60), <1>1, <1>6
    DEF PollStep, Woken, PollReady, PollAgain, PollPending,
                      Cancel
  <1>7. ASSUME NEW t \in Tasks, NEW r \in Replies, PollFails(t, r)
        PROVE  SocketTypeOK'
    <2>1. faults' \in 0..MaxFaults
      BY ZenonT(60), <1>7, FaultTypes DEF PollFails, SocketTypeOK
    <2> QED
      BY ZenonT(60), <1>7, <2>1 DEF PollFails, SocketTypeOK
  <1>8. ASSUME UNCHANGED vars PROVE SocketTypeOK'
    BY ZenonT(60), <1>1, <1>8 DEF vars
  <1> QED
    BY ZenonT(60), <1>2, <1>3, <1>4, <1>5, <1>6, <1>7, <1>8, SocketStepTypes
    DEF Next

(* The types of the queue's items, a worker, a future, and of the state    *)
(* of the workers and of the tasks: the conjuncts of TypeOK.               *)
ItemType == [task : Tasks, interest : Interests]

WorkerAt == {"none", "loop", "drain", "draining", "polling", "waking", "dead"}

WorkerType ==
  [at : WorkerAt,
   reads : Seq(Tasks), writes : Seq(Tasks), out : SUBSET {"POLLIN", "POLLOUT"}]

FutureType ==
  [at : {"polling", "adding", "pending"}, h : Sockets, k : Interests]

WorkTypes ==
  /\ interests_queue \in [Sockets -> QueueOf(ItemType)]
  /\ worker \in [Sockets -> WorkerType]
  /\ held \subseteq Sockets
  /\ rx \in [Sockets -> 0..MaxRx]
  /\ space \subseteq Sockets

TaskTypes ==
  /\ task \in [Tasks -> [at : {"idle"}] \cup FutureType]
  /\ exec \in {"running", "dead"}
  /\ wakes \in [Tasks -> Nat]
  /\ ops \in 0..MaxOps

(* TypeOK in its three parts. *)
LEMMA TypeParts == TypeOK <=> SocketTypeOK /\ WorkTypes /\ TaskTypes
  BY ZenonT(60)
  DEF TypeOK, WorkTypes, TaskTypes, ItemType, WorkerType, WorkerAt,
         FutureType

(* A task that is not idle is at a future of a socket. *)
LEMMA FutureOf ==
  ASSUME TaskTypes, NEW t \in Tasks, task[t].at # "idle"
  PROVE  task[t] \in FutureType
  BY ZenonT(60) DEF TaskTypes, FutureType

(* A worker that goes on with a sequence of tasks. *)
LEMMA TailFacts ==
  ASSUME NEW S, NEW s \in Seq(S), s # <<>>
  PROVE  Head(s) \in S /\ Tail(s) \in Seq(S)
  OBVIOUS

(* A step of a task, its poll included, keeps the types. *)
LEMMA TaskSideTypes ==
  ASSUME WorkTypes, TaskTypes, NEW t \in Tasks, TaskSide(t)
  PROVE  WorkTypes' /\ TaskTypes'
  <1> DEFINE Goal == WorkTypes' /\ TaskTypes'
  <1>1. ASSUME Woken(t) PROVE Goal
    <2>1. task' \in [Tasks -> [at : {"idle"}] \cup FutureType]
      BY ZenonT(60), <1>1, FutureOf DEF Woken, TaskTypes, FutureType
    <2>2. wakes' \in [Tasks -> Nat]
      BY <1>1 DEF Woken, TaskTypes
    <2>3. UNCHANGED <<workVars, exec, ops>>
      BY <1>1, ZenonT(60) DEF Woken
    <2> QED
      BY ZenonT(60), <2>1, <2>2, <2>3 DEF WorkTypes, TaskTypes, workVars
  <1>2. ASSUME PollReady(t) PROVE Goal
    <2>1. task[t] \in FutureType
      BY ZenonT(60), <1>2, FutureOf DEF PollReady
    <2>2. task[t].k = "Read" => rx[task[t].h] > 0
      BY <1>2 DEF PollReady, Call, Checked, NetTry, Posix, Ready, EAGAIN,
                  ERROR_MAP_LEN
    <2>3. rx' \in [Sockets -> 0..MaxRx]
      BY <1>2, <2>1, <2>2, AsyncTcpAssumption
      DEF PollReady, WorkTypes, FutureType
    <2>4. space' \subseteq Sockets
      BY ZenonT(60), <1>2 DEF PollReady, WorkTypes
    <2>5. task' \in [Tasks -> [at : {"idle"}] \cup FutureType]
      BY ZenonT(60), <1>2 DEF PollReady, TaskTypes
    <2> QED
      BY ZenonT(60), <1>2, <2>3, <2>4, <2>5 DEF PollReady, WorkTypes, TaskTypes
  <1>3. ASSUME PollAgain(t) PROVE Goal
    <2>1. task[t] \in FutureType
      BY ZenonT(60), <1>3, FutureOf DEF PollAgain
    <2>2. [task |-> t, interest |-> task[t].k] \in ItemType
      BY ZenonT(60), <2>1 DEF FutureType, ItemType
    <2>3. interests_queue' \in [Sockets -> QueueOf(ItemType)]
      <3>1. interests_queue' =
              [interests_queue EXCEPT
                 ![task[t].h] =
                   PushBack(@, [task |-> t, interest |-> task[t].k])]
        BY ZenonT(60), <1>3 DEF PollAgain
      <3> QED
        BY ZenonT(60), <2>1, <2>2, <3>1, PushBackFacts
        DEF WorkTypes, FutureType
    <2>4. task' \in [Tasks -> [at : {"idle"}] \cup FutureType]
      BY ZenonT(60), <1>3, <2>1 DEF PollAgain, TaskTypes, FutureType
    <2> QED
      BY ZenonT(60), <1>3, <2>3, <2>4 DEF PollAgain, WorkTypes, TaskTypes
  <1>4. ASSUME PollPending(t) PROVE Goal
    <2>1. task[t] \in FutureType
      BY ZenonT(60), <1>4, FutureOf DEF PollPending
    <2>2. interests_queue' \in [Sockets -> QueueOf(ItemType)]
      BY ZenonT(60), <1>4, <2>1, ReleaseFacts
      DEF PollPending, WorkTypes, FutureType
    <2>3. task' \in [Tasks -> [at : {"idle"}] \cup FutureType]
      BY ZenonT(60), <1>4, <2>1 DEF PollPending, TaskTypes, FutureType
    <2> QED
      BY ZenonT(60), <1>4, <2>2, <2>3 DEF PollPending, WorkTypes, TaskTypes
  <1>5. ASSUME Cancel(t) PROVE Goal
    BY ZenonT(60), <1>5 DEF Cancel, WorkTypes, TaskTypes, workVars
  <1>6. ASSUME NEW r \in Replies, PollFails(t, r) PROVE Goal
    BY ZenonT(60), <1>6 DEF PollFails, WorkTypes, TaskTypes, workVars
  <1>7. ASSUME NEW h \in Sockets, NEW k \in Interests, Start(t, h, k)
        PROVE  Goal
    <2>1. task' \in [Tasks -> [at : {"idle"}] \cup FutureType]
      BY ZenonT(60), <1>7 DEF Start, TaskTypes, FutureType
    <2>2. ops' \in 0..MaxOps
      BY <1>7, AsyncTcpAssumption DEF Start, TaskTypes
    <2> QED
      BY ZenonT(60), <1>7, <2>1, <2>2 DEF Start, WorkTypes, TaskTypes, workVars
  <1> HIDE DEF Goal
  <1>8. Goal
    BY ZenonT(60), <1>1, <1>2, <1>3, <1>4, <1>5, <1>6, <1>7
    DEF TaskSide, PollStep
  <1> QED
    BY ZenonT(60), <1>8 DEF Goal

(* A worker with another place in its loop, other flags or other lists has *)
(* the worker's type.                                                      *)
LEMMA SetWorker ==
  ASSUME WorkTypes, NEW h \in Sockets, NEW w \in WorkerType,
         worker' = [worker EXCEPT ![h] = w]
  PROVE  worker' \in [Sockets -> WorkerType]
  BY ZenonT(60) DEF WorkTypes

(* The fields of a worker. *)
LEMMA WorkerFields ==
  ASSUME WorkTypes, NEW h \in Sockets
  PROVE  /\ worker[h] \in [at : WorkerAt, reads : Seq(Tasks),
                           writes : Seq(Tasks),
                           out : SUBSET {"POLLIN", "POLLOUT"}]
         /\ worker[h].reads \in Seq(Tasks)
         /\ worker[h].writes \in Seq(Tasks)
  BY ZenonT(60) DEF WorkTypes, WorkerType

(* A worker that moves, polls, or takes from its lists stays a worker. *)
LEMMA SetAt ==
  ASSUME WorkTypes, NEW h \in Sockets, NEW a \in WorkerAt,
         worker' = [worker EXCEPT ![h] = [@ EXCEPT !.at = a]]
  PROVE  worker' \in [Sockets -> WorkerType]
  <1>1. [worker[h] EXCEPT !.at = a] \in WorkerType
    BY WorkerFields, ZenonT(60) DEF WorkerType
  <1> QED
    BY <1>1, SetWorker, ZenonT(60)

LEMMA SetOut ==
  ASSUME WorkTypes, NEW h \in Sockets, NEW a \in WorkerAt,
         NEW o \in SUBSET {"POLLIN", "POLLOUT"},
         worker' = [worker EXCEPT ![h] = [@ EXCEPT !.at = a, !.out = o]]
  PROVE  worker' \in [Sockets -> WorkerType]
  <1>1. [worker[h] EXCEPT !.at = a, !.out = o] \in WorkerType
    BY WorkerFields, ZenonT(60) DEF WorkerType
  <1> QED
    BY <1>1, SetWorker, ZenonT(60)

(* The match on an item's interest puts its task at the end of one list. *)
LEMMA RegisterFacts ==
  ASSUME WorkTypes, NEW h \in Sockets, NEW item \in ItemType
  PROVE  /\ Register(worker[h], item) \in WorkerType
         /\ Register(worker[h], item).at = "draining"
         /\ Register(worker[h], item).reads =
              IF item.interest = "Read"
              THEN Append(worker[h].reads, item.task) ELSE worker[h].reads
         /\ Register(worker[h], item).writes =
              IF item.interest = "Write"
              THEN Append(worker[h].writes, item.task) ELSE worker[h].writes
  <1> DEFINE rs == IF item.interest = "Read"
                   THEN Append(worker[h].reads, item.task) ELSE worker[h].reads
             ws == IF item.interest = "Write"
                   THEN Append(worker[h].writes, item.task)
                   ELSE worker[h].writes
  <1>1. rs \in Seq(Tasks) /\ ws \in Seq(Tasks)
    BY WorkerFields DEF ItemType
  <1>2. Register(worker[h], item) =
          [worker[h] EXCEPT !.at = "draining", !.reads = rs, !.writes = ws]
    BY ZenonT(60) DEF Register
  <1> HIDE DEF rs, ws
  <1>3. [worker[h] EXCEPT !.at = "draining", !.reads = rs, !.writes = ws]
          \in WorkerType
    BY <1>1, WorkerFields, ZenonT(60) DEF WorkerType, WorkerAt
  <1>4. Register(worker[h], item).at = "draining"
    BY <1>2, WorkerFields, ZenonT(60)
  <1>5. /\ Register(worker[h], item).reads = rs
        /\ Register(worker[h], item).writes = ws
    BY <1>2, WorkerFields, ZenonT(60)
  <1> QED
    BY <1>2, <1>3, <1>4, <1>5, ZenonT(60) DEF rs, ws

LEMMA SetReads ==
  ASSUME WorkTypes, NEW h \in Sockets, NEW s \in Seq(Tasks),
         worker' = [worker EXCEPT ![h] = [@ EXCEPT !.reads = s]]
  PROVE  worker' \in [Sockets -> WorkerType]
  <1>1. [worker[h] EXCEPT !.reads = s] \in WorkerType
    BY WorkerFields, ZenonT(60) DEF WorkerType
  <1> QED
    BY <1>1, SetWorker, ZenonT(60)

LEMMA SetWrites ==
  ASSUME WorkTypes, NEW h \in Sockets, NEW s \in Seq(Tasks),
         worker' = [worker EXCEPT ![h] = [@ EXCEPT !.writes = s]]
  PROVE  worker' \in [Sockets -> WorkerType]
  <1>1. [worker[h] EXCEPT !.writes = s] \in WorkerType
    BY WorkerFields, ZenonT(60) DEF WorkerType
  <1> QED
    BY <1>1, SetWorker, ZenonT(60)

(* The worker's loop keeps the types. *)
LEMMA WorkerStepTypes ==
  ASSUME WorkTypes, TaskTypes, NEW h \in Sockets, WorkerStep(h)
  PROVE  WorkTypes' /\ TaskTypes'
  <1> DEFINE Goal == WorkTypes' /\ TaskTypes'
  <1>1. ASSUME worker' \in [Sockets -> WorkerType],
               interests_queue' \in [Sockets -> QueueOf(ItemType)],
               wakes' \in [Tasks -> Nat],
               UNCHANGED <<held, rx, space, task, exec, ops>>
        PROVE  Goal
    BY ZenonT(60), <1>1 DEF WorkTypes, TaskTypes
  <1>2. /\ interests_queue \in [Sockets -> QueueOf(ItemType)]
        /\ interests_queue[h] \in QueueOf(ItemType)
        /\ wakes \in [Tasks -> Nat]
    BY ZenonT(60) DEF WorkTypes, TaskTypes
  <1>3. ASSUME WorkerWait(h) PROVE Goal
    <2>1. interests_queue' \in [Sockets -> QueueOf(ItemType)]
      BY ZenonT(60), <1>2, <1>3, TakePermitFacts DEF WorkerWait
    <2>2. worker' \in [Sockets -> WorkerType]
      BY <1>3, SetAt, ZenonT(60) DEF WorkerWait, WorkerAt
    <2>3. UNCHANGED <<held, rx, space, task, exec, wakes, ops>>
      BY <1>3, ZenonT(60) DEF WorkerWait, taskVars
    <2> QED
      BY ZenonT(60), <1>1, <1>2, <2>1, <2>2, <2>3
  <1>4. ASSUME WorkerDrain(h) PROVE Goal
    <2> DEFINE vals == interests_queue[h].vals
    <2>1. UNCHANGED <<held, rx, space, task, exec, wakes, ops>>
      BY <1>4, ZenonT(60) DEF WorkerDrain, taskVars
    <2>2. CASE vals = <<>>
      <3>1. /\ worker' = [worker EXCEPT ![h] = [@ EXCEPT !.at = "polling"]]
            /\ UNCHANGED interests_queue
        BY <1>4, <2>2, ZenonT(60) DEF WorkerDrain
      <3>2. worker' \in [Sockets -> WorkerType]
        BY <3>1, SetAt, ZenonT(60) DEF WorkerAt
      <3> QED
        BY ZenonT(60), <1>1, <1>2, <2>1, <3>1, <3>2
    <2>3. CASE vals # <<>>
      <3>1. vals \in Seq(ItemType)
        BY ZenonT(60), <1>2 DEF QueueOf
      <3>2. Head(vals) \in ItemType /\ Tail(vals) \in Seq(ItemType)
        BY ZenonT(60), <2>3, <3>1, TailFacts
      <3>3. /\ worker' = [worker EXCEPT
                            ![h] = Register(worker[h], Head(vals))]
            /\ interests_queue' = [interests_queue EXCEPT
                 ![h] = [@ EXCEPT !.vals = Tail(vals)]]
        BY <1>4, <2>3, ZenonT(60) DEF WorkerDrain
      <3>4. Register(worker[h], Head(vals)) \in WorkerType
        BY <3>2, RegisterFacts, ZenonT(60)
      <3> HIDE DEF vals
      <3>5. worker' \in [Sockets -> WorkerType]
        BY <3>3, <3>4, SetWorker, ZenonT(60)
      <3>6. [interests_queue[h] EXCEPT !.vals = Tail(vals)]
              \in QueueOf(ItemType)
        BY <1>2, <3>2, ZenonT(60) DEF QueueOf
      <3>7. interests_queue' \in [Sockets -> QueueOf(ItemType)]
        BY ZenonT(60), <1>2, <3>3, <3>6
      <3> QED
        BY ZenonT(60), <1>1, <1>2, <2>1, <3>5, <3>7
    <2> QED
      BY ZenonT(60), <2>2, <2>3
  <1>5. ASSUME WorkerPolled(h) \/ WorkerTimeout(h) \/ WorkerLoops(h)
        PROVE  Goal
    <2>1. PollOut(h) \in SUBSET {"POLLIN", "POLLOUT"}
      BY ZenonT(60) DEF PollOut
    <2>2. {} \in SUBSET {"POLLIN", "POLLOUT"}
      BY ZenonT(60)
    <2>3. worker' \in [Sockets -> WorkerType]
      <3>1. CASE WorkerPolled(h)
        BY <2>1, <3>1, SetOut, ZenonT(60) DEF WorkerPolled, WorkerAt
      <3>2. CASE WorkerTimeout(h)
        BY <3>2, SetAt, ZenonT(60) DEF WorkerTimeout, WorkerAt
      <3>3. CASE WorkerLoops(h)
        BY <2>2, <3>3, SetOut, ZenonT(60) DEF WorkerLoops, WorkerAt
      <3> QED
        BY ZenonT(60), <1>5, <3>1, <3>2, <3>3
    <2>4. UNCHANGED <<interests_queue, held, rx, space, task, exec, wakes,
                      ops>>
      BY <1>5, ZenonT(60) DEF WorkerPolled, WorkerTimeout, WorkerLoops,
                              taskVars
    <2> QED
      BY ZenonT(60), <1>1, <1>2, <2>3, <2>4
  <1>6. ASSUME WorkerWakes(h) PROVE Goal
    <2>1. UNCHANGED <<interests_queue, held, rx, space, task, exec, ops>>
      BY <1>6, ZenonT(60) DEF WorkerWakes
    <2>2. CASE WakesWriter(h)
      <3>1. /\ worker[h].writes # <<>>
            /\ Wake(Head(worker[h].writes))
            /\ worker' =
                 [worker EXCEPT
                    ![h] = [@ EXCEPT !.writes = Tail(worker[h].writes)]]
        BY <1>6, <2>2, ZenonT(60) DEF WorkerWakes, WakesWriter
      <3>2. /\ Head(worker[h].writes) \in Tasks
            /\ Tail(worker[h].writes) \in Seq(Tasks)
        BY <3>1, WorkerFields, TailFacts, ZenonT(60)
      <3>3. worker' \in [Sockets -> WorkerType]
        BY <3>1, <3>2, SetWrites, ZenonT(60)
      <3>4. wakes' \in [Tasks -> Nat]
        BY <1>2, <3>1, <3>2 DEF Wake
      <3> QED
        BY ZenonT(60), <1>1, <1>2, <2>1, <3>3, <3>4
    <2>3. CASE ~WakesWriter(h)
      <3>1. /\ worker[h].reads # <<>>
            /\ Wake(Head(worker[h].reads))
            /\ worker' = [worker EXCEPT
                            ![h] = [@ EXCEPT !.reads = Tail(worker[h].reads)]]
        BY <1>6, <2>3, ZenonT(60) DEF WorkerWakes, WakesReader
      <3>2. /\ Head(worker[h].reads) \in Tasks
            /\ Tail(worker[h].reads) \in Seq(Tasks)
        BY <3>1, WorkerFields, TailFacts, ZenonT(60)
      <3>3. worker' \in [Sockets -> WorkerType]
        BY <3>1, <3>2, SetReads, ZenonT(60)
      <3>4. wakes' \in [Tasks -> Nat]
        BY <1>2, <3>1, <3>2 DEF Wake
      <3> QED
        BY <1>1, <1>2, <2>1, <3>3, <3>4
    <2> QED
      BY ZenonT(60), <2>2, <2>3
  <1> HIDE DEF Goal
  <1>7. Goal
    BY ZenonT(60), <1>3, <1>4, <1>5, <1>6 DEF WorkerStep
  <1> QED
    BY <1>7 DEF Goal

(* Every step keeps the types. *)
LEMMA TypesStep ==
  ASSUME TypeOK, [Next]_vars
  PROVE  TypeOK'
  <1>1. SocketTypeOK /\ WorkTypes /\ TaskTypes
    BY ZenonT(60), TypeParts
  <1> DEFINE Goal == WorkTypes' /\ TaskTypes'
  <1>2. ASSUME UNCHANGED <<workVars, task, wakes, ops>>,
               exec' \in {"running", "dead"}
        PROVE  Goal
    BY ZenonT(60), <1>1, <1>2 DEF workVars, WorkTypes, TaskTypes
  <1>3. ASSUME UNCHANGED <<workVars, taskVars>> PROVE Goal
    BY ZenonT(60), <1>1, <1>3 DEF workVars, taskVars, WorkTypes, TaskTypes
  <1>4. ASSUME NEW h \in Sockets, NEW r \in Replies, Wrap(h, r) PROVE Goal
    <2>1. worker' \in [Sockets -> WorkerType]
      BY <1>1, <1>4, SetAt, ZenonT(60) DEF Wrap, WorkerAt, WorkTypes
    <2>2. held' \subseteq Sockets /\ exec' \in {"running", "dead"}
      BY ZenonT(60), <1>1, <1>4 DEF Wrap, WorkTypes, TaskTypes
    <2> QED
      BY ZenonT(60), <1>1, <1>4, <2>1, <2>2 DEF Wrap, WorkTypes, TaskTypes
  <1>5. ASSUME NEW h \in Sockets, RunPanics(h) \/ AwaitPanics(h) PROVE Goal
    BY ZenonT(60), <1>2, <1>5 DEF RunPanics, AwaitPanics
  <1>6. ASSUME NEW h \in Sockets, DropTcp(h) PROVE Goal
    BY ZenonT(60), <1>3, <1>6 DEF DropTcp
  <1>7. ASSUME NEW h \in Sockets, DropAsync(h) PROVE Goal
    BY ZenonT(60), <1>1, <1>7 DEF DropAsync, WorkTypes, TaskTypes, taskVars
  <1>8. ASSUME NEW h \in Sockets, Arrive(h) \/ MakeSpace(h) PROVE Goal
    BY <1>1, <1>8, AsyncTcpAssumption
    DEF Arrive, MakeSpace, WorkTypes, TaskTypes, taskVars
  <1>9. ASSUME NEW h \in Sockets, WorkerDies(h) PROVE Goal
    <2>1. worker' \in [Sockets -> WorkerType]
      <3>1. [NoWorker EXCEPT !.at = "dead"] \in WorkerType
        <4>1. [NoWorker EXCEPT !.at = "dead"] =
                [at |-> "dead", reads |-> <<>>, writes |-> <<>>, out |-> {}]
          BY DEF NoWorker
        <4>2. <<>> \in Seq(Tasks) /\ {} \in SUBSET {"POLLIN", "POLLOUT"}
          OBVIOUS
        <4> QED
          BY <4>1, <4>2, ZenonT(60) DEF WorkerType, WorkerAt
      <3> QED
        BY <1>1, <1>9, <3>1, SetWorker, ZenonT(60) DEF WorkerDies
    <2> QED
      BY ZenonT(60), <1>1, <1>9, <2>1
      DEF WorkerDies, WorkTypes, TaskTypes, taskVars
  <1>10. ASSUME NEW t \in Tasks, TaskSide(t) PROVE Goal
    BY ZenonT(60), <1>1, <1>10, TaskSideTypes
  <1>11. ASSUME NEW h \in Sockets, WorkerStep(h) PROVE Goal
    BY ZenonT(60), <1>1, <1>11, WorkerStepTypes
  <1> HIDE DEF Goal
  <1>12. ASSUME UNCHANGED vars PROVE Goal
    BY ZenonT(60), <1>3, <1>12 DEF vars
  <1>13. Goal
    BY ZenonT(60), <1>3, <1>4, <1>5, <1>6, <1>7, <1>8, <1>9, <1>10, <1>11,
       <1>12
    DEF Next, TaskSide
  <1> QED
    BY <1>1, <1>13, SocketTypes, TypeParts, PTL DEF Goal
-----------------------------------------------------------------------------
(* Handles, descriptors and owners.                                        *)

(* A socket that an AsyncTcpSocket or a running worker owns is an open     *)
(* stream, and an AsyncTcpSocket has had a worker.                         *)
OwnedIsStream ==
  \A h \in Sockets :
    Running(h) \/ h \in held => sock[h] = "stream" /\ fd[h] # BadFd

(* An AsyncTcpSocket was wrapped, which started its worker. *)
HeldHasWorker == \A h \in held : worker[h].at # "none"

(* The inductive invariant of the handles and their owners. *)
HandleInv ==
  /\ TypeOK
  /\ FreshHasNoFd /\ HandlesMatchFds /\ AddressIsThePeers
  /\ OwnedIsStream /\ HeldHasWorker /\ ClosedWithLastOwner

(* Dropping the last owner of a stream or a listener keeps the handle for  *)
(* SocketHandle::drop, and what the other sockets have.                    *)
LEMMA DropHandleFacts ==
  ASSUME SocketTypeOK, FreshHasNoFd, HandlesMatchFds, AddressIsThePeers,
         NEW h \in Sockets, sock[h] \in {"stream", "listening"}, DropHandle(h)
  PROVE  FreshHasNoFd' /\ HandlesMatchFds' /\ AddressIsThePeers'
  <1>1. KeepsHandle(h, "dropping")
    BY ZenonT(60) DEF DropHandle, KeepsHandle, Live
  <1>2. AddressIsThePeers'
    <2>1. /\ \A g \in Sockets : sock'[g] = "stream" => sock[g] = "stream"
          /\ UNCHANGED <<wire, addr>>
      BY ZenonT(60) DEF DropHandle, SocketTypeOK
    <2> QED
      BY ZenonT(60), <2>1 DEF AddressIsThePeers
  <1> QED
    BY ZenonT(60), <1>1, <1>2, KeepsHandleMatch

(* Handles match and addresses are the peers' after every step. *)
LEMMA HandlesStep ==
  ASSUME HandleInv, [Next]_vars
  PROVE  FreshHasNoFd' /\ HandlesMatchFds' /\ AddressIsThePeers'
  <1> DEFINE Goal == FreshHasNoFd' /\ HandlesMatchFds' /\ AddressIsThePeers'
  <1>1. /\ SocketTypeOK /\ FreshHasNoFd /\ HandlesMatchFds
        /\ AddressIsThePeers /\ OwnedIsStream
    BY ZenonT(60) DEF HandleInv, TypeOK
  <1>2. ASSUME SocketQuiet PROVE Goal
    BY <1>1, <1>2 DEF SocketQuiet, FreshHasNoFd, HandlesMatchFds, Holders,
                      AddressIsThePeers
  <1>3. ASSUME NEW h \in Sockets, SocketStep(h) PROVE Goal
    BY ZenonT(60), <1>1, <1>3, SocketStepMatch, SocketStepMoves, MovesToFacts
  <1>4. ASSUME NEW h \in Sockets, RunPanics(h) \/ DropTcp(h) PROVE Goal
    <2>1. sock[h] \in {"stream", "listening"} /\ DropHandle(h)
      BY ZenonT(60), <1>4 DEF RunPanics, DropTcp
    <2> QED
      BY ZenonT(60), <1>1, <2>1, DropHandleFacts
  <1>5. ASSUME NEW h \in Sockets, NEW r \in Replies, Wrap(h, r) PROVE Goal
    <2>1. /\ Reply(h, r, "stream") /\ sock[h] = "stream"
          /\ UNCHANGED <<wire, addr>>
      BY <1>5, ZenonT(60) DEF Wrap, SetNonblock
    <2>2. FreshHasNoFd' /\ HandlesMatchFds'
      BY ZenonT(60), <1>1, <2>1, ReplyKeeps, KeepsHandleMatch DEF Live
    <2>3. \A g \in Sockets : sock'[g] = "stream" => sock[g] = "stream"
      BY ZenonT(60), <1>1, <2>1 DEF Reply, SocketTypeOK
    <2> QED
      BY ZenonT(60), <1>1, <2>1, <2>2, <2>3 DEF AddressIsThePeers
  <1>6. ASSUME NEW h \in Sockets, DropAsync(h) \/ WorkerDies(h) PROVE Goal
    <2>1. sock[h] = "stream"
      BY ZenonT(60), <1>1, <1>6
      DEF DropAsync, WorkerDies, OwnedIsStream, Running
    <2>2. DropHandle(h) \/ SocketQuiet
      BY <1>6, ZenonT(60) DEF DropAsync, WorkerDies, socketVars, SocketQuiet
    <2> QED
      BY ZenonT(60), <1>1, <1>2, <2>1, <2>2, DropHandleFacts
  <1> HIDE DEF Goal
  <1>7. Goal
    BY ZenonT(60), <1>2, <1>3, <1>4, <1>5, <1>6, StepCases DEF SocketSide
  <1> QED
    BY ZenonT(60), <1>7 DEF Goal

(* What a step of a worker does: it goes on with its lists and its queue   *)
(* as they are, registers the first item of the queue, or wakes the first  *)
(* task of a list.                                                         *)
KeepsLists(h) ==
  /\ worker'[h].reads = worker[h].reads /\ worker'[h].writes = worker[h].writes
  /\ interests_queue'[h].vals = interests_queue[h].vals
  /\ UNCHANGED wakes
  /\ \/ worker'[h].at = "drain" \/ interests_queue[h].vals = <<>>
     \/ /\ worker[h].at \notin {"drain", "draining"}
        /\ UNCHANGED interests_queue

(* It takes the first item of the queue into one of its lists. *)
Registers(h) ==
  LET vals == interests_queue[h].vals
  IN  /\ vals # <<>>
      /\ worker'[h] = Register(worker[h], Head(vals))
      /\ interests_queue'[h].vals = Tail(vals)
      /\ UNCHANGED wakes

(* It wakes the first task of one of its lists. *)
WakesFirst(h) ==
  /\ UNCHANGED interests_queue /\ worker[h].at = "waking"
  /\ \/ /\ worker[h].writes # <<>> /\ Wake(Head(worker[h].writes))
        /\ worker'[h].writes = Tail(worker[h].writes)
        /\ worker'[h].reads = worker[h].reads
     \/ /\ worker[h].reads # <<>> /\ Wake(Head(worker[h].reads))
        /\ worker'[h].reads = Tail(worker[h].reads)
        /\ worker'[h].writes = worker[h].writes

(* Every step of a worker does one of these, to its own lists and queue. *)
LEMMA WorkerStepFacts ==
  ASSUME WorkTypes, NEW h \in Sockets, WorkerStep(h)
  PROVE  /\ worker[h].at \notin {"none", "dead"}
         /\ worker'[h].at \notin {"none", "dead"}
         /\ \A g \in Sockets \ {h} :
              /\ worker'[g] = worker[g]
              /\ interests_queue'[g] = interests_queue[g]
         /\ UNCHANGED task
         /\ KeepsLists(h) \/ Registers(h) \/ WakesFirst(h)
  <1> DEFINE Goal == /\ worker[h].at \notin {"none", "dead"}
                     /\ worker'[h].at \notin {"none", "dead"}
                     /\ \A g \in Sockets \ {h} :
                          /\ worker'[g] = worker[g]
                          /\ interests_queue'[g] = interests_queue[g]
                     /\ UNCHANGED task
                     /\ KeepsLists(h) \/ Registers(h) \/ WakesFirst(h)
             q == interests_queue[h]
  <1>1. ASSUME NEW w, worker' = [worker EXCEPT ![h] = w]
        PROVE  /\ worker'[h] = w
               /\ \A g \in Sockets \ {h} : worker'[g] = worker[g]
    BY ZenonT(60), <1>1 DEF WorkTypes
  <1>2. \A a : LET w == [worker[h] EXCEPT !.at = a]
               IN  /\ w.at = a
                   /\ w.reads = worker[h].reads /\ w.writes = worker[h].writes
    BY WorkerFields, ZenonT(60)
  <1>3. \A a, o : LET w == [worker[h] EXCEPT !.at = a, !.out = o]
                  IN  /\ w.at = a
                      /\ w.reads = worker[h].reads
                      /\ w.writes = worker[h].writes
    BY WorkerFields, ZenonT(60)
  <1>4. \A s : LET w == [worker[h] EXCEPT !.reads = s]
               IN  /\ w.at = worker[h].at
                   /\ w.reads = s /\ w.writes = worker[h].writes
    BY WorkerFields, ZenonT(60)
  <1>5. \A s : LET w == [worker[h] EXCEPT !.writes = s]
               IN  /\ w.at = worker[h].at
                   /\ w.writes = s /\ w.reads = worker[h].reads
    BY WorkerFields, ZenonT(60)
  <1>6. ASSUME WorkerWait(h) PROVE Goal
    <2>1. worker' = [worker EXCEPT ![h] = [worker[h] EXCEPT !.at = "drain"]]
      BY <1>6, ZenonT(60) DEF WorkerWait
    <2>2. /\ worker[h].at = "loop" /\ UNCHANGED <<task, wakes>>
          /\ interests_queue' = [interests_queue EXCEPT ![h] = TakePermit(q)]
      BY <1>6, ZenonT(60) DEF WorkerWait, taskVars
    <2>3. TakePermit(q).vals = q.vals
      <3>1. q \in QueueOf(ItemType) /\ Signalled(q)
        BY ZenonT(60), <1>6 DEF WorkTypes, WorkerWait
      <3> QED
        BY ZenonT(60), <3>1, TakePermitFacts
    <2>4. /\ interests_queue'[h].vals = q.vals
          /\ \A g \in Sockets \ {h} : interests_queue'[g] = interests_queue[g]
      BY ZenonT(60), <2>2, <2>3 DEF WorkTypes
    <2>5. /\ worker'[h].at = "drain"
          /\ worker'[h].reads = worker[h].reads
          /\ worker'[h].writes = worker[h].writes
          /\ \A g \in Sockets \ {h} : worker'[g] = worker[g]
      BY <1>1, <1>2, <2>1, ZenonT(60)
    <2> QED
      BY <2>2, <2>4, <2>5, ZenonT(60) DEF KeepsLists
  <1>7. ASSUME WorkerPolled(h) \/ WorkerLoops(h) PROVE Goal
    <2>1. \E a \in {"waking", "loop"}, o \in {PollOut(h), {}} :
            worker' =
              [worker EXCEPT ![h] = [worker[h] EXCEPT !.at = a, !.out = o]]
      BY <1>7, ZenonT(60) DEF WorkerPolled, WorkerLoops
    <2>2. /\ worker[h].at \in {"waking", "polling"}
          /\ UNCHANGED <<interests_queue, task, wakes>>
      BY <1>7, ZenonT(60) DEF WorkerPolled, WorkerLoops, taskVars
    <2> QED
      BY <1>1, <1>3, <2>1, <2>2 DEF KeepsLists
  <1>8. ASSUME WorkerTimeout(h) PROVE Goal
    <2>1. worker' = [worker EXCEPT ![h] = [worker[h] EXCEPT !.at = "loop"]]
      BY <1>8, ZenonT(60) DEF WorkerTimeout
    <2>2. /\ worker[h].at = "polling"
          /\ UNCHANGED <<interests_queue, task, wakes>>
      BY <1>8, ZenonT(60) DEF WorkerTimeout, taskVars
    <2> QED
      BY <1>1, <1>2, <2>1, <2>2 DEF KeepsLists
  <1>9. ASSUME WorkerWakes(h) PROVE Goal
    <2>1. worker[h].at = "waking" /\ UNCHANGED <<interests_queue, task>>
      BY <1>9, ZenonT(60) DEF WorkerWakes
    <2>2. CASE WakesWriter(h)
      <3>1. /\ worker[h].writes # <<>>
            /\ Wake(Head(worker[h].writes))
            /\ worker' = [worker EXCEPT ![h] =
                 [worker[h] EXCEPT !.writes = Tail(worker[h].writes)]]
        BY <1>9, <2>2, ZenonT(60) DEF WorkerWakes, WakesWriter
      <3>2. /\ worker'[h].writes = Tail(worker[h].writes)
            /\ worker'[h].reads = worker[h].reads
            /\ worker'[h].at = "waking"
            /\ \A g \in Sockets \ {h} : worker'[g] = worker[g]
        BY <1>1, <1>5, <2>1, <3>1, ZenonT(60)
      <3> QED
        BY ZenonT(60), <2>1, <3>1, <3>2 DEF WakesFirst
    <2>3. CASE ~WakesWriter(h)
      <3>1. /\ worker[h].reads # <<>>
            /\ Wake(Head(worker[h].reads))
            /\ worker' = [worker EXCEPT ![h] =
                 [worker[h] EXCEPT !.reads = Tail(worker[h].reads)]]
        BY <1>9, <2>3, ZenonT(60) DEF WorkerWakes, WakesReader
      <3>2. /\ worker'[h].reads = Tail(worker[h].reads)
            /\ worker'[h].writes = worker[h].writes
            /\ worker'[h].at = "waking"
            /\ \A g \in Sockets \ {h} : worker'[g] = worker[g]
        BY <1>1, <1>4, <2>1, <3>1, ZenonT(60)
      <3> QED
        BY ZenonT(60), <2>1, <3>1, <3>2 DEF WakesFirst
    <2> QED
      BY ZenonT(60), <2>2, <2>3
  <1>10. ASSUME WorkerDrain(h) PROVE Goal
    <2>1. /\ worker[h].at \in {"drain", "draining", "loop"}
          /\ UNCHANGED <<task, wakes>>
      BY <1>10, ZenonT(60) DEF WorkerDrain, taskVars
    <2>2. CASE q.vals = <<>>
      <3>1. /\ worker' = [worker EXCEPT
                            ![h] = [worker[h] EXCEPT !.at = "polling"]]
            /\ UNCHANGED interests_queue
        BY <1>10, <2>2, ZenonT(60) DEF WorkerDrain
      <3> QED
        BY <1>1, <1>2, <2>1, <2>2, <3>1 DEF KeepsLists
    <2>3. CASE q.vals # <<>>
      <3>1. /\ worker' = [worker EXCEPT
                            ![h] = Register(worker[h], Head(q.vals))]
            /\ interests_queue' = [interests_queue EXCEPT
                 ![h] = [q EXCEPT !.vals = Tail(q.vals)]]
        BY <1>10, <2>3, ZenonT(60) DEF WorkerDrain
      <3>2. q.vals \in Seq(ItemType) /\ q \in QueueOf(ItemType)
        BY ZenonT(60) DEF WorkTypes, QueueOf
      <3>3. Register(worker[h], Head(q.vals)).at = "draining"
        <4>1. Head(q.vals) \in ItemType
          BY ZenonT(60), <2>3, <3>2, TailFacts
        <4> QED
          BY <4>1, RegisterFacts, ZenonT(60)
      <3>4. /\ worker'[h] = Register(worker[h], Head(q.vals))
            /\ \A g \in Sockets \ {h} : worker'[g] = worker[g]
        BY <1>1, <3>1, ZenonT(60)
      <3>5. [q EXCEPT !.vals = Tail(q.vals)].vals = Tail(q.vals)
        BY <3>2, ZenonT(60) DEF QueueOf
      <3>6. /\ interests_queue'[h].vals = Tail(q.vals)
            /\ \A g \in Sockets \ {h} :
                 interests_queue'[g] = interests_queue[g]
        BY ZenonT(60), <3>1, <3>5 DEF WorkTypes
      <3> HIDE DEF q
      <3> QED
        BY <2>1, <2>3, <3>3, <3>4, <3>6, ZenonT(60) DEF Registers, q
    <2> QED
      BY ZenonT(60), <2>2, <2>3
  <1> HIDE DEF Goal
  <1>11. Goal
    BY ZenonT(60), <1>6, <1>7, <1>8, <1>9, <1>10 DEF WorkerStep
  <1> QED
    BY ZenonT(60), <1>11 DEF Goal

(* Owned sockets are open streams, and a socket is closed with its last    *)
(* owner, after every step.                                                *)
LEMMA OwnersStep ==
  ASSUME HandleInv, [Next]_vars
  PROVE  OwnedIsStream' /\ HeldHasWorker' /\ ClosedWithLastOwner'
  <1> DEFINE Goal == OwnedIsStream' /\ HeldHasWorker' /\ ClosedWithLastOwner'
  <1>1. /\ SocketTypeOK /\ WorkTypes
        /\ OwnedIsStream /\ HeldHasWorker /\ ClosedWithLastOwner
    BY ZenonT(60), TypeParts DEF HandleInv
  <1>2. /\ sock \in [Sockets -> Live \cup {"none", "gone"}]
        /\ worker \in [Sockets -> WorkerType]
        /\ held \subseteq Sockets
    BY ZenonT(60), <1>1 DEF SocketTypeOK, WorkTypes
  <1>3. ASSUME SocketQuiet, UNCHANGED <<worker, held>> PROVE Goal
    BY ZenonT(60), <1>1, <1>3 DEF SocketQuiet, OwnedIsStream, HeldHasWorker,
                      ClosedWithLastOwner, Running
  <1>4. ASSUME NEW h \in Sockets, SocketStep(h), WorkQuiet PROVE Goal
    <2>1. /\ \A g \in Sockets :
               sock[g] = "stream" => sock'[g] = "stream" /\ fd'[g] = fd[g]
          /\ \A g \in Sockets :
               sock[g] \in {"dropping", "gone"}
                 => sock'[g] \in {"dropping", "gone"}
      BY ZenonT(60), <1>1, <1>4, SocketStepMoves, MovesToFacts
    <2> QED
      BY ZenonT(60), <1>1, <1>4, <2>1
      DEF WorkQuiet, OwnedIsStream, HeldHasWorker,
                              ClosedWithLastOwner, Running
  <1>5. ASSUME NEW h \in Sockets, RunPanics(h) \/ DropTcp(h), WorkQuiet
        PROVE  Goal
    <2>1. DropHandle(h) /\ worker[h].at = "none"
      BY <1>5, ZenonT(60) DEF RunPanics, DropTcp
    <2> QED
      BY ZenonT(60), <1>1, <1>2, <1>5, <2>1
      DEF DropHandle, WorkQuiet, OwnedIsStream, HeldHasWorker,
          ClosedWithLastOwner, Running
  <1>6. ASSUME NEW h \in Sockets, NEW r \in Replies, Wrap(h, r) PROVE Goal
    <2>1. Reply(h, r, "stream") /\ worker[h].at = "none"
      BY <1>6, ZenonT(60) DEF Wrap, SetNonblock
    <2>2. CASE Checked(r) = "ok"
      <3>1. /\ worker' = [worker EXCEPT
                            ![h] = [worker[h] EXCEPT !.at = "loop"]]
            /\ held' = held \cup {h}
        BY <1>6, <2>2, ZenonT(60) DEF Wrap
      <3>2. [worker[h] EXCEPT !.at = "loop"].at = "loop"
        BY <1>1, WorkerFields, ZenonT(60)
      <3>3. /\ worker'[h].at = "loop"
            /\ \A g \in Sockets : g # h => worker'[g] = worker[g]
        BY ZenonT(60), <1>2, <3>1, <3>2
      <3>4. /\ sock'[h] = "stream" /\ UNCHANGED fd /\ fd[h] # BadFd
            /\ \A g \in Sockets : g # h => sock'[g] = sock[g]
        BY ZenonT(60), <1>2, <2>1, <2>2 DEF Reply
      <3> QED
        BY <1>1, <1>2, <3>1, <3>3, <3>4
        DEF OwnedIsStream, HeldHasWorker, ClosedWithLastOwner, Running
    <2>3. CASE Checked(r) # "ok"
      <3>1. UNCHANGED <<worker, held>>
        BY <1>6, <2>3, ZenonT(60) DEF Wrap
      <3>2. /\ sock'[h] = "dropping" /\ UNCHANGED fd
            /\ \A g \in Sockets : g # h => sock'[g] = sock[g]
        BY ZenonT(60), <1>2, <2>1, <2>3 DEF Reply
      <3> QED
        BY ZenonT(60), <1>1, <1>2, <2>1, <3>1, <3>2
        DEF OwnedIsStream, HeldHasWorker, ClosedWithLastOwner, Running
    <2> QED
      BY ZenonT(60), <2>2, <2>3
  <1>7. ASSUME NEW h \in Sockets, DropAsync(h) PROVE Goal
    <2>1. /\ held' = held \ {h} /\ UNCHANGED worker
          /\ IF worker[h].at = "dead" THEN DropHandle(h)
                                      ELSE UNCHANGED <<sock, fd>>
      BY <1>7, ZenonT(60) DEF DropAsync, socketVars
    <2> QED
      BY ZenonT(60), <1>1, <1>2, <2>1
      DEF DropHandle, OwnedIsStream, HeldHasWorker, ClosedWithLastOwner,
          Running
  <1>8. ASSUME NEW h \in Sockets, WorkerDies(h) PROVE Goal
    <2>1. /\ worker' = [worker EXCEPT ![h] = [NoWorker EXCEPT !.at = "dead"]]
          /\ UNCHANGED held
          /\ IF h \in held THEN UNCHANGED <<sock, fd>> ELSE DropHandle(h)
      BY <1>8, ZenonT(60) DEF WorkerDies
    <2>2. [NoWorker EXCEPT !.at = "dead"].at = "dead"
      BY ZenonT(60) DEF NoWorker
    <2>3. /\ worker'[h].at = "dead"
          /\ \A g \in Sockets : g # h => worker'[g] = worker[g]
      BY ZenonT(60), <1>2, <2>1, <2>2
    <2> QED
      BY <1>1, <1>2, <2>1, <2>3
      DEF DropHandle, OwnedIsStream, HeldHasWorker, ClosedWithLastOwner,
          Running
  <1>9. ASSUME NEW h \in Sockets, WorkerStep(h), SocketQuiet, UNCHANGED held
        PROVE  Goal
    <2>1. /\ worker[h].at \notin {"none", "dead"}
          /\ worker'[h].at \notin {"none", "dead"}
          /\ \A g \in Sockets : g # h => worker'[g] = worker[g]
      BY ZenonT(60), <1>1, <1>9, WorkerStepFacts
    <2> QED
      BY ZenonT(60), <1>1, <1>2, <1>9, <2>1
      DEF SocketQuiet, OwnedIsStream, HeldHasWorker, ClosedWithLastOwner,
          Running
  <1> HIDE DEF Goal
  <1>10. WorkQuiet => UNCHANGED <<worker, held>>
    BY ZenonT(60) DEF WorkQuiet
  <1>11. Goal
    BY ZenonT(60), <1>3, <1>4, <1>5, <1>6, <1>7, <1>8, <1>9, <1>10, StepCases
    DEF SocketSide
  <1> QED
    BY ZenonT(60), <1>11 DEF Goal
-----------------------------------------------------------------------------
(* Theorems.                                                               *)

(* Nothing is open at the start. *)
LEMMA InitHandles == Init => HandleInv
  <1> SUFFICES ASSUME Init PROVE HandleInv
    BY ZenonT(60)
  <1>1. NewQueue \in QueueOf(ItemType)
    BY MaxPermitsAssumption DEF NewQueue, QueueOf
  <1>2. NoWorker \in WorkerType
    <2>1. <<>> \in Seq(Tasks) /\ {} \in SUBSET {"POLLIN", "POLLOUT"}
      OBVIOUS
    <2> QED
      BY <2>1, ZenonT(60) DEF NoWorker, WorkerType, WorkerAt
  <1>3. WorkTypes
    BY <1>1, <1>2, AsyncTcpAssumption DEF Init, WorkTypes
  <1>4. TaskTypes
    BY AsyncTcpAssumption DEF Init, TaskTypes
  <1>5. SocketTypeOK
    <2>1. [h \in Sockets |-> <<>>] \in [Sockets -> Seq(0..255)]
      OBVIOUS
    <2>2. 0 \in 0..MaxFaults
      BY SocketAssumption
    <2> QED
      BY <2>1, <2>2, ZenonT(60) DEF Init, SocketInit, SocketTypeOK
  <1>6. FreshHasNoFd /\ HandlesMatchFds /\ AddressIsThePeers
    BY ZenonT(60), SocketAssumption
    DEF Init, SocketInit, FreshHasNoFd, HandlesMatchFds, Holders, Live,
        AddressIsThePeers
  <1>7. OwnedIsStream /\ HeldHasWorker /\ ClosedWithLastOwner
    BY ZenonT(60)
    DEF Init, OwnedIsStream, HeldHasWorker, ClosedWithLastOwner, Running,
           NoWorker
  <1> QED
    BY ZenonT(60), <1>3, <1>4, <1>5, <1>6, <1>7, TypeParts DEF HandleInv

(* The invariant is inductive. *)
LEMMA NextHandles == HandleInv /\ [Next]_vars => HandleInv'
  BY ZenonT(60), TypesStep, HandlesStep, OwnersStep DEF HandleInv

(* Every state that the sockets reach satisfies the inductive invariant. *)
THEOREM HandleInvariance == Spec => []HandleInv
  BY InitHandles, NextHandles, PTL DEF Spec

(* The state of the sockets, the workers and the tasks has its type. *)
THEOREM TypeCorrectness == Spec => []TypeOK
  <1>1. HandleInv => TypeOK
    BY ZenonT(60) DEF HandleInv
  <1> QED
    BY <1>1, HandleInvariance, PTL

(* On every error path of connect, bind and accept, and whoever is the     *)
(* last to drop a socket, handles and open descriptors match.              *)
THEOREM HandlesMatch == Spec => []HandlesMatchFds
  <1>1. HandleInv => HandlesMatchFds
    BY ZenonT(60) DEF HandleInv
  <1> QED
    BY <1>1, HandleInvariance, PTL

(* The address that a stream keeps is the one the service knows its peer   *)
(* by, for every address: read_sockaddr undoes sockaddr_as_bytes.          *)
THEOREM AddressSurvives == Spec => []AddressIsThePeers
  <1>1. HandleInv => AddressIsThePeers
    BY ZenonT(60) DEF HandleInv
  <1> QED
    BY <1>1, HandleInvariance, PTL

(* A running worker polls a descriptor that is open and its own. *)
THEOREM WorkerPollsItsOwn == Spec => []WorkerHasItsFd
  <1>1. HandleInv => WorkerHasItsFd
    <2> SUFFICES ASSUME HandleInv, NEW h \in Sockets, Running(h), ~refused
                 PROVE  sock[h] = "stream" /\ fd[h] \in open
      BY ZenonT(60) DEF WorkerHasItsFd
    <2>1. sock[h] = "stream" /\ fd[h] # BadFd
      BY ZenonT(60) DEF HandleInv, OwnedIsStream
    <2>2. fd[h] \in Fds /\ h \in Holders(fd[h])
      <3>1. fd \in [Sockets -> Fds \cup {BadFd}]
        BY ZenonT(60) DEF HandleInv, TypeOK, SocketTypeOK
      <3> QED
        BY ZenonT(60), <2>1, <3>1 DEF Holders, Live
    <2> QED
      BY ZenonT(60), <2>1, <2>2 DEF HandleInv, HandlesMatchFds
  <1> QED
    BY <1>1, HandleInvariance, PTL

(* When the worker has ended and the last AsyncTcpSocket is dropped, in    *)
(* either order, the handle is dropped too.                                *)
THEOREM LastOwnerCloses == Spec => []ClosedWithLastOwner
  <1>1. HandleInv => ClosedWithLastOwner
    BY ZenonT(60) DEF HandleInv
  <1> QED
    BY <1>1, HandleInvariance, PTL
=============================================================================
