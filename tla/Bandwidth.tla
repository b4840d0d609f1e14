------------------------------ MODULE Bandwidth ------------------------------
(***************************************************************************)
(* detectbandwidth: clients that measure their bandwidth to one server     *)
(* over UDP.  A client requests a session and is given its place in the    *)
(* server's table, sends datagrams for some seconds, and waits for the     *)
(* server to report the speed; as long as the speed grows it measures      *)
(* again, with the next checkid and from a new socket.  The table has few  *)
(* places, a request is repeated when its answer does not come, and the    *)
(* network loses, repeats, delays and reorders.                            *)
(*                                                                         *)
(* A measurement is named by <<client, checkid>>, which is also its        *)
(* socket.  Clocks are left out: a time limit may have passed or not       *)
(* whenever it is tested.  Lengths and speeds are left out: a session      *)
(* knows the measurements whose datagrams it has counted.                  *)
(***************************************************************************)
EXTENDS Naturals, FiniteSets

CONSTANTS
  Client,
  SESSIONMAXNUM,
  MAX_CHECK_TIME,  \* times a request is repeated
  MaxRound,        \* bound: measurements of a client
  MaxNet           \* bound: datagrams under way

\* No measurement.
NoRound == <<>>

ASSUME BandwidthAssumption ==
  /\ {SESSIONMAXNUM, MaxRound, MaxNet} \subseteq Nat \ {0}
  /\ MAX_CHECK_TIME \in Nat

Session == 0..(SESSIONMAXNUM - 1)
Round == Client \X (0..(MaxRound - 1))   \* measurements
Checkid == 0..MaxRound

Message ==
  [type : {"request", "bye", "report"}, round : Round]
  \union [type : {"ack", "data"}, round : Round, id : Session, checkid : Checkid]

VARIABLES
  udpsessionuse,  \* by session
  sessionnum,
  checkid,        \* by session
  counted,        \* the measurements in its length
  clientadd,      \* where its report goes: to the first of them
  at,             \* where each client is
  round,          \* its checkid, which counts its measurements
  checktime,      \* requests it has repeated
  grant,          \* the session and checkid it was given
  net

serverVars == <<udpsessionuse, sessionnum, checkid, counted, clientadd>>
clientVars == <<at, round, checktime, grant>>
vars == <<serverVars, clientVars, net>>

NoGrant == [id |-> 0, checkid |-> 0]

Init ==
  /\ udpsessionuse = [i \in Session |-> FALSE]
  /\ sessionnum = 0
  /\ checkid = [i \in Session |-> 0]
  /\ counted = [i \in Session |-> {}]
  /\ clientadd = [i \in Session |-> NoRound]
  /\ at = [c \in Client |-> "request"]
  /\ round = [c \in Client |-> 0]
  /\ checktime = [c \in Client |-> 0]
  /\ grant = [c \in Client |-> NoGrant]
  /\ net = {}

-----------------------------------------------------------------------------
(* The network.                                                            *)

\* The datagrams under way with m, which is lost when they are too many.
With(datagrams, m) ==
  IF Cardinality(datagrams \union {m}) <= MaxNet THEN datagrams \union {m} ELSE datagrams

Send(m) == net' = With(net, m)

\* A datagram is answered by another, and may arrive again.
Reply(m, answer) == net' \in {With(net, answer), With(net \ {m}, answer)}

\* It is lost, as every datagram to a socket that is closed or does not expect it.
Lose(m) ==
  /\ m \in net
  /\ net' = net \ {m}
  /\ UNCHANGED <<serverVars, clientVars>>

-----------------------------------------------------------------------------
(* The server, one thread: server::udprecvdata.                            *)

InUse == {i \in Session : udpsessionuse[i]}

\* Mutant of Cleared: sessions cleared in one pass are counted once.
ClearedOnce(S) ==
  /\ udpsessionuse' = [i \in Session |-> i \in InUse \ S]
  /\ counted' = [i \in Session |-> IF i \in S THEN {} ELSE counted[i]]
  /\ clientadd' = [i \in Session |-> IF i \in S THEN NoRound ELSE clientadd[i]]
  /\ sessionnum' = IF S = {} THEN sessionnum ELSE sessionnum - 1

\* The sessions S are free again; their checkid stays.
Cleared(S) ==
  /\ udpsessionuse' = [i \in Session |-> i \in InUse \ S]
  /\ counted' = [i \in Session |-> IF i \in S THEN {} ELSE counted[i]]
  /\ clientadd' = [i \in Session |-> IF i \in S THEN NoRound ELSE clientadd[i]]
  /\ sessionnum' = sessionnum - Cardinality(S)

\* Mutant of Idle: a session that was never used is kept.
IdleKept(S) == {}

\* Sessions of S that got no datagram.
Idle(S) == {i \in S : counted[i] = {}}

\* One pass over the sessions, of which those in late have reached their time limit:
\* one that got no datagram is cleared; the first one that did is reported, and the
\* pass ends there.  A report that cannot be sent leaves its session as it is.
udpupdatesession(late, sent) ==
  /\ late # {} /\ late \subseteq InUse
  /\ \/ /\ \A i \in late : counted[i] = {}
        /\ Cleared(Idle(late))
        /\ UNCHANGED net
     \/ \E first \in late :
          LET before == {i \in late : i < first} IN
          /\ counted[first] # {}
          /\ \A i \in before : counted[i] = {}
          /\ IF sent
               THEN /\ Cleared(Idle(before) \union {first})
                    /\ Send([type |-> "report", round |-> clientadd[first]])
               ELSE Cleared(Idle(before)) /\ UNCHANGED net
  /\ UNCHANGED <<checkid, clientVars>>

\* getudptransferuid: the first free session, if sessionnum says there is one.
getudptransferuid(i) ==
  /\ sessionnum < SESSIONMAXNUM
  /\ i \in Session \ InUse
  /\ \A j \in Session \ InUse : i <= j

\* A request is given a session, with the checkid that its datagrams must carry, ...
RecvRequest(m, i) ==
  /\ m \in net /\ m.type = "request"
  /\ getudptransferuid(i)
  /\ udpsessionuse' = [udpsessionuse EXCEPT ![i] = TRUE]
  /\ checkid' = [checkid EXCEPT ![i] = m.round[2] + 1]
  /\ sessionnum' = sessionnum + 1
  /\ Reply(m, [type |-> "ack", round |-> m.round, id |-> i, checkid |-> checkid'[i]])
  /\ UNCHANGED <<counted, clientadd, clientVars>>

\* ... or "bye".
RefuseRequest(m) ==
  /\ m \in net /\ m.type = "request"
  /\ \A i \in Session : ~getudptransferuid(i)
  /\ Reply(m, [type |-> "bye", round |-> m.round])
  /\ UNCHANGED <<serverVars, clientVars>>

\* Mutant of Allowed: the checkid is not compared.
AllowedAny(m) == udpsessionuse[m.id]

\* A datagram counts for its session when that is in use and the checkid is right.
Allowed(m) == udpsessionuse[m.id] /\ checkid[m.id] = m.checkid

RecvData(m) ==
  /\ m \in net /\ m.type = "data"
  /\ Allowed(m)
  /\ counted' = [counted EXCEPT ![m.id] = @ \union {m.round}]
  /\ clientadd' = [clientadd EXCEPT ![m.id] = IF counted[m.id] = {} THEN m.round ELSE @]
  /\ net' \in {net, net \ {m}}
  /\ UNCHANGED <<udpsessionuse, sessionnum, checkid, clientVars>>

-----------------------------------------------------------------------------
(* A client: client::run, and the loop of main.                            *)

This(c) == <<c, round[c]>>

\* The request is sent ...
Request(c) ==
  /\ at[c] = "request"
  /\ at' = [at EXCEPT ![c] = "ask"]
  /\ Send([type |-> "request", round |-> This(c)])
  /\ UNCHANGED <<serverVars, round, checktime, grant>>

\* Mutant of CheckTimeout: checktime starts again.
CheckTimeoutForEver(c) ==
  /\ at[c] = "ask"
  /\ at' = [at EXCEPT ![c] = "request"]
  /\ UNCHANGED <<serverVars, checktime, round, grant, net>>

\* ... and sent again when no answer comes, some times.
CheckTimeout(c) ==
  /\ at[c] = "ask"
  /\ IF checktime[c] < MAX_CHECK_TIME
       THEN /\ at' = [at EXCEPT ![c] = "request"]
            /\ checktime' = [checktime EXCEPT ![c] = @ + 1]
       ELSE /\ at' = [at EXCEPT ![c] = "done"]
            /\ checktime' = [checktime EXCEPT ![c] = 0]
  /\ UNCHANGED <<serverVars, round, grant, net>>

\* An answer to any of the requests.
RecvAck(c, m) ==
  /\ at[c] = "ask"
  /\ m \in net /\ m.type = "ack" /\ m.round = This(c)
  /\ at' = [at EXCEPT ![c] = "send"]
  /\ grant' = [grant EXCEPT ![c] = [id |-> m.id, checkid |-> m.checkid]]
  /\ checktime' = [checktime EXCEPT ![c] = 0]
  /\ net' = net \ {m}
  /\ UNCHANGED <<serverVars, round>>

RecvBye(c, m) ==
  /\ at[c] = "ask"
  /\ m \in net /\ m.type = "bye" /\ m.round = This(c)
  /\ at' = [at EXCEPT ![c] = "done"]
  /\ checktime' = [checktime EXCEPT ![c] = 0]
  /\ net' = net \ {m}
  /\ UNCHANGED <<serverVars, round, grant>>

\* Datagrams, until the time is over.
SendData(c) ==
  /\ at[c] = "send"
  /\ Send([type |-> "data", round |-> This(c), id |-> grant[c].id,
           checkid |-> grant[c].checkid])
  /\ UNCHANGED <<serverVars, clientVars>>

SendEnds(c) ==
  /\ at[c] = "send"
  /\ at' = [at EXCEPT ![c] = "wait"]
  /\ grant' = [grant EXCEPT ![c] = NoGrant]
  /\ UNCHANGED <<serverVars, round, checktime, net>>

\* The speed: when it has grown, checkid is incremented and the next measurement
\* begins.  Every other datagram is read and dropped.
RecvReport(c, m) ==
  /\ at[c] = "wait"
  /\ m \in net /\ m.type = "report" /\ m.round = This(c)
  /\ \/ /\ round[c] < MaxRound - 1
        /\ at' = [at EXCEPT ![c] = "request"]
        /\ round' = [round EXCEPT ![c] = @ + 1]
     \/ /\ at' = [at EXCEPT ![c] = "done"]
        /\ UNCHANGED round
  /\ net' = net \ {m}
  /\ UNCHANGED <<serverVars, checktime, grant>>

\* It is not waited for without end.
WaitTimeout(c) ==
  /\ at[c] = "wait"
  /\ at' = [at EXCEPT ![c] = "done"]
  /\ UNCHANGED <<serverVars, round, checktime, grant, net>>

-----------------------------------------------------------------------------

Server ==
  \/ \E late \in SUBSET Session, sent \in BOOLEAN : udpupdatesession(late, sent)
  \/ \E m \in net :
       \/ \E i \in Session : RecvRequest(m, i)
       \/ RefuseRequest(m) \/ RecvData(m)

ClientNext(c) ==
  \/ Request(c) \/ CheckTimeout(c)
  \/ SendData(c) \/ SendEnds(c) \/ WaitTimeout(c)
  \/ \E m \in net : RecvAck(c, m) \/ RecvBye(c, m) \/ RecvReport(c, m)

Next ==
  \/ Server
  \/ \E c \in Client : ClientNext(c)
  \/ \E m \in net : Lose(m)

Spec == Init /\ [][Next]_vars

\* A client runs, and its time limits pass.  The server looks at every session many
\* times a second: each one's limit passes while no other's does, and its report is
\* sent in the end.  Nothing is assumed of the network.
Fairness ==
  /\ \A i \in Session : WF_vars(udpupdatesession({i}, TRUE))
  /\ \A c \in Client :
       /\ WF_vars(Request(c))
       /\ WF_vars(CheckTimeout(c))
       /\ WF_vars(SendEnds(c))
       /\ WF_vars(WaitTimeout(c))

FairSpec == Spec /\ Fairness

-----------------------------------------------------------------------------
(* Properties.                                                             *)

\* The variables have their types, and sessionnum counts the sessions in use, whoever
\* clears them and however many in a pass.
TypeOK ==
  /\ udpsessionuse \in [Session -> BOOLEAN]
  /\ sessionnum = Cardinality(InUse)
  /\ checkid \in [Session -> Checkid]
  /\ counted \in [Session -> SUBSET Round]
  /\ clientadd \in [Session -> Round \union {NoRound}]
  /\ at \in [Client -> {"request", "ask", "send", "wait", "done"}]
  /\ round \in [Client -> 0..(MaxRound - 1)]
  /\ checktime \in [Client -> 0..MAX_CHECK_TIME]
  /\ grant \in [Client -> [id : Session, checkid : Checkid]]
  /\ net \subseteq Message

\* A session that was given to a measurement counts no datagram of another measurement
\* of the same client, whatever comes late, and reports to no other: that is what
\* checkid is for.  Two clients with the same checkid it does not keep apart.
RoundsApart ==
  \A i \in InUse :
    /\ \A r \in counted[i] : r[2] + 1 = checkid[i]
    /\ counted[i] # {} => clientadd[i] \in counted[i]

\* A session that is in use is free again in the end, whatever is lost, also one that
\* a repeated request took and nobody uses, and one whose client has gone.
SessionComesBack == \A i \in Session : udpsessionuse[i] ~> ~udpsessionuse[i]

\* A measurement ends, whatever is lost.
RoundEnds ==
  \A c \in Client : \A k \in 0..(MaxRound - 1) :
    round[c] = k ~> round[c] # k \/ at[c] = "done"
=============================================================================
