----------------------------- MODULE DhcpLease -----------------------------
(***************************************************************************)
(* DhcpClass (Ethernet/src/Dhcp.cpp) with Ethernet.begin(mac) and          *)
(* Ethernet.maintain() (Ethernet.cpp): getting a lease, counting its       *)
(* timers down from millis(), renewing and rebinding it.                   *)
(*                                                                         *)
(* Servers answer with any message at any time, or not at all; a message   *)
(* is ignored unless its transaction id and hardware address fit (lines    *)
(* 253-261).  The request loop gives up when _timeout has passed, which    *)
(* can happen after any of its rounds (line 103).  An address is named by  *)
(* the server that gives it.                                               *)
(***************************************************************************)
EXTENDS Naturals

CONSTANTS Server, None,
          LeaseOpts, T1Opts, T2Opts,  \* option values in seconds, 0 for absent
          DEFAULT_LEASE,              \* used when no server names a lease time
          TICKS,                      \* clock ticks in a second
          CLOCKMOD,                   \* millis() wraps (2^32)
          MaxGap,                     \* bound on the ticks between two maintain()
          SocketsRunOut               \* whether a UDP socket may be refused

ASSUME DhcpAssumption ==
  /\ TICKS \in Nat \ {0} /\ MaxGap \in Nat /\ MaxGap < CLOCKMOD /\ CLOCKMOD \in Nat
  /\ LeaseOpts \subseteq Nat /\ T1Opts \subseteq Nat /\ T2Opts \subseteq Nat
  /\ DEFAULT_LEASE \in Nat \ {0} /\ None \notin Server

VARIABLES dhcp_state,               \* _dhcp_state
          leaseTime, T1, T2,        \* _dhcpLeaseTime, _dhcpT1, _dhcpT2
          renewInSec, rebindInSec,
          localIp, serverIp,        \* _dhcpLocalIp, _dhcpDhcpServerIp
          chipIp,                   \* the address the chip uses
          now, last,                \* millis(), _lastCheckLeaseMillis
          pc, rcBase, rc,           \* the call in progress, what it returned
          acked, age                \* history: last ACK's address, ticks since

leaseVars == <<leaseTime, T1, T2, renewInSec, rebindInSec>>
addrVars == <<localIp, serverIp>>
timeVars == <<now, last, age>>
vars == <<dhcp_state, leaseVars, addrVars, chipIp, timeVars, pc, rcBase, rc, acked>>

State == {"START", "DISCOVER", "REQUEST", "LEASED", "REREQUEST"}
Message == [type : {"OFFER", "ACK", "NAK"}, from : Server,
            lease : LeaseOpts, t1 : T1Opts, t2 : T2Opts]
gap == (now + CLOCKMOD - last) % CLOCKMOD

Init == /\ dhcp_state = "START"
        /\ leaseTime = 0 /\ T1 = 0 /\ T2 = 0 /\ renewInSec = 0 /\ rebindInSec = 0
        /\ localIp = None /\ serverIp = None /\ chipIp = None
        /\ now = 0 /\ last = 0 /\ age = 0
        /\ pc = "off" /\ rcBase = 0 /\ rc = 0 /\ acked = None
-----------------------------------------------------------------------------
\* Between calls.
Tick == /\ pc = "idle" /\ gap < MaxGap
        /\ now' = (now + 1) % CLOCKMOD
        /\ age' = IF dhcp_state = "LEASED" THEN age + 1 ELSE age
        /\ UNCHANGED <<dhcp_state, leaseVars, addrVars, chipIp, last, pc, rcBase, rc, acked>>

\* Ethernet.begin(mac): beginWithDHCP forgets everything and asks.
Begin == /\ pc \in {"off", "idle"}
         /\ leaseTime' = 0 /\ T1' = 0 /\ T2' = 0
         /\ localIp' = None /\ serverIp' = None /\ chipIp' = None
         /\ dhcp_state' = "START"
         /\ pc' = "open" /\ rcBase' = 0
         /\ UNCHANGED <<renewInSec, rebindInSec, timeVars, rc, acked>>

\* checkLease.  A counter that would pass zero before the call after this
\* one, calls coming at the present pace, is taken to be zero.
CountDown(n, elapsed) == IF n < elapsed * 2 THEN 0 ELSE n - elapsed

\* The second half of checkLease, after a renewal or without one.
CheckRebind(rebind, state, newRc) ==
  IF rebind = 0 /\ state \in {"LEASED", "START"}
  THEN /\ dhcp_state' = "START" /\ localIp' = None /\ serverIp' = None
       /\ pc' = "open" /\ rcBase' = 3 /\ UNCHANGED rc
  ELSE /\ dhcp_state' = state /\ UNCHANGED addrVars
       /\ pc' = "idle" /\ rc' = newRc /\ UNCHANGED rcBase

\* Mutant: the part of a second that is not counted is dropped.
MaintainDropsRest ==
  /\ pc = "idle"
  /\ LET secs == gap \div TICKS
         renew == IF secs > 0 THEN CountDown(renewInSec, secs) ELSE renewInSec
         rebind == IF secs > 0 THEN CountDown(rebindInSec, secs) ELSE rebindInSec
     IN /\ renewInSec' = renew /\ rebindInSec' = rebind
        /\ last' = IF secs > 0 THEN now ELSE last
        /\ IF renew = 0 /\ dhcp_state = "LEASED"
           THEN /\ dhcp_state' = "REREQUEST" /\ pc' = "open" /\ rcBase' = 1
                /\ UNCHANGED <<addrVars, rc>>
           ELSE CheckRebind(rebind, dhcp_state, 0)
  /\ UNCHANGED <<leaseTime, T1, T2, chipIp, now, age, acked>>

Maintain ==
  /\ pc = "idle"
  /\ LET secs == gap \div TICKS
         renew == IF secs > 0 THEN CountDown(renewInSec, secs) ELSE renewInSec
         rebind == IF secs > 0 THEN CountDown(rebindInSec, secs) ELSE rebindInSec
     IN /\ renewInSec' = renew /\ rebindInSec' = rebind
        /\ last' = IF secs > 0 THEN (now + CLOCKMOD - (gap % TICKS)) % CLOCKMOD ELSE last
        /\ IF renew = 0 /\ dhcp_state = "LEASED"
           THEN /\ dhcp_state' = "REREQUEST" /\ pc' = "open" /\ rcBase' = 1
                /\ UNCHANGED <<addrVars, rc>>
           ELSE CheckRebind(rebind, dhcp_state, 0)
  /\ UNCHANGED <<leaseTime, T1, T2, chipIp, now, age, acked>>
-----------------------------------------------------------------------------
(* request_DHCP_lease. *)

\* All sockets in use: back at once, in the state the caller set.
OpenFails == /\ pc = "open" /\ SocketsRunOut
             /\ UNCHANGED <<leaseVars, acked, timeVars, chipIp>>
             /\ IF rcBase = 1 THEN CheckRebind(rebindInSec, dhcp_state, 1)
                ELSE /\ pc' = "idle" /\ rc' = rcBase
                     /\ UNCHANGED <<rcBase, dhcp_state, addrVars>>

OpenOk == /\ pc = "open" /\ pc' = "loop"
          /\ UNCHANGED <<dhcp_state, leaseVars, addrVars, chipIp, timeVars, rcBase, rc, acked>>

Send == /\ pc = "loop" /\ dhcp_state \in {"START", "REREQUEST"}
        /\ dhcp_state' = IF dhcp_state = "START" THEN "DISCOVER" ELSE "REQUEST"
        /\ pc' = "check"
        /\ UNCHANGED <<leaseVars, addrVars, chipIp, timeVars, rcBase, rc, acked>>

\* No packet within _responseTimeout: start over.
NoAnswer == /\ pc = "loop" /\ dhcp_state \in {"DISCOVER", "REQUEST"}
            /\ dhcp_state' = "START"
            /\ pc' = "check"
            /\ UNCHANGED <<leaseVars, addrVars, chipIp, timeVars, rcBase, rc, acked>>

\* A packet that is not for us.
Ignored == /\ pc = "loop" /\ dhcp_state \in {"DISCOVER", "REQUEST"}
           /\ pc' = "check"
           /\ UNCHANGED <<dhcp_state, leaseVars, addrVars, chipIp, timeVars, rcBase, rc, acked>>

\* parseDHCPResponse stores whatever the message brings, whatever its type.
Parse(m) == /\ localIp' = IF m.type = "NAK" THEN None ELSE m.from
            /\ serverIp' = IF serverIp \in {None, m.from} THEN m.from ELSE serverIp

Option(new, old) == IF new = 0 THEN old ELSE new

\* Mutant: the chip is given every address that is parsed.
AnswerConfigures(m) ==
  /\ pc = "loop" /\ dhcp_state \in {"DISCOVER", "REQUEST"}
  /\ ~(dhcp_state = "REQUEST" /\ m.type = "ACK")
  /\ Parse(m) /\ chipIp' = localIp'
  /\ leaseTime' = Option(m.lease, leaseTime)
  /\ T1' = Option(m.t1, T1) /\ T2' = Option(m.t2, T2)
  /\ renewInSec' = Option(m.lease, renewInSec)
  /\ dhcp_state' = CASE dhcp_state = "DISCOVER" /\ m.type = "OFFER" -> "REQUEST"
                     [] dhcp_state = "REQUEST" /\ m.type = "NAK" -> "START"
                     [] OTHER -> dhcp_state
  /\ pc' = "check"
  /\ UNCHANGED <<rebindInSec, timeVars, rcBase, rc, acked>>

\* Every answer but the ACK that is waited for.
Answer(m) ==
  /\ pc = "loop" /\ dhcp_state \in {"DISCOVER", "REQUEST"}
  /\ ~(dhcp_state = "REQUEST" /\ m.type = "ACK")
  /\ Parse(m)
  /\ leaseTime' = Option(m.lease, leaseTime)
  /\ T1' = Option(m.t1, T1) /\ T2' = Option(m.t2, T2)
  /\ renewInSec' = Option(m.lease, renewInSec)
  /\ dhcp_state' = CASE dhcp_state = "DISCOVER" /\ m.type = "OFFER" -> "REQUEST"
                     [] dhcp_state = "REQUEST" /\ m.type = "NAK" -> "START"
                     [] OTHER -> dhcp_state
  /\ pc' = "check"
  /\ UNCHANGED <<rebindInSec, chipIp, timeVars, rcBase, rc, acked>>

\* Mutant: the renewal is counted to T2.
AckCountsToT2(m) ==
  /\ pc = "loop" /\ dhcp_state = "REQUEST" /\ m.type = "ACK"
  /\ Parse(m)
  /\ leaseTime' = IF m.lease = 0 /\ leaseTime = 0 THEN DEFAULT_LEASE
                  ELSE Option(m.lease, leaseTime)
  /\ T1' = IF m.t1 = 0 /\ T1 = 0 THEN leaseTime' \div 2 ELSE Option(m.t1, T1)
  /\ T2' = IF m.t2 = 0 /\ T2 = 0 THEN leaseTime' - leaseTime' \div 8 ELSE Option(m.t2, T2)
  /\ renewInSec' = T2' /\ rebindInSec' = T2'
  /\ dhcp_state' = "LEASED"
  /\ acked' = m.from /\ age' = 0 /\ last' = now
  /\ chipIp' = m.from
  /\ pc' = "idle" /\ rc' = rcBase + 1
  /\ UNCHANGED <<now, rcBase>>

\* The lease: missing times are computed, the counters are set, and
\* Ethernet.begin or maintain gives the chip its address.
Ack(m) ==
  /\ pc = "loop" /\ dhcp_state = "REQUEST" /\ m.type = "ACK"
  /\ Parse(m)
  /\ leaseTime' = IF m.lease = 0 /\ leaseTime = 0 THEN DEFAULT_LEASE
                  ELSE Option(m.lease, leaseTime)
  /\ T1' = IF m.t1 = 0 /\ T1 = 0 THEN leaseTime' \div 2 ELSE Option(m.t1, T1)
  /\ T2' = IF m.t2 = 0 /\ T2 = 0 THEN leaseTime' - leaseTime' \div 8 ELSE Option(m.t2, T2)
  /\ renewInSec' = T1' /\ rebindInSec' = T2'
  /\ dhcp_state' = "LEASED"
  /\ acked' = m.from /\ age' = 0 /\ last' = now
  /\ chipIp' = m.from
  /\ pc' = "idle" /\ rc' = rcBase + 1
  /\ UNCHANGED <<now, rcBase>>

Again == /\ pc = "check" /\ pc' = "loop"
         /\ UNCHANGED <<dhcp_state, leaseVars, addrVars, chipIp, timeVars, rcBase, rc, acked>>

\* _timeout has passed: return 0 in whatever state the loop is in.
GiveUp == /\ pc = "check"
          /\ last' = now
          /\ IF rcBase = 1 THEN CheckRebind(rebindInSec, dhcp_state, 1)
             ELSE /\ pc' = "idle" /\ rc' = rcBase
                  /\ UNCHANGED <<rcBase, dhcp_state, addrVars>>
          /\ UNCHANGED <<leaseVars, chipIp, now, age, acked>>
-----------------------------------------------------------------------------
Request == \/ OpenOk \/ OpenFails \/ Send \/ NoAnswer \/ Ignored \/ Again \/ GiveUp
           \/ \E m \in Message : Answer(m) \/ Ack(m)
Next == Tick \/ Begin \/ Maintain \/ Request
Spec == Init /\ [][Next]_vars

\* The clock runs, the sketch calls maintain(), and a request comes to its end.
FairSpec == /\ Spec /\ WF_vars(Tick) /\ SF_vars(Maintain)
            /\ WF_vars(Request) /\ SF_vars(GiveUp)
-----------------------------------------------------------------------------
(* Properties. *)

Sec == 0..100
TypeOK == /\ dhcp_state \in State
          /\ leaseTime \in Sec /\ T1 \in Sec /\ T2 \in Sec
          /\ renewInSec \in Sec /\ rebindInSec \in Sec
          /\ {localIp, serverIp, chipIp, acked} \subseteq Server \cup {None}
          /\ now \in 0..(CLOCKMOD - 1) /\ last \in 0..(CLOCKMOD - 1) /\ age \in Nat
          /\ pc \in {"off", "idle", "open", "loop", "check"}
          /\ rcBase \in {0, 1, 3} /\ rc \in 0..4

\* The chip never uses an address that no server has acknowledged, although
\* every message that arrives overwrites _dhcpLocalIp: an offer, a late answer
\* of another server or a refusal leaves the chip's address alone.
ChipUsesAcked == chipIp \in {None, acked}

\* Between calls of a lease the counters are exact: the remainder of a second
\* that a call does not count (line 362) is not lost, across the wrap of
\* millis() and for any pattern of calls.
NoDrift == dhcp_state = "LEASED" /\ pc = "idle" =>
  /\ renewInSec > 0 => renewInSec * TICKS + (age - gap) = T1 * TICKS
  /\ rebindInSec > 0 => rebindInSec * TICKS + (age - gap) = T2 * TICKS

\* A maintain() that does nothing finds the lease younger than T1: a sketch that
\* calls it renews at T1, never after it, for all its rounding.
RenewsByT1 ==
  [][Maintain /\ dhcp_state = "LEASED" /\ pc' = "idle" => age \div TICKS < T1]_vars

(* Not true of this code (README, known disagreements). *)

\* "this is actually an error, it will retry though" (Ethernet.cpp, line 149):
\* after a failed renewal or rebind, another request follows.
RetriesAfterFailure == pc = "idle" /\ rc \in {1, 3} /\ rcBase # 0 ~> pc = "open"

\* "T1 should be 50% of _dhcpLeaseTime" when no server names it (Dhcp.cpp, 84).
T1WithinLease == dhcp_state = "LEASED" => T1 <= leaseTime
=============================================================================
