-------------------------------- MODULE MCNet -------------------------------
(***************************************************************************)
(* Small instances of the parts of pnos-net that share no state, and of    *)
(* pnos-bench, for TLC.  As in MCComm one run checks them side by side:    *)
(* each behaviour is of one part, the one named by "part", and leaves the  *)
(* others at their start.                                                  *)
(***************************************************************************)
EXTENDS DualDial, HolePunch, Reach, NatState, NatMetrics, PortProtocols, Ipv6, Stun, NodeDiscovery,
        PeerCache, Bench

CONSTANTS k1, k2, k3, ha, hb, hc, w1, pmp1, pmp2, pcp1, s1, s2, a1, a2, n1, n2

VARIABLE part

\* The first and the last connection are dialled by Low, the second by High.
MCDialer == [k \in Conn |-> IF k = k2 THEN High ELSE Low]

MCPunch == {<<ha, hb>>, <<hb, ha>>, <<ha, hc>>}

MCRecorder == <<[ok |-> TRUE, ms |-> 3], [ok |-> FALSE, ms |-> 1], [ok |-> TRUE, ms |-> 2]>>
MCChecker == <<TRUE>>
MCProvider == {[name |-> "a", priority |-> 1], [name |-> "b", priority |-> 2]}

MCSpeaks == [c \in Asker |-> IF c = pcp1 THEN "pcp" ELSE "pmp"]

MCCandidate == {<<>>, <<"v4">>, <<"v6">>, <<"v4", "v6">>, <<"v6", "v4">>}

Entry(h, brackets, p, pad, site) ==
  [host |-> h, bracket |-> brackets, port |-> p, padded |-> pad, to |-> site]

MCConfigured ==
  {<<Entry("v4", FALSE, "good", FALSE, s1), Entry("v4", FALSE, "good", FALSE, s1),
     Entry("v6", TRUE, "good", FALSE, s2)>>,
   <<Entry("v4", FALSE, "good", TRUE, s1), Entry("name", FALSE, "good", FALSE, s2)>>,
   <<Entry("name", FALSE, "none", FALSE, s1), Entry("v6", FALSE, "good", FALSE, s2)>>,
   <<Entry("name", FALSE, "bad", FALSE, s1), Entry("v4", FALSE, "none", FALSE, s2),
     Entry("", FALSE, "none", FALSE, s1)>>}

MCList == CHOOSE list \in MCConfigured : Len(list) = 3

MCKindOf == [e \in PeerAddr |-> IF e = a1 THEN "Lan" ELSE "Public"]

\* What only one part chooses at its start is fixed for the others.
MCInit ==
  /\ HPInit /\ NSInit /\ MXInit /\ PPInit /\ IVInit /\ SUInit
  /\ Init /\ RCInit /\ NDInit /\ PKInit /\ BNInit
  /\ part \in {"punch", "state", "metrics", "providers", "ports", "ipv6", "stun",
              "dual", "reach", "lpd", "mqtt", "peers", "bench"}
  /\ part # "ipv6" => v6on /\ v6first
  /\ part # "stun" => <<endpoints, fallback, bind, natKind>> = <<MCList, FALSE, "any", "none">>
  /\ part # "lpd" => route = NoIface
  /\ part # "bench" => udp
  /\ part # "reach" => fitted = Kinds

natvars == <<hpvars, nsvars, mxvars, ppvars, ivvars, suvars>>
peervars == <<vars, rcvars, ndvars, pkvars, bnvars>>

NatPart ==
  \/ /\ part = "punch" /\ HPNext
     /\ UNCHANGED <<nsvars, mxvars, ppvars, ivvars, suvars>>
  \/ /\ part = "state" /\ NSNext
     /\ UNCHANGED <<hpvars, mxvars, ppvars, ivvars, suvars>>
  \/ /\ part = "metrics" /\ MetricsNext
     /\ UNCHANGED <<hpvars, nsvars, ppvars, ivvars, suvars>>
  \/ /\ part = "providers" /\ ProvidersNext
     /\ UNCHANGED <<hpvars, nsvars, ppvars, ivvars, suvars>>
  \/ /\ part = "ports" /\ PPNext
     /\ UNCHANGED <<hpvars, nsvars, mxvars, ivvars, suvars>>
  \/ /\ part = "ipv6" /\ IVNext
     /\ UNCHANGED <<hpvars, nsvars, mxvars, ppvars, suvars>>
  \/ /\ part = "stun" /\ SUNext
     /\ UNCHANGED <<hpvars, nsvars, mxvars, ppvars, ivvars>>

PeerPart ==
  \/ /\ part = "dual" /\ Next
     /\ UNCHANGED <<rcvars, ndvars, pkvars, bnvars>>
  \/ /\ part = "reach" /\ RCNext
     /\ UNCHANGED <<vars, ndvars, pkvars, bnvars>>
  \/ /\ part = "lpd" /\ (Tick \/ LpdNext \/ DiscoveryShutdown)
     /\ UNCHANGED <<vars, rcvars, pkvars, bnvars>>
  \/ /\ part = "mqtt" /\ (MqttNext \/ DiscoveryShutdown)
     /\ UNCHANGED <<vars, rcvars, pkvars, bnvars>>
  \/ /\ part = "peers" /\ PKNext
     /\ UNCHANGED <<vars, rcvars, ndvars, bnvars>>
  \/ /\ part = "bench" /\ BNNext
     /\ UNCHANGED <<vars, rcvars, ndvars, pkvars>>

MCNext ==
  /\ UNCHANGED part
  /\ \/ NatPart /\ UNCHANGED peervars
     \/ PeerPart /\ UNCHANGED natvars

mcvars == <<part, natvars, peervars>>

\* Before its first step no part has a fair action enabled.
MCSpec == MCInit /\ [][MCNext]_mcvars /\ Fairness /\ RCFairness /\ BNFairness

\* The safety of the NAT modules.
NatSafe ==
  /\ HPTypeOK /\ HolesAreMutual /\ HoleIsUsed /\ PunchesCounted
  /\ NSTypeOK /\ HistoryTells /\ ReportsAddUp
  /\ WindowAddsUp /\ SummaryCovers /\ RecordsAgree /\ ProvidersSorted
  /\ PPTypeOK /\ PmpTellsTheGate /\ RefusalsAreSeen
  /\ PickIsReachable
  /\ SUTypeOK /\ ConeIsNoGuess /\ StrictStaysOffSystem

\* The safety of what finds and reaches peers, and of the load generator.
ReachSafe ==
  /\ RCTypeOK /\ FailsOnlyAfterAll /\ StatsTellResults
  /\ NDTypeOK /\ OncePerWindow /\ IfaceFollows /\ BrokersAreTried
  /\ PKTypeOK /\ FailuresInARow /\ BestAreKept
  /\ BNTypeOK /\ ReportAddsUp
=============================================================================
