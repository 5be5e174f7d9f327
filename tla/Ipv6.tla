-------------------------------- MODULE Ipv6 --------------------------------
(***************************************************************************)
(* The IPv6 manager (pnos-net: nat/ipv6.rs): what it finds out about the   *)
(* interfaces, and the address it picks among candidates.  Connectivity    *)
(* and address have a lock each.  The interfaces are external.             *)
(***************************************************************************)
EXTENDS Naturals, Sequences, SequencesExt, FiniteSets

CONSTANTS
  Windows,         \* the build; on the others the searches find nothing
  Candidate,       \* lists for select_best_address(): sequences of "v4" and "v6" addresses
  MaxDetect        \* detections

ASSUME WindowsBool == Windows \in BOOLEAN
ASSUME DetectNat == MaxDetect \in Nat
ASSUME CandidatesAreLists == Candidate \subseteq Seq({"v4", "v6"})

VARIABLES
  v6on, v6first,   \* Ipv6Config::enabled and prefer_ipv6
  faces,           \* the kinds of addresses the interfaces have now
  connectivity, globalAddr,  \* Ipv6Manager
  detecting,       \* "no", or where detect_connectivity() stands between its two writes
  detections,
  found,           \* history: the kinds of addresses there were at the last detection
  picked           \* the last selection: [from, addr, by]

ivvars == <<v6on, v6first, faces, connectivity, globalAddr, detecting, detections, found, picked>>

FaceKind == {"global", "ula", "link"}
NoPick == [from |-> <<>>, addr |-> "none", by |-> FALSE]

IVInit ==
  /\ v6on \in BOOLEAN /\ v6first \in BOOLEAN /\ faces = {}
  /\ connectivity = "unknown" /\ globalAddr = FALSE /\ detecting = "no"
  /\ detections = 0 /\ found = {} /\ picked = NoPick

FacesChange ==
  /\ detecting = "no" /\ \E f \in SUBSET FaceKind : f # faces /\ faces' = f
  /\ UNCHANGED <<v6on, v6first, connectivity, globalAddr, detecting, detections, found, picked>>

\* The three searches: the output of ipconfig on Windows, nothing elsewhere.
FindGlobal == Windows /\ "global" \in faces
HasUla == Windows /\ "ula" \in faces
HasLinkLocal == Windows /\ "link" \in faces

Best ==
  IF ~v6on THEN "no_ipv6"
  ELSE IF FindGlobal THEN "global"
  ELSE IF HasUla THEN "ula_only"
  ELSE IF HasLinkLocal THEN "link_local_only" ELSE "no_ipv6"

\* detect_connectivity(), one at a time; the searches are taken as one moment.  The
\* address is written first, and never taken back.
Detect ==
  /\ detecting = "no" /\ detections < MaxDetect /\ detections' = detections + 1
  /\ found' = faces /\ detecting' = Best /\ globalAddr' = (globalAddr \/ Best = "global")
  /\ UNCHANGED <<v6on, v6first, faces, connectivity, picked>>

Detected ==
  /\ detecting # "no" /\ detecting' = "no" /\ connectivity' = detecting
  /\ UNCHANGED <<v6on, v6first, faces, globalAddr, detections, found, picked>>

First(list, kind) == IF \E i \in DOMAIN list : list[i] = kind THEN kind ELSE "none"

\* select_best_address(): the first IPv6 address, the first IPv4 address, whatever is left.
Select(list) ==
  /\ list \in Candidate
  /\ LET six == v6first /\ connectivity = "global" /\ First(list, "v6") # "none"
     IN picked' = [from |-> list, by |-> connectivity = "global",
          addr |-> IF six THEN "v6"
                   ELSE IF First(list, "v4") # "none" THEN "v4" ELSE First(list, "v6")]
  /\ UNCHANGED <<v6on, v6first, faces, connectivity, globalAddr, detecting, detections, found>>

IVNext == FacesChange \/ Detect \/ Detected \/ \E list \in Candidate : Select(list)

IVSpec == IVInit /\ [][IVNext]_ivvars

-----------------------------------------------------------------------------

\* IPv6 is preferred only when the last detection saw a global address, an IPv4 address
\* is taken as long as there is one otherwise, and no candidate is thrown away.
PickIsReachable ==
  /\ picked.from # <<>> => picked.addr # "none"
  /\ picked.addr = "v6" /\ First(picked.from, "v4") # "none" => v6first /\ picked.by
  /\ detecting = "no" /\ connectivity = "global" => "global" \in found /\ globalAddr

\* "the global IPv6 address" (ipv6.rs:299): it is kept after the address has gone.
AddressIsCurrent == detecting = "no" /\ globalAddr => connectivity = "global"
=============================================================================
