--------------------------- MODULE DevicesProofs ---------------------------
(***************************************************************************)
(* For any number of ids, modems and events: no two devices have one VPCD  *)
(* port (PortsApart).                                                      *)
(*                                                                         *)
(* That a new device is given a port at all, and another one than its      *)
(* neighbour, is a matter of counting: there are as many ports as ids, a   *)
(* port is used only by a device that is there and has kept it, so there   *)
(* are free ports for all that have none, and the k-th of them exists for  *)
(* each k up to their number.                                              *)
(*                                                                         *)
(* Two programs write the file, each from a copy it made before: so the    *)
(* invariant is that the ports are apart in the file and in either copy.   *)
(***************************************************************************)
EXTENDS Devices, FiniteSetTheorems, FunctionTheorems, TLAPS

AllPorts == 1 .. Cardinality(Ids)
Apart(f) ==
    /\ f \in [Ids -> AllPorts \cup {0}]
    /\ \A d, e \in Ids : d # e /\ f[d] # 0 => f[d] # f[e]

PInv ==
    /\ Apart(ports)
    /\ {"pc", "assigned"} \subseteq DOMAIN host /\ Apart(host.assigned)
    /\ {"pc", "ports"} \subseteq DOMAIN forget /\ Apart(forget.ports)

-----------------------------------------------------------------------------
(* The rank of an element in a finite set of numbers.                      *)
UpTo(S, x) == {y \in S : y <= x}
RankIn(S, x) == Cardinality(UpTo(S, x))

LEMMA RankType ==
    ASSUME NEW S \in SUBSET Nat, IsFiniteSet(S), NEW x \in S
    PROVE  RankIn(S, x) \in 1 .. Cardinality(S)
  <1>1. UpTo(S, x) \in SUBSET S /\ x \in UpTo(S, x)
    BY DEF UpTo
  <1>2. IsFiniteSet(UpTo(S, x)) /\ Cardinality(UpTo(S, x)) <= Cardinality(S)
    BY <1>1, FS_Subset
  <1>3. Cardinality(S) \in Nat /\ Cardinality(UpTo(S, x)) \in Nat
    BY <1>2, FS_CardinalityType
  <1>4. Cardinality(UpTo(S, x)) # 0
    BY <1>1, <1>2, FS_EmptySet
  <1> QED
    BY <1>2, <1>3, <1>4 DEF RankIn

(* Ranks grow strictly.                                                    *)
LEMMA RankGrows ==
    ASSUME NEW S \in SUBSET Nat, IsFiniteSet(S), NEW x \in S, NEW y \in S, x < y
    PROVE  RankIn(S, x) < RankIn(S, y)
  <1>1. UpTo(S, x) \in SUBSET UpTo(S, y) /\ UpTo(S, x) # UpTo(S, y)
    <2>1. y \in UpTo(S, y) /\ y \notin UpTo(S, x)
      BY DEF UpTo
    <2>2. \A z \in UpTo(S, x) : z \in UpTo(S, y)
      BY DEF UpTo
    <2> QED
      BY <2>1, <2>2
  <1>2. IsFiniteSet(UpTo(S, y))
    <2>1. UpTo(S, y) \in SUBSET S
      BY DEF UpTo
    <2> QED
      BY <2>1, FS_Subset
  <1>3. IsFiniteSet(UpTo(S, x)) /\ Cardinality(UpTo(S, x)) <= Cardinality(UpTo(S, y))
        /\ Cardinality(UpTo(S, x)) # Cardinality(UpTo(S, y))
    BY <1>1, <1>2, FS_Subset
  <1>4. Cardinality(UpTo(S, x)) \in Nat /\ Cardinality(UpTo(S, y)) \in Nat
    BY <1>2, <1>3, FS_CardinalityType
  <1> QED
    BY <1>3, <1>4 DEF RankIn

LEMMA RankTellsApart ==
    ASSUME NEW S \in SUBSET Nat, IsFiniteSet(S), NEW x \in S, NEW y \in S, x # y
    PROVE  RankIn(S, x) # RankIn(S, y)
  <1>1. RankIn(S, x) \in Nat /\ RankIn(S, y) \in Nat
    <2>1. RankIn(S, x) \in 1 .. Cardinality(S) /\ RankIn(S, y) \in 1 .. Cardinality(S)
      BY RankType
    <2>2. Cardinality(S) \in Nat
      BY FS_CardinalityType
    <2> QED
      BY <2>1, <2>2
  <1>2. x < y \/ y < x
    OBVIOUS
  <1> QED
    BY <1>1, <1>2, RankGrows

(* A set has an element of every rank up to its size.                      *)
LEMMA EveryRankTaken ==
    ASSUME NEW S \in SUBSET Nat, IsFiniteSet(S), NEW k \in 1 .. Cardinality(S)
    PROVE  \E x \in S : RankIn(S, x) = k
  <1> DEFINE T == 1 .. Cardinality(S)
             rank == [x \in S |-> RankIn(S, x)]
  <1>1. Cardinality(S) \in Nat
    BY FS_CardinalityType
  <1>2. IsFiniteSet(T) /\ Cardinality(T) = Cardinality(S)
    BY <1>1, FS_Interval
  <1>3. rank \in [S -> T]
    BY RankType
  <1>4. \A x, y \in S : rank[x] = rank[y] => x = y
    BY RankTellsApart
  <1>5. rank \in Injection(S, T)
    BY <1>3, <1>4 DEF Injection, IsInjective
  <1>6. rank \in Surjection(S, T)
    BY <1>2, <1>5, FS_Injection
  <1> QED
    BY <1>6 DEF Surjection

-----------------------------------------------------------------------------
(* The assignment of ports.                                                *)
LEMMA PortsEnough ==
    ASSUME Apart(ports)
    PROVE  /\ Free \in SUBSET Nat /\ IsFiniteSet(Free)
           /\ IsFiniteSet(Present \ Saved) /\ Present \ Saved \in SUBSET Nat
           /\ Cardinality(Present \ Saved) \in Nat /\ Cardinality(Free) \in Nat
           /\ Cardinality(Present \ Saved) <= Cardinality(Free)
  <1> DEFINE new == Present \ Saved
             kept == AllPorts \cap Used
             port == [d \in Saved |-> ports[d]]
  <1>1. IsFiniteSet(Ids) /\ Ids \subseteq Nat
    BY IdsAssumption
  <1>2. Cardinality(Ids) \in Nat
    BY <1>1, FS_CardinalityType
  <1>3. IsFiniteSet(AllPorts) /\ Cardinality(AllPorts) = Cardinality(Ids)
    BY <1>2, FS_Interval DEF AllPorts
  <1>4. Saved \in SUBSET Ids /\ new \in SUBSET (Ids \ Saved)
    BY DEF Saved, Present
  <1>5. IsFiniteSet(Saved) /\ Cardinality(Saved) \in Nat
    BY <1>1, <1>4, FS_Subset, FS_CardinalityType
  <1>6. IsFiniteSet(Used) /\ Cardinality(Used) <= Cardinality(Saved)
    <2>1. port \in Surjection(Saved, Used)
      BY DEF Used, Surjection
    <2> QED
      BY <2>1, <1>5, FS_Surjection
  <1>7. IsFiniteSet(kept) /\ Cardinality(kept) <= Cardinality(Used)
    BY <1>6, FS_Intersection
  <1>8. Cardinality(kept) \in Nat /\ Cardinality(Used) \in Nat
    BY <1>6, <1>7, FS_CardinalityType
  <1>9. IsFiniteSet(Free) /\ Cardinality(Free) = Cardinality(Ids) - Cardinality(kept)
    BY <1>3, FS_Difference DEF Free, AllPorts
  <1>10. IsFiniteSet(Ids \ Saved) /\ Cardinality(Ids \ Saved) = Cardinality(Ids) - Cardinality(Saved)
    <2>1. Ids \cap Saved = Saved
      BY <1>4
    <2> QED
      BY <1>1, <2>1, FS_Difference
  <1>11. IsFiniteSet(new) /\ Cardinality(new) <= Cardinality(Ids \ Saved)
    BY <1>4, <1>10, FS_Subset
  <1>12. Cardinality(new) \in Nat /\ Cardinality(Free) \in Nat
    BY <1>9, <1>11, FS_CardinalityType
  <1>13. Free \in SUBSET Nat /\ new \in SUBSET Nat
    <2>1. \A p \in Free : p \in Nat
      BY <1>2 DEF Free
    <2>2. \A d \in new : d \in Nat
      BY <1>1, <1>4
    <2> QED
      BY <2>1, <2>2
  <1> QED
    BY <1>2, <1>5, <1>6, <1>7, <1>8, <1>9, <1>10, <1>11, <1>12, <1>13

(* A device without a port gets the free port of its rank.                 *)
LEMMA NewPort ==
    ASSUME Apart(ports), NEW d \in Present \ Saved
    PROVE  /\ Rank(d) = RankIn(Present \ Saved, d)
           /\ NextFree(Rank(d)) \in Free
           /\ RankIn(Free, NextFree(Rank(d))) = Rank(d)
  <1>1. Rank(d) = RankIn(Present \ Saved, d)
    BY DEF Rank, RankIn, UpTo
  <1>2. Rank(d) \in 1 .. Cardinality(Present \ Saved)
    BY <1>1, PortsEnough, RankType
  <1>3. Rank(d) \in 1 .. Cardinality(Free)
    BY <1>2, PortsEnough
  <1>4. \E p \in Free : RankIn(Free, p) = Rank(d)
    BY <1>3, PortsEnough, EveryRankTaken
  <1>5. NextFree(Rank(d)) = CHOOSE p \in Free : RankIn(Free, p) = Rank(d)
    BY DEF NextFree, RankIn, UpTo
  <1> QED
    BY <1>1, <1>4, <1>5

LEMMA AssignedApart ==
    ASSUME Apart(ports)
    PROVE  Apart(Assigned)
  <1>1. \A d \in Ids : d \in Saved => Assigned[d] = ports[d] /\ ports[d] \in Used
    BY DEF Assigned, Saved, Used
  <1>2. \A d \in Ids : d \in Present \ Saved => Assigned[d] = NextFree(Rank(d)) /\ Assigned[d] \in Free
    BY NewPort DEF Assigned
  <1>3. \A d \in Ids : d \notin Present => Assigned[d] = 0
    BY DEF Assigned
  <1>4. Free \subseteq AllPorts \ Used
    BY DEF Free, AllPorts
  <1>5. Assigned \in [Ids -> AllPorts \cup {0}]
    <2>1. Assigned = [d \in Ids |-> Assigned[d]]
      BY DEF Assigned
    <2>2. \A d \in Ids : Assigned[d] \in AllPorts \cup {0}
      BY <1>1, <1>2, <1>3, <1>4 DEF Apart
    <2> QED
      BY <2>1, <2>2
  <1>6. ASSUME NEW d \in Ids, NEW e \in Ids, d # e, Assigned[d] # 0
        PROVE  Assigned[d] # Assigned[e]
    <2>1. CASE d \in Saved /\ e \in Saved
      BY <1>1, <1>6, <2>1 DEF Apart
    <2>2. CASE d \in Saved /\ e \in Present \ Saved
      BY <1>1, <1>2, <1>4, <2>2
    <2>3. CASE d \in Present \ Saved /\ e \in Saved
      BY <1>1, <1>2, <1>4, <2>3
    <2>4. CASE d \in Present \ Saved /\ e \in Present \ Saved
      <3>1. RankIn(Present \ Saved, d) # RankIn(Present \ Saved, e)
        BY <1>6, <2>4, PortsEnough, RankTellsApart
      <3> QED
        BY <1>2, <2>4, <3>1, NewPort
    <2>5. CASE d \notin Present \/ e \notin Present
      BY <1>3, <1>6, <2>5
    <2> QED
      BY <2>1, <2>2, <2>3, <2>4, <2>5
  <1> QED
    BY <1>5, <1>6 DEF Apart

(* No ports, a port that is given up, and one that goes with a modem to a  *)
(* new id.                                                                 *)
LEMMA NoneApart == Apart(NoPorts)
  BY DEF Apart, NoPorts

LEMMA ForgottenApart ==
    ASSUME NEW f, Apart(f), NEW d
    PROVE  Apart([f EXCEPT ![d] = 0])
  BY DEF Apart

LEMMA MovedApart ==
    ASSUME NEW f, Apart(f), NEW old \in Ids, NEW new \in Ids, f[old] # 0, f[new] = 0
    PROVE  Apart([f EXCEPT ![new] = f[old], ![old] = 0])
  BY DEF Apart

(* What an empty cycle, and an empty request, have of ports.               *)
LEMMA EmptyCopies ==
    /\ {"pc", "assigned"} \subseteq DOMAIN AtRest /\ AtRest.assigned = NoPorts
    /\ {"pc", "ports"} \subseteq DOMAIN NoForget /\ NoForget.ports = NoPorts
  BY DEF AtRest, NoForget

-----------------------------------------------------------------------------
LEMMA HostApart ==
    ASSUME PInv, Host, UNCHANGED forget
    PROVE  PInv'
  <1> USE DEF PInv
  <1> SUFFICES /\ Apart(ports)'
               /\ {"pc", "assigned"} \subseteq DOMAIN host' /\ Apart(host'.assigned)
    BY DEF Apart
  <1>1. CASE HostLooks
    <2>1. ports' = ports /\ host'.assigned = NoPorts /\ {"pc", "assigned"} \subseteq DOMAIN host'
      BY <1>1, EmptyCopies DEF HostLooks, fileVars
    <2> QED
      BY <2>1, NoneApart DEF Apart
  <1>2. CASE HostPlans
    <2>1. /\ ports' = ports /\ host'.assigned \in {ports, NoPorts}
          /\ {"pc", "assigned"} \subseteq DOMAIN host'
      BY <1>2 DEF HostPlans
    <2> QED
      BY <2>1, NoneApart DEF Apart
  <1>3. CASE HostSwitches
    <2>1. ports' = ports /\ host'.assigned = NoPorts /\ {"pc", "assigned"} \subseteq DOMAIN host'
      BY <1>3 DEF HostSwitches
    <2> QED
      BY <2>1, NoneApart DEF Apart
  <1>4. CASE HostFailsToSwitch
    <2>1. ports' = ports /\ host'.assigned = NoPorts /\ {"pc", "assigned"} \subseteq DOMAIN host'
      BY <1>4, EmptyCopies DEF HostFailsToSwitch
    <2> QED
      BY <2>1, NoneApart DEF Apart
  <1>5. CASE HostTunes
    <2>1. /\ ports' = ports /\ host'.assigned = host.assigned
          /\ {"pc", "assigned"} \subseteq DOMAIN host'
      BY <1>5 DEF HostTunes, fileVars
    <2> QED
      BY <2>1 DEF Apart
  <1>6. CASE HostReconciles
    <2>1. /\ ports' = ports /\ host'.assigned = Assigned
          /\ {"pc", "assigned"} \subseteq DOMAIN host'
      BY <1>6 DEF HostReconciles, fileVars
    <2> QED
      BY <2>1, AssignedApart DEF Apart
  <1>7. CASE HostConcludes
    <2>1. /\ ports' = host.assigned /\ host'.assigned = NoPorts
          /\ {"pc", "assigned"} \subseteq DOMAIN host'
      BY <1>7, EmptyCopies DEF HostConcludes
    <2> QED
      BY <2>1, NoneApart DEF Apart
  <1>8. CASE \E new \in Ids : HostKeeps(new)
    <2>1. /\ ports' = ports /\ host'.assigned = host.assigned
          /\ {"pc", "assigned"} \subseteq DOMAIN host'
      BY <1>8 DEF HostKeeps, fileVars
    <2> QED
      BY <2>1 DEF Apart
  <1>9. CASE \E new, old \in Ids : HostFolds(old, new)
    <2>1. PICK new \in Ids, old \in Ids : HostFolds(old, new)
      BY <1>9
    <2>2. host'.assigned = host.assigned /\ {"pc", "assigned"} \subseteq DOMAIN host'
      BY <2>1 DEF HostFolds
    <2>3. CASE ports[old] # 0 /\ ports[new] = 0
      <3>1. ports' = [ports EXCEPT ![new] = ports[old], ![old] = 0]
        BY <2>1, <2>3 DEF HostFolds
      <3> QED
        BY <2>2, <2>3, <3>1, MovedApart DEF Apart
    <2>4. CASE ~(ports[old] # 0 /\ ports[new] = 0)
      <3>1. ports' = ports
        BY <2>1, <2>4 DEF HostFolds
      <3> QED
        BY <2>2, <3>1 DEF Apart
    <2> QED
      BY <2>3, <2>4
  <1> QED
    BY <1>1, <1>2, <1>3, <1>4, <1>5, <1>6, <1>7, <1>8, <1>9 DEF Host

(* A step that leaves the file and both copies alone.                      *)
LEMMA SamePorts ==
    ASSUME PInv, UNCHANGED <<ports, host, forget>>
    PROVE  PInv'
  BY DEF PInv, Apart

LEMMA MachineApart ==
    ASSUME PInv, Machine
    PROVE  PInv'
  <1>1. UNCHANGED forget
    BY DEF Machine
  <1>2. CASE Host
    BY <1>1, <1>2, HostApart
  <1>3. CASE HostRestarts
    <2>1. ports' = ports /\ host' = AtRest
      BY <1>3 DEF HostRestarts
    <2> QED
      BY <1>1, <2>1, NoneApart, EmptyCopies DEF PInv, Apart
  <1>4. CASE ModemManagerDies
    BY <1>1, <1>4, SamePorts DEF ModemManagerDies, fileVars
  <1>5. CASE \E d \in Ids : BridgeReports(d) \/ BridgeDies(d) \/ Unplug(d)
    BY <1>1, <1>5, SamePorts DEF BridgeReports, BridgeDies, Unplug, fileVars, hostVars
  <1>6. CASE \E d \in Ids, m \in Modems : Plug(d, m)
    BY <1>1, <1>6, SamePorts DEF Plug, fileVars, hostVars
  <1>7. CASE \E b \in dying : BridgeEnds(b)
    BY <1>1, <1>7, SamePorts DEF BridgeEnds
  <1>8. CASE \E m \in Modems : ModemManagerClaims(m)
    BY <1>1, <1>8, SamePorts DEF ModemManagerClaims, fileVars, hostVars
  <1> QED
    BY <1>2, <1>3, <1>4, <1>5, <1>6, <1>7, <1>8 DEF Machine

LEMMA ForgetApart ==
    ASSUME PInv, Forget
    PROVE  PInv'
  <1>1. host' = host
    BY DEF Forget, ForgetReadsWishes, ForgetWritesWishes, ForgetReadsPorts, ForgetWritesPorts,
           ForgetReadsStatus, ForgetWritesStatus, ForgetUnlinks, Forgetting, machineVars, hostVars
  <1> USE <1>1, NoneApart, EmptyCopies
  <1>2. CASE ForgetReadsWishes
    <2>1. /\ ports' = ports /\ forget'.ports = forget.ports
          /\ {"pc", "ports"} \subseteq DOMAIN forget'
      BY <1>2 DEF PInv, ForgetReadsWishes, fileVars
    <2> QED
      BY <2>1 DEF PInv, Apart
  <1>3. CASE ForgetReadsPorts
    <2>1. ports' = ports /\ forget'.ports = ports /\ {"pc", "ports"} \subseteq DOMAIN forget'
      BY <1>3 DEF PInv, ForgetReadsPorts, fileVars
    <2> QED
      BY <2>1 DEF PInv, Apart
  <1>4. CASE ForgetReadsStatus
    <2>1. /\ ports' = ports /\ forget'.ports = forget.ports
          /\ {"pc", "ports"} \subseteq DOMAIN forget'
      BY <1>4 DEF PInv, ForgetReadsStatus, fileVars
    <2> QED
      BY <2>1 DEF PInv, Apart
  <1>5. CASE ForgetWritesWishes \/ ForgetWritesStatus \/ ForgetUnlinks
    <2>1. /\ ports' = ports /\ forget'.ports = NoPorts
          /\ {"pc", "ports"} \subseteq DOMAIN forget'
      BY <1>5 DEF ForgetWritesWishes, ForgetWritesStatus, ForgetUnlinks, ForgetGoesOn
    <2> QED
      BY <2>1 DEF PInv, Apart
  <1>6. CASE ForgetWritesPorts
    <2>1. forget'.ports = NoPorts /\ {"pc", "ports"} \subseteq DOMAIN forget'
      BY <1>6 DEF ForgetWritesPorts, ForgetGoesOn
    <2>2. ports' \in {ports, [forget.ports EXCEPT ![forget.id] = 0]}
      BY <1>6 DEF ForgetWritesPorts
    <2>3. Apart([forget.ports EXCEPT ![forget.id] = 0])
      BY ForgottenApart DEF PInv
    <2> QED
      BY <2>1, <2>2, <2>3 DEF PInv, Apart
  <1> QED
    BY <1>2, <1>3, <1>4, <1>5, <1>6 DEF Forget

LEMMA ControlApart ==
    ASSUME PInv, Control
    PROVE  PInv'
  <1>1. CASE \E d \in Ids, w \in Wishes, again \in BOOLEAN : AskSwitch(d, w, again)
    BY <1>1, SamePorts DEF AskSwitch, fileVars, machineVars, hostVars
  <1>2. CASE \E d \in Ids : LineChanges(d)
    BY <1>2, SamePorts DEF LineChanges, fileVars, machineVars, hostVars
  <1>3. CASE SetReads \/ SetWrites
    BY <1>3, SamePorts DEF SetReads, SetWrites, fileVars, machineVars, hostVars
  <1>4. CASE SwitchSucceeds \/ SwitchFails
    BY <1>4, SamePorts DEF SwitchSucceeds, SwitchFails, Answer, fileVars, machineVars, hostVars
  <1>5. CASE Forget
    BY <1>5, ForgetApart
  <1>6. CASE (\E d \in Ids : ForgetLooks(d)) \/ ControlRestarts
    <2>1. /\ ports' = ports /\ host' = host /\ forget'.ports = NoPorts
          /\ {"pc", "ports"} \subseteq DOMAIN forget'
      BY <1>6, EmptyCopies DEF ForgetLooks, ControlRestarts, fileVars, machineVars, hostVars
    <2> QED
      BY <2>1, NoneApart DEF PInv, Apart
  <1> QED
    BY <1>1, <1>2, <1>3, <1>4, <1>5, <1>6 DEF Control

(* No two devices are ever given one VPCD port, for any number of modems   *)
(* and whatever was moved, forgotten or restarted.                         *)
THEOREM PortsStayApart == Spec => []PortsApart
  <1>1. Init => PInv
    <2> SUFFICES ASSUME Init PROVE PInv
      OBVIOUS
    <2>1. ports = NoPorts /\ host = AtRest /\ forget = NoForget
      BY DEF Init
    <2> QED
      BY <2>1, NoneApart, EmptyCopies DEF PInv
  <1>2. PInv /\ [Next]_vars => PInv'
    <2> SUFFICES ASSUME PInv, [Next]_vars PROVE PInv'
      OBVIOUS
    <2>1. CASE Next
      BY <2>1, MachineApart, ControlApart DEF Next
    <2>2. CASE UNCHANGED vars
      BY <2>2, SamePorts DEF vars, fileVars, hostVars
    <2> QED
      BY <2>1, <2>2
  <1>3. PInv => PortsApart
    BY DEF PInv, Apart, PortsApart
  <1> QED
    BY <1>1, <1>2, <1>3, PTL DEF Spec
=============================================================================
