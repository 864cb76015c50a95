------------------------------ MODULE IkeSession -----------------------------
(***************************************************************************)
(* The tunnel of one swu_ike process (engine/swu_ike.py, state_connected)  *)
(* and the ePDG at its other end, over a network that loses, reorders and  *)
(* repeats.                                                                *)
(*                                                                         *)
(* The process rekeys the child SA and the IKE SA by timers of its own,    *)
(* retransmits a rekey verbatim, probes an idle peer, and answers the      *)
(* ePDG's requests through a cache of replies.  IKE SAs are numbered from  *)
(* 0 as one rekey follows another; a key is named by the IKE SA it was     *)
(* derived from and by the two ends' contributions (SPI, nonce and         *)
(* Diffie-Hellman value are drawn together, so one number stands for all). *)
(*                                                                         *)
(* The ePDG is not part of the sources.  It is taken to be strict: one     *)
(* request at a time each way, answered once, repeated replies verbatim.   *)
(***************************************************************************)
EXTENDS IkeAttach, FiniteSets, Sequences
LOCAL INSTANCE Functions

CONSTANTS
    Retransmits,    \* transmissions of one rekey request
    ProbeLimit,     \* unanswered probes before the ePDG counts as dead
    CacheLimit,     \* replies kept for repeated requests (16)
    MaxGen,         \* bound: IKE rekeys of one process
    MaxProposals,   \* bound: rekeys of either kind of one process
    MaxIds,         \* bound: message ids of one IKE SA after which a live ePDG is not probed
    MaxAsks         \* bound: requests of the ePDG to one process

ASSUME SessionAssumption ==
    /\ Retransmits \in Nat \ {0} /\ ProbeLimit \in Nat \ {0} /\ CacheLimit \in Nat \ {0}
    /\ {MaxGen, MaxProposals, MaxIds, MaxAsks} \subseteq Nat

VARIABLES
    ue,         \* the SAs and the message-id counter of the process
    pending,    \* the CREATE_CHILD_SA request awaiting its response
    cache,      \* replies to the ePDG's requests, oldest first
    probes,     \* probes sent since the last protected message
    net,        \* what was sent: it may arrive late, more than once, or never
    epdg,       \* what the other end holds
    runs,       \* history: request handlers run, per IKE SA
    crossed     \* history: a message of a retired IKE SA was taken for one of the current

ends == <<ue, pending, cache, probes, net, epdg>>
sessionVars == <<ends, runs, crossed>>
vars == <<attachVars, sessionVars>>

Gens == 0 .. MaxGen
Kinds == {"child", "ike"}
Asks == {"status", "pcscf", "create", "delchild", "delike"}
Key(sa, mine, theirs) == [sa |-> sa, mine |-> mine, theirs |-> theirs]
Keys == [sa : Gens, mine : 0 .. MaxProposals, theirs : 0 .. MaxProposals]

(* what: the request a message is or answers; token: the contribution it   *)
(* carries, or the child it names (-1: none that is known).                *)
Request(to, sa, mid, what, token) ==
    [to |-> to, sa |-> sa, mid |-> mid, what |-> what, token |-> token, reply |-> FALSE]
Reply(to, request, sa, what) ==
    [to |-> to, sa |-> sa, mid |-> request.mid, what |-> what, token |-> request.token, reply |-> TRUE]
Messages ==
    [to : {"ue", "epdg"}, sa : Gens, mid : Nat, what : Asks \cup Kinds \cup {"probe", "refused"},
     token : -1 .. MaxProposals, reply : BOOLEAN]
None == [none |-> TRUE]

SessionTypeOK ==
    /\ ue \in [sa : Gens, mid : Nat \cup {-1}, key : Keys, old : Keys, made : 0 .. MaxProposals]
    /\ pending = None \/ pending \in [kind : Kinds, tries : 1 .. Retransmits, packet : Messages, answered : BOOLEAN]
    /\ cache \in Seq([exchange : {"info", "create"}, mid : Nat, reply : Messages]) /\ Len(cache) <= CacheLimit
    /\ probes \in 0 .. ProbeLimit
    /\ net \subseteq Messages
    /\ epdg \in [alive : BOOLEAN, sas : SUBSET Gens, children : SUBSET Keys, expects : [Gens -> Nat],
                 said : [Gens -> Messages \cup {None}], asked : [Gens -> Messages \cup {None}],
                 asks : [Gens -> Nat]]
    /\ runs \in [Gens -> Nat] /\ crossed \in BOOLEAN

-----------------------------------------------------------------------------
(* IKE_SA_INIT and IKE_AUTH took the ids up to 3.                          *)
FirstKey == Key(0, 0, 0)
FreshUe == [sa |-> 0, mid |-> 3, key |-> FirstKey, old |-> FirstKey, made |-> 0]
FreshEpdg ==
    [alive |-> TRUE, sas |-> {0}, children |-> {FirstKey},
     expects |-> [sa \in Gens |-> IF sa = 0 THEN 4 ELSE 0],
     said |-> [sa \in Gens |-> None], asked |-> [sa \in Gens |-> None],
     asks |-> [sa \in Gens |-> 0]]
NoRuns == [sa \in Gens |-> 0]

Up == attach.at = "connected"

(* Whatever ends the process ends the tunnel: the workers are told, the    *)
(* routes go, and a DELETE that may still go out finds no one to matter    *)
(* to.                                                                     *)
TearDown ==
    /\ Exit("none") /\ UNCHANGED <<auto, resolved>>
    /\ ue' = FreshUe /\ pending' = None /\ cache' = <<>> /\ probes' = 0 /\ net' = {}
    /\ epdg' = FreshEpdg /\ runs' = NoRuns /\ crossed' = FALSE

Running == Up /\ UNCHANGED attachVars

-----------------------------------------------------------------------------
(* The timers: _liveness_tick, _rekey_tick and _ike_rekey_tick.            *)

(* Fresh contribution, next id.  One exchange at a time, of either kind.   *)
RekeyDue(kind) ==
    /\ Running /\ pending = None
    /\ ue.made < MaxProposals /\ (kind = "ike" => ue.sa < MaxGen)
    /\ LET packet == Request("epdg", ue.sa, ue.mid + 1, kind, ue.made + 1) IN
       /\ ue' = [ue EXCEPT !.mid = packet.mid, !.made = packet.token]
       /\ pending' = [kind |-> kind, tries |-> 1, packet |-> packet, answered |-> FALSE]
       /\ net' = net \cup {packet}
    /\ UNCHANGED <<cache, probes, epdg, runs, crossed>>

RetransmitRebuilt ==
    /\ Running /\ pending # None /\ pending.tries < Retransmits
    /\ pending' = [pending EXCEPT !.tries = @ + 1]
    /\ ue' = [ue EXCEPT !.made = IF @ < MaxProposals THEN @ + 1 ELSE @]
    /\ net' = net \cup {[pending.packet EXCEPT !.token = ue'.made]}
    /\ UNCHANGED <<cache, probes, epdg, runs, crossed>>

RetransmitRegardless ==
    /\ Running /\ pending # None
    /\ net' = net \cup {pending.packet}
    /\ UNCHANGED <<ue, pending, cache, probes, epdg, runs, crossed>>

Retransmit ==
    /\ Running /\ pending # None /\ pending.tries < Retransmits
    /\ pending' = [pending EXCEPT !.tries = @ + 1]
    /\ net' = net \cup {pending.packet}
    /\ UNCHANGED <<ue, cache, probes, epdg, runs, crossed>>

RekeyTimesOut == Up /\ pending # None /\ pending.tries = Retransmits /\ TearDown

(* A probe takes an id of its own and is not repeated.  It waits for a     *)
(* rekey in flight.  Nothing was heard for a whole period, so what was     *)
(* exchanged on a retired IKE SA is no longer under way.                   *)
Spent == ue.mid - (IF ue.sa = 0 THEN 3 ELSE -1)
StillUnderWay(m) == m.sa = ue.sa \/ (m.to = "ue" /\ ~m.reply)

ProbeForEver ==
    /\ Running /\ pending = None
    /\ Spent < MaxIds \/ ~epdg.alive
    /\ ue' = [ue EXCEPT !.mid = @ + 1]
    /\ probes' = probes + 1
    /\ net' = {m \in net : StillUnderWay(m)} \cup {Request("epdg", ue.sa, ue.mid + 1, "probe", -1)}
    /\ UNCHANGED <<pending, cache, epdg, runs, crossed>>

Probe ==
    /\ Running /\ pending = None /\ probes < ProbeLimit
    /\ Spent < MaxIds \/ ~epdg.alive
    /\ ue' = [ue EXCEPT !.mid = @ + 1]
    /\ probes' = probes + 1
    /\ net' = {m \in net : StillUnderWay(m)} \cup {Request("epdg", ue.sa, ue.mid + 1, "probe", -1)}
    /\ UNCHANGED <<pending, cache, epdg, runs, crossed>>

ProbesExhaustedUnheeded == Up /\ pending = None /\ probes = ProbeLimit /\ UNCHANGED vars

ProbesExhausted == Up /\ pending = None /\ probes = ProbeLimit /\ TearDown

Tick == Retransmit \/ RekeyTimesOut \/ Probe \/ ProbesExhausted

(* Packets the decoding worker could decrypt prove the ePDG alive as well. *)
EspTraffic ==
    /\ Running /\ epdg.alive /\ ue.key \in epdg.children /\ probes > 0
    /\ probes' = 0
    /\ UNCHANGED <<ue, pending, cache, net, epdg, runs, crossed>>

-----------------------------------------------------------------------------
(* A message arrives.  It must belong to the current IKE SA or to the one  *)
(* before; every message that does proves the ePDG alive.  A request that  *)
(* the ePDG has followed up with as many as the cache holds is not under   *)
(* way any more.                                                           *)

InTime(m) == m.reply \/ epdg.asks[m.sa] <= m.mid + CacheLimit
Decodes(m) == m.to = "ue" /\ m.sa \in {ue.sa, ue.sa - 1} /\ InTime(m)
Heard(m) == Running /\ Decodes(m) /\ probes' = 0

ExpectedAnyId(m) == pending # None /\ ~pending.answered /\ m.what \in Kinds \cup {"refused"}
Expected(m) ==
    /\ pending # None /\ ~pending.answered
    /\ m.mid = pending.packet.mid /\ m.what \in Kinds \cup {"refused"}

(* A response is known by its id alone, so a late one of the SA before may *)
(* be taken for it; what it grants decides what is done, and a rekey of    *)
(* the other kind stays in flight with its response spent.                 *)
Settled(m) == IF m.what \in {pending.kind, "refused"} THEN None ELSE [pending EXCEPT !.answered = TRUE]
Crosses(m) == crossed' = (crossed \/ m.sa # ue.sa)

(* Acknowledgements, and answers to a rekey that is no longer in flight.   *)
HearReply(m) ==
    /\ m \in net /\ m.reply /\ Heard(m) /\ ~Expected(m)
    /\ UNCHANGED <<ue, pending, cache, net, epdg, runs, crossed>>

(* The rekey is refused: the SAs stay, and the next attempt is scheduled.  *)
RekeyRefused(m) ==
    /\ m \in net /\ m.reply /\ Heard(m) /\ Expected(m) /\ m.what = "refused"
    /\ pending' = Settled(m) /\ Crosses(m)
    /\ UNCHANGED <<ue, cache, net, epdg, runs>>

SwitchIkeKeepingReplies(m) ==
    /\ m \in net /\ m.reply /\ Heard(m) /\ Expected(m) /\ m.what = "ike" /\ ue.sa < MaxGen
    /\ ue' = [ue EXCEPT !.sa = @ + 1, !.mid = -1]
    /\ pending' = Settled(m) /\ Crosses(m)
    /\ net' = net \cup {Request("epdg", ue.sa, ue.mid + 1, "delike", -1)}
    /\ UNCHANGED <<cache, epdg, runs>>

(* The new IKE SA counts its messages from 0; the old one is deleted on    *)
(* itself, by the last request sent there.                                 *)
SwitchIke(m) ==
    /\ m \in net /\ m.reply /\ Heard(m) /\ Expected(m) /\ m.what = "ike" /\ ue.sa < MaxGen
    /\ ue' = [ue EXCEPT !.sa = @ + 1, !.mid = -1]
    /\ pending' = Settled(m) /\ Crosses(m) /\ cache' = <<>>
    /\ net' = net \cup {Request("epdg", ue.sa, ue.mid + 1, "delike", -1)}
    /\ UNCHANGED <<epdg, runs>>

(* The key is derived from the latest contribution the process drew.       *)
SwitchChildAgain(m) ==
    /\ m \in net /\ m.reply /\ Heard(m) /\ Expected(m) /\ m.what = "child"
    /\ ue' = [ue EXCEPT !.mid = @ + 1, !.old = ue.key, !.key = Key(ue.sa, ue.made, m.token)]
    /\ net' = net \cup {Request("epdg", ue.sa, ue.mid + 1, "delchild", ue.made)}
    /\ pending' = Settled(m) /\ Crosses(m)
    /\ UNCHANGED <<cache, epdg, runs>>

SwitchChild(m) ==
    /\ m \in net /\ m.reply /\ Heard(m) /\ Expected(m) /\ m.what = "child"
    /\ ue' = [ue EXCEPT !.mid = @ + 1, !.old = ue.key, !.key = Key(ue.sa, ue.made, m.token)]
    /\ net' = net \cup {Request("epdg", ue.sa, ue.mid + 1, "delchild", ue.key.mine)}
    /\ pending' = Settled(m) /\ Crosses(m)
    /\ UNCHANGED <<cache, epdg, runs>>

-----------------------------------------------------------------------------
(* The ePDG's requests.  A request whose exchange type and id are in the   *)
(* cache is answered from there, whichever SA it came on.                  *)

ExchangeOf(m) == IF m.what = "create" THEN "create" ELSE "info"
Cached(m) == {i \in DOMAIN cache : cache[i].exchange = ExchangeOf(m) /\ cache[i].mid = m.mid}
CacheNothing(m, reply) == cache
Cache(m, reply) ==
    LET longer == Append(cache, [exchange |-> ExchangeOf(m), mid |-> m.mid, reply |-> reply]) IN
    IF Len(longer) > CacheLimit THEN Tail(longer) ELSE longer

Repeat(m) ==
    /\ m \in net /\ ~m.reply /\ Heard(m)
    /\ \E i \in Cached(m) : net' = net \cup {cache[i].reply}
    /\ UNCHANGED <<ue, pending, cache, epdg, runs, crossed>>

(* What the handler does beyond its reply.                                 *)
EndsTunnel(m) ==
    \/ m.what = "delike" /\ m.sa = ue.sa
    \/ m.what = "delchild" /\ m.token = ue.key.mine

(* Most replies name the current IKE SA even when the request came on the  *)
(* old one.                                                                *)
ReplySA(m) ==
    IF m.what \in {"status", "delike"} \/ (m.what = "delchild" /\ m.token \notin {ue.key.mine, ue.old.mine})
    THEN m.sa ELSE ue.sa

Handle(m) ==
    /\ m \in net /\ ~m.reply /\ Heard(m) /\ Cached(m) = {} /\ ~EndsTunnel(m)
    /\ LET reply == Reply("epdg", m, ReplySA(m), m.what) IN
       /\ net' = net \cup {reply}
       /\ cache' = Cache(m, reply)
    /\ runs' = [runs EXCEPT ![m.sa] = @ + 1]
    /\ Crosses(m)
    /\ UNCHANGED <<ue, pending, epdg>>

EndAsked(m) ==
    /\ Up /\ m \in net /\ ~m.reply /\ Decodes(m) /\ Cached(m) = {} /\ EndsTunnel(m)
    /\ TearDown

-----------------------------------------------------------------------------
(* The ePDG and the network.                                               *)

EpdgDoes(state, sent) ==
    /\ Running /\ epdg.alive
    /\ epdg' = state
    /\ net' = net \cup sent
    /\ UNCHANGED <<ue, pending, cache, probes, runs, crossed>>

Grant(m) ==
    CASE m.what = "child" -> [epdg EXCEPT !.children = @ \cup {Key(m.sa, m.token, m.token)}]
      [] m.what = "ike" -> [epdg EXCEPT !.sas = @ \cup {m.sa + 1}]
      [] m.what = "delchild" -> [epdg EXCEPT !.children = {k \in @ : k.mine # m.token}]
      [] m.what = "delike" -> [epdg EXCEPT !.sas = @ \ {m.sa}]
      [] OTHER -> epdg

ForEpdg(m) == m \in net /\ m.to = "epdg" /\ m.sa \in epdg.sas

EpdgAnswers(m) ==
    /\ ForEpdg(m) /\ ~m.reply /\ m.mid = epdg.expects[m.sa]
    /\ \E what \in {m.what} \cup (IF m.what \in Kinds THEN {"refused"} ELSE {}) :
         LET reply == Reply("ue", m, m.sa, what)
             state == IF what = "refused" THEN epdg ELSE Grant(m) IN
         EpdgDoes([state EXCEPT !.expects[m.sa] = @ + 1, !.said[m.sa] = reply], {reply})

EpdgAnswersAgain(m) ==
    /\ ForEpdg(m) /\ ~m.reply /\ m.mid = epdg.expects[m.sa] - 1
    /\ epdg.said[m.sa] # None
    /\ EpdgDoes(epdg, {epdg.said[m.sa]})

(* It deletes no child it has only just agreed to.  Deleting one that was  *)
(* never known is answered like a status request.                          *)
EpdgAsks(sa, what, token) ==
    /\ sa \in epdg.sas /\ epdg.asked[sa] = None
    /\ FoldFunction(+, 0, epdg.asks) < MaxAsks
    /\ IF what = "delchild"
       THEN \E k \in epdg.children : k.mine = token /\ \A l \in epdg.children : l.mine >= token
       ELSE token = -1
    /\ LET request == Request("ue", sa, epdg.asks[sa], what, token) IN
       EpdgDoes([epdg EXCEPT !.asked[sa] = request, !.asks[sa] = @ + 1], {request})

EpdgHears(m) ==
    /\ ForEpdg(m) /\ m.reply /\ epdg.asked[m.sa] # None /\ epdg.asked[m.sa].mid = m.mid
    /\ EpdgDoes([Grant(epdg.asked[m.sa]) EXCEPT !.asked[m.sa] = None], {})

(* The last that it sent has arrived, or is lost.                          *)
EpdgDies ==
    /\ Running /\ epdg.alive
    /\ epdg' = [epdg EXCEPT !.alive = FALSE]
    /\ net' = {m \in net : m.to = "epdg"}
    /\ UNCHANGED <<ue, pending, cache, probes, runs, crossed>>

Epdg ==
    \/ \E m \in net : EpdgAnswers(m) \/ EpdgAnswersAgain(m) \/ EpdgHears(m)
    \/ \E sa \in Gens, what \in Asks, token \in -1 .. MaxProposals : EpdgAsks(sa, what, token)
    \/ EpdgDies

Receive(m) ==
    \/ HearReply(m) \/ RekeyRefused(m) \/ SwitchIke(m) \/ SwitchChild(m)
    \/ Repeat(m) \/ Handle(m) \/ EndAsked(m)

-----------------------------------------------------------------------------
Init ==
    /\ AttachInit
    /\ ue = FreshUe /\ pending = None /\ cache = <<>> /\ probes = 0 /\ net = {}
    /\ epdg = FreshEpdg /\ runs = NoRuns /\ crossed = FALSE

Attach ==
    \/ Exchange /\ UNCHANGED sessionVars
    \/ Connected /\ UNCHANGED <<auto, sessionVars>>
    \/ Respawn /\ UNCHANGED <<auto, resolved, sessionVars>>

Next ==
    \/ Attach
    \/ \E kind \in Kinds : RekeyDue(kind)
    \/ Tick
    \/ EspTraffic
    \/ \E m \in net : Receive(m)
    \/ Epdg

(* The attach runs by itself, and the loop of state_connected wakes for    *)
(* whichever timer is next.                                                *)
Fairness == WF_vars(Attach) /\ WF_vars(Tick)

Spec == Init /\ [][Next]_vars /\ Fairness
-----------------------------------------------------------------------------
(* What the tunnel owes.                                                   *)

(* The key the process sends with is one the ePDG holds, through rekeys of *)
(* both kinds, lost and repeated messages and deletes from either side     *)
(* (state_epdg_create_sa_response, state_delete) -- unless a message of a  *)
(* retired IKE SA was taken for one of the current: a request, whose reply *)
(* is then cached for another's, or a response, for that of the rekey in   *)
(* flight.                                                                 *)
DataplaneAgrees == Up /\ epdg.alive /\ ~crossed => ue.key \in epdg.children

(* Two requests on one IKE SA with the same id are the same message: a     *)
(* retransmission is verbatim, and no id is used again for something else  *)
(* (create_CREATE_CHILD_SA, _rekey_tick, create_INFORMATIONAL_liveness).   *)
SameIdSameBytes ==
    LET sent == {m \in net : m.to = "epdg" /\ ~m.reply}
                  \cup (IF pending = None THEN {} ELSE {pending.packet}) IN
    \A m, n \in sent : m.sa = n.sa /\ m.mid = n.mid => m = n

(* No handler runs twice for one request of the ePDG, however often it is  *)
(* repeated (_dispatch_epdg_request).                                      *)
HandledOnce == \A sa \in Gens : ~crossed => runs[sa] <= epdg.asks[sa]

(* A request of the ePDG on the current IKE SA is not answered with a      *)
(* reply made for another one: the cache is keyed by exchange and id only, *)
(* and ids start over with every IKE SA (state_epdg_create_sa_response).   *)
Unshadowed ==
    Up /\ epdg.asked[ue.sa] # None =>
        \A i \in Cached(epdg.asked[ue.sa]) : cache[i].reply.sa = ue.sa
UnshadowedUnlessCrossed == ~crossed => Unshadowed

(* A rekey in flight ends, by its response or with the tunnel: it cannot   *)
(* hold back probes and the other rekey for ever (_rekey_tick).            *)
RekeyEnds == pending # None ~> pending = None

(* An ePDG that is gone is noticed, whatever was in flight (_liveness_tick). *)
DeadPeerNoticed == Up /\ ~epdg.alive ~> ~Up

(* The attach reaches a tunnel or gives up (start_ike).                    *)
AttachSettles == attach.at \notin {"connected", "exited"} ~> attach.at \in {"connected", "exited"}

(* The line moves to another address family only after the SIM was         *)
(* accepted on this one, so a card that is refused is not tried on each    *)
(* family in turn (start_ike).                                             *)
FamilyChangesAfterSimAuth ==
    [][attach.at # "exited" /\ attach'.family # attach.family => attach.eap]_vars

(* What TunnelKeys promises.                                               *)
Holding == Up /\ epdg.alive /\ ~crossed
Tunnel == INSTANCE TunnelKeys WITH
    AllKeys <- Keys, NoKey <- None,
    here <- IF Holding THEN ue.key ELSE None,
    there <- IF Holding THEN epdg.children ELSE {}
KeepsKeys == Tunnel!Spec
=============================================================================
