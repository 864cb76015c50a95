-------------------------- MODULE IkeSessionProofs --------------------------
(***************************************************************************)
(* For any IKE SAs, contributions, retransmissions and messages under way: *)
(* the session's types, that an id is used for one packet only             *)
(* (SameIdSameBytes), that the ends agree on the key in use as long as no  *)
(* exchange crossed a rekey of the IKE SA (DataplaneAgrees), that a        *)
(* repeated request is answered but not handled again (HandledOnce), that  *)
(* no request is answered with another's reply (UnshadowedUnlessCrossed),  *)
(* that the address family changes only after the SIM was accepted         *)
(* (FamilyChangesAfterSimAuth), and that the session implements            *)
(* TunnelKeys.                                                             *)
(*                                                                         *)
(* Packets are in flight, so the invariant says of every packet that may   *)
(* still arrive - on the net, kept for a repetition by either end, or in   *)
(* the reply cache - what is true when it is taken: its id was passed      *)
(* (IdsInv), its contribution was drawn (TokensInv), a delete names        *)
(* neither the key in use nor one to come (DeletesInv), a reply is to what *)
(* was asked under its id (MatchInv), and the child that the awaited       *)
(* answer grants exists (GrantedInv).  The replies kept are to the last    *)
(* requests handled, which is why a request late by fewer is found there   *)
(* (OnceInv).                                                              *)
(*                                                                         *)
(* A step is first reduced to its shape, a disjunct of Step that says of   *)
(* each variable only what the invariant reads; each part of the invariant *)
(* is then kept by each shape.                                             *)
(***************************************************************************)
EXTENDS IkeSession, TLAPS
(* The ends before IKE_AUTH and after a tear-down.                         *)
Blank ==
    /\ ue = FreshUe /\ pending = None /\ cache = <<>> /\ probes = 0 /\ net = {}
    /\ epdg = FreshEpdg /\ runs = NoRuns /\ crossed = FALSE

UeAsked(m) == m.to = "epdg" /\ ~m.reply
UeAnswered(m) == m.to = "epdg" /\ m.reply
EpdgAsked(m) == m.to = "ue" /\ ~m.reply
EpdgAnswered(m) == m.to = "ue" /\ m.reply

(* What the process still may transmit, and what either end may repeat.    *)
Outgoing == {m \in net : UeAsked(m)} \cup (IF pending = None THEN {} ELSE {pending.packet})
Saved == {cache[i].reply : i \in DOMAIN cache}
Answers == {m \in net : EpdgAnswered(m)} \cup ({epdg.said[sa] : sa \in Gens} \ {None})

WellFormed(m) ==
    /\ m.what \in Kinds => m.token \in 1 .. MaxProposals
    /\ m.what = "ike" => m.sa < MaxGen
Past(m) == m.sa < ue.sa \/ (m.sa = ue.sa /\ m.mid <= ue.mid)

(* Ids: what was sent on an IKE SA has an id the process has passed.       *)
IdsInv ==
    /\ \A m \in Outgoing : UeAsked(m) /\ WellFormed(m) /\ Past(m)
    /\ \A m, n \in Outgoing : m.sa = n.sa /\ m.mid = n.mid => m = n
    /\ \A m \in Answers : EpdgAnswered(m) /\ WellFormed(m) /\ Past(m)
    /\ \A m \in Saved : UeAnswered(m)
    /\ \A sa \in Gens : epdg.asked[sa] # None =>
          /\ EpdgAsked(epdg.asked[sa]) /\ epdg.asked[sa].sa = sa /\ epdg.asked[sa].mid < epdg.asks[sa]
          /\ epdg.asked[sa].what \in Asks
    /\ \A m \in net : EpdgAsked(m) => m.mid < epdg.asks[m.sa] /\ m.what \in Asks
    /\ ~Up => Blank

(* Contributions: they are drawn in order, and a child is named by one.    *)
Unanswered(m) == m.mid >= epdg.expects[m.sa]
TokensInv ==
    /\ ue.key.mine <= ue.made
    /\ pending # None => pending.packet.what = pending.kind
    /\ pending # None /\ ~pending.answered =>
          pending.packet.sa = ue.sa /\ pending.packet.token = ue.made /\ ue.key.mine < ue.made
    /\ \A m, n \in Outgoing : m.what = "child" /\ n.what = "child" /\ m.token = n.token => m = n
    /\ \A m \in Outgoing : m.what = "child" => m.token <= ue.made
    /\ \A k \in epdg.children : k.mine <= ue.made
    /\ \A k, l \in epdg.children : k.mine = l.mine => k = l
    /\ \A m \in Outgoing : m.what = "child" /\ Unanswered(m) => \A k \in epdg.children : k.mine # m.token

(* Deletes: none that is under way names the key in use or one to come.    *)
DeletesInv ==
    /\ \A m \in net : UeAsked(m) /\ m.what = "delchild" => m.token < ue.key.mine
    /\ \A m \in net : EpdgAsked(m) /\ m.what = "delchild" => m.token <= ue.key.mine
    /\ \A sa \in Gens : epdg.asked[sa] # None /\ epdg.asked[sa].what = "delchild" =>
          epdg.asked[sa].token <= ue.key.mine
    /\ \A m \in net \cup Saved : UeAnswered(m) /\ m.what = "delchild" => m.token < ue.key.mine

(* The ePDG's requests and their replies belong together.                  *)
MatchInv ==
    /\ \A m \in net \cup Saved : UeAnswered(m) => m.mid < epdg.asks[m.sa]
    /\ \A m \in net : EpdgAsked(m) /\ epdg.asked[m.sa] # None /\ epdg.asked[m.sa].mid = m.mid =>
          m = epdg.asked[m.sa]
    /\ \A m \in net \cup Saved :
          UeAnswered(m) /\ epdg.asked[m.sa] # None /\ epdg.asked[m.sa].mid = m.mid =>
             m.what = epdg.asked[m.sa].what /\ m.token = epdg.asked[m.sa].token

(* The answer to the rekey in flight is to that rekey, and the ePDG has    *)
(* the child it grants.                                                    *)
Awaited(m) == pending # None /\ ~pending.answered /\ m.sa = ue.sa /\ m.mid = pending.packet.mid
GrantedInv ==
    \A m \in Answers : Awaited(m) /\ m.what = "child" =>
        m.token = pending.packet.token /\ Key(m.sa, m.token, m.token) \in epdg.children

AgreeInv ==
    Holding => /\ ue.key \in epdg.children
               /\ TokensInv /\ DeletesInv /\ MatchInv /\ GrantedInv

(* Replies: those kept are to the last requests on the current IKE SA.     *)
Handled == runs[ue.sa]
CacheInv ==
    /\ Len(cache) = IF Handled <= CacheLimit THEN Handled ELSE CacheLimit
    /\ \A i \in DOMAIN cache :
          /\ cache[i].reply.sa = ue.sa
          /\ cache[i].mid = Handled - Len(cache) + i - 1 /\ cache[i].reply.mid = cache[i].mid
    /\ \A sa \in Gens : sa > ue.sa => runs[sa] = 0
    /\ \A sa \in Gens : runs[sa] <= epdg.asks[sa]
ServedInv ==
    /\ \A m \in net : UeAnswered(m) => m.mid < runs[m.sa]
    /\ \A m, n \in net : EpdgAsked(m) /\ EpdgAsked(n) /\ m.sa = n.sa /\ m.mid = n.mid => m = n
    /\ \A m \in net, i \in DOMAIN cache :
          EpdgAsked(m) /\ m.sa = ue.sa /\ m.mid = cache[i].mid => cache[i].exchange = ExchangeOf(m)
    /\ \A sa \in Gens : sa >= ue.sa =>
          /\ epdg.asks[sa] <= runs[sa] + 1
          /\ epdg.asked[sa] = None => epdg.asks[sa] = runs[sa]
          /\ epdg.asked[sa] # None => epdg.asked[sa].mid = epdg.asks[sa] - 1
OnceInv ==
    /\ Up /\ ~crossed => CacheInv
    /\ Holding => ServedInv
    /\ ~epdg.alive => \A m \in net : m.to = "epdg"

(* The SIM was accepted before the final exchange.                         *)
SimAccepted == attach.at = "final" => attach.eap

IInv == AttachTypeOK /\ SimAccepted /\ SessionTypeOK /\ IdsInv /\ AgreeInv /\ OnceInv
-----------------------------------------------------------------------------
(* The attach.                                                             *)

AttachRecords ==
    [at : {"init", "auth", "eap", "final", "connected", "exited"}, sends : 1 .. 3,
     family : 1 .. Families, left : 0 .. 1, cookie : BOOLEAN, eap : BOOLEAN, barred : BOOLEAN]
StatusRecords == [state : {"CONNECTING", "CONNECTED", "DOWN"}, why : {"none", "reject"}]

LEMMA LadderType ==
    ASSUME AttachTypeOK
    PROVE  First \in 1 .. Families /\ Last \in 1 .. Families
  BY AttachAssumption DEF AttachTypeOK, AttachRecords, StatusRecords, First, Last

LEMMA AttemptType ==
    ASSUME AttachTypeOK, NEW family \in 1 .. Families, NEW left \in 0 .. 1, NEW barred \in BOOLEAN
    PROVE  /\ Attempt(family, left, barred) \in AttachRecords
           /\ Attempt(family, left, barred).family = family
           /\ Attempt(family, left, barred).at = "init"
  <1> DEFINE cookie == IF left = 1 THEN FALSE ELSE attach.cookie
  <1>1. cookie \in BOOLEAN
    BY DEF AttachTypeOK, AttachRecords
  <1>2. Attempt(family, left, barred) =
            [at |-> "init", sends |-> 1, family |-> family, left |-> left, cookie |-> cookie,
             eap |-> FALSE, barred |-> barred]
    BY DEF Attempt
  <1> HIDE DEF cookie
  <1> QED
    BY <1>1, <1>2 DEF AttachRecords

LEMMA CookieSet ==
    ASSUME NEW a \in AttachRecords
    PROVE  LET b == [a EXCEPT !.sends = 2, !.cookie = TRUE] IN
           b \in AttachRecords /\ b.at = a.at /\ b.family = a.family
  <1>1. 2 \in 1 .. 3
    OBVIOUS
  <1> QED
    BY <1>1, ZenonT(30) DEF AttachRecords

LEMMA StageSet ==
    ASSUME NEW a \in AttachRecords, NEW at \in {"init", "auth", "eap", "final"}, NEW sends \in 1 .. 3
    PROVE  LET b == [a EXCEPT !.at = at, !.sends = sends] IN
           b \in AttachRecords /\ b.family = a.family
  BY DEF AttachRecords

LEMMA EapSet ==
    ASSUME NEW a \in AttachRecords
    PROVE  LET b == [a EXCEPT !.at = "final", !.sends = 1, !.eap = TRUE] IN
           b \in AttachRecords /\ b.eap = TRUE /\ b.family = a.family
  <1> DEFINE staged == [a EXCEPT !.at = "final", !.sends = 1]
  <1>1. 1 \in 1 .. 3
    OBVIOUS
  <1>2. staged \in AttachRecords /\ staged.family = a.family
    BY StageSet, <1>1
  <1>3. [a EXCEPT !.at = "final", !.sends = 1, !.eap = TRUE] = [staged EXCEPT !.eap = TRUE]
    OBVIOUS
  <1>4. ASSUME NEW b \in AttachRecords
        PROVE  LET c == [b EXCEPT !.eap = TRUE] IN
               c \in AttachRecords /\ c.eap = TRUE /\ c.family = b.family
    BY ZenonT(30) DEF AttachRecords
  <1> HIDE DEF staged
  <1> QED
    BY <1>2, <1>3, <1>4, Zenon

(* A failure of the final exchange may go to the next family; any other    *)
(* stays on the family.                                                    *)
SameFamily == attach'.family = attach.family
AttachParts == attach' \in AttachRecords
               /\ status' \in StatusRecords
               /\ attach'.at # "final"

LEMMA ExitType ==
    ASSUME AttachTypeOK, NEW policy, Exit(policy)
    PROVE  AttachParts /\ SameFamily /\ attach'.at = "exited"
  BY DEF AttachTypeOK, AttachRecords, StatusRecords, Exit, AttachParts, SameFamily

LEMMA NextFamilyType ==
    ASSUME AttachTypeOK, NEW policy, NextFamily(policy)
    PROVE  AttachParts
  <1>1. CASE attach.family < Last
    <2>1. attach.family + 1 \in 1 .. Families
      BY <1>1, LadderType, AttachAssumption DEF AttachTypeOK, AttachRecords, StatusRecords
    <2>2. attach' = Attempt(attach.family + 1, 1, policy = "no_retry") /\ UNCHANGED status
      BY <1>1 DEF NextFamily
    <2> QED
      BY <2>1, <2>2, AttemptType DEF AttachParts, AttachTypeOK, AttachRecords, StatusRecords, Attempt
  <1>2. CASE ~(attach.family < Last)
    BY <1>2, ExitType DEF NextFamily
  <1> QED
    BY <1>1, <1>2

LEMMA FailType ==
    ASSUME AttachTypeOK, NEW policy, Fail(policy)
    PROVE  AttachParts /\ SameFamily
  <1>1. CASE Exit(policy)
    BY <1>1, ExitType
  <1>2. CASE attach' = Attempt(attach.family, 0, FALSE) /\ UNCHANGED status
    BY <1>2, AttemptType DEF AttachTypeOK, AttachRecords, StatusRecords, AttachParts, SameFamily, Attempt
  <1> QED
    BY <1>1, <1>2 DEF Fail

LEMMA ExchangeKeeps ==
    ASSUME AttachTypeOK, SimAccepted, Exchange
    PROVE  AttachTypeOK' /\ SimAccepted' /\ (SameFamily \/ attach.eap)
  <1> DEFINE Done == attach' \in AttachRecords
                     /\ status' \in StatusRecords
                     /\ SimAccepted' /\ (SameFamily \/ attach.eap)
  <1> SUFFICES Done
    BY DEF Exchange, AttachTypeOK, AttachRecords, StatusRecords
  <1>1. AttachParts /\ (SameFamily \/ attach.eap) => Done
    BY DEF AttachParts, SimAccepted
  <1>2. ASSUME NEW stage \in {"auth", "eap"}, NEW sends \in 1 .. 3, GoTo(stage, sends) PROVE Done
    BY <1>2 DEF GoTo, AttachTypeOK, AttachRecords, StatusRecords, SimAccepted, SameFamily
  <1>3. ASSUME NEW sends \in 1 .. 3, GoTo("init", sends) PROVE Done
    BY <1>3 DEF GoTo, AttachTypeOK, AttachRecords, StatusRecords, SimAccepted, SameFamily
  <1>4. ASSUME NEW policy, Fail(policy) PROVE Done
    BY <1>1, <1>4, FailType
  <1>5. ASSUME NEW policy, NextFamily(policy), attach.eap PROVE Done
    BY <1>1, <1>5, NextFamilyType
  <1>6. ASSUME NEW policy, Exit(policy) PROVE Done
    BY <1>1, <1>6, ExitType
  <1>7. CASE SaInitAnswered \/ SaInitRepeats \/ SaInitCookie
    <2>1. SaInitCookie /\ attach.sends = 1 => Done
      <3> SUFFICES ASSUME SaInitCookie, attach.sends = 1 PROVE Done
        OBVIOUS
      <3>1. attach' = [attach EXCEPT !.sends = 2, !.cookie = TRUE] /\ status' = status
            /\ attach.at = "init"
        BY DEF SaInitCookie
      <3>2. attach' \in AttachRecords /\ attach'.at = "init" /\ SameFamily
        <4>1. attach \in AttachRecords
          BY DEF AttachTypeOK, AttachRecords
        <4> QED
          BY <3>1, <4>1, CookieSet, Zenon DEF SameFamily
      <3> QED
        BY <3>1, <3>2 DEF AttachTypeOK, StatusRecords, SimAccepted
    <2>2. SaInitRepeats => attach.sends + 1 \in 1 .. 3
      BY DEF SaInitRepeats, AttachTypeOK, AttachRecords, StatusRecords
    <2> QED
      BY <1>2, <1>3, <1>4, <1>7, <2>1, <2>2 DEF SaInitAnswered, SaInitRepeats, SaInitCookie
  <1>8. CASE AuthChallenged \/ AuthRepeats \/ SimRefuses
    BY <1>2, <1>4, <1>8 DEF AuthChallenged, AuthRepeats, SimRefuses
  <1>9. CASE EapSucceeds \/ EapRepeats
    <2>1. EapSucceeds => Done
      <3> SUFFICES ASSUME EapSucceeds PROVE Done
        OBVIOUS
      <3>1. attach' = [attach EXCEPT !.at = "final", !.sends = 1, !.eap = TRUE] /\ status' = status
        BY DEF EapSucceeds
      <3>2. attach' \in AttachRecords /\ attach'.eap = TRUE /\ SameFamily
        <4>1. attach \in AttachRecords
          BY DEF AttachTypeOK, AttachRecords
        <4> QED
          BY <3>1, <4>1, EapSet, Zenon DEF SameFamily
      <3> QED
        BY <3>1, <3>2 DEF AttachTypeOK, StatusRecords, SimAccepted
    <2> QED
      BY <1>2, <1>4, <1>9, <2>1 DEF EapRepeats
  <1>10. CASE (\E policy \in Policies : FinalRefused(policy)) \/ FinalUseless
    BY <1>4, <1>5, <1>10 DEF FinalRefused, FinalUseless, SimAccepted
  <1>11. CASE \/ \E stage \in {"init", "auth", "eap"} : Refused(stage)
              \/ \E stage \in {"auth", "eap", "final"} : Malformed(stage)
    BY <1>4, <1>6, <1>11 DEF Refused, Malformed
  <1> QED
    BY <1>7, <1>8, <1>9, <1>10, <1>11 DEF Exchange

LEMMA AttachKeeps ==
    ASSUME AttachTypeOK, SimAccepted,
           \/ Exchange \/ (Connected /\ UNCHANGED auto) \/ (Respawn /\ UNCHANGED <<auto, resolved>>)
           \/ TearDown \/ UNCHANGED attachVars
    PROVE  AttachTypeOK' /\ SimAccepted' /\ (attach.at # "exited" => SameFamily \/ attach.eap)
  <1>1. CASE Exchange
    BY <1>1, ExchangeKeeps
  <1>2. CASE Connected /\ UNCHANGED auto
    <2>1. /\ Attempt(attach.family, 1, FALSE) \in AttachRecords
          /\ Attempt(attach.family, 1, FALSE).family = attach.family
      <3>1. attach.family \in 1 .. Families
        BY DEF AttachTypeOK
      <3>2. 1 \in 0 .. 1 /\ FALSE \in BOOLEAN
        OBVIOUS
      <3> QED
        BY <3>1, <3>2, AttemptType, Zenon
    <2> QED
      <3> DEFINE fresh == Attempt(attach.family, 1, FALSE)
      <3>1. attach' = [fresh EXCEPT !.at = "connected"] /\ auto' = auto
            /\ status' = [state |-> "CONNECTED", why |-> "none"]
            /\ resolved' = IF auto THEN attach.family ELSE resolved
        BY <1>2 DEF Connected
      <3> HIDE DEF fresh
      <3>2. attach' \in AttachRecords /\ attach'.at = "connected" /\ SameFamily
        BY <2>1, <3>1 DEF fresh, AttachRecords, SameFamily
      <3>3. resolved' \in 0 .. Families
        BY <3>1 DEF AttachTypeOK
      <3> QED
        BY <3>1, <3>2, <3>3 DEF AttachTypeOK, AttachRecords, StatusRecords, SimAccepted
  <1>3. CASE Respawn /\ UNCHANGED <<auto, resolved>>
    <2>1. /\ Attempt(First, 1, FALSE) \in AttachRecords
          /\ Attempt(First, 1, FALSE).at = "init"
      <3>1. 1 \in 0 .. 1 /\ FALSE \in BOOLEAN
        OBVIOUS
      <3> QED
        BY <3>1, AttemptType, LadderType, Zenon
    <2> QED
      BY <1>3, <2>1 DEF Respawn, AttachTypeOK, AttachRecords, StatusRecords, SimAccepted
  <1>4. CASE TearDown
    <2>1. Exit("none") /\ UNCHANGED <<auto, resolved>>
      BY <1>4 DEF TearDown
    <2> QED
      BY <2>1, ExitType DEF AttachParts, AttachTypeOK, AttachRecords, StatusRecords, SimAccepted
  <1>5. CASE UNCHANGED attachVars
    BY <1>5 DEF attachVars, AttachTypeOK, AttachRecords, StatusRecords, SimAccepted, SameFamily
  <1> QED
    BY <1>1, <1>2, <1>3, <1>4, <1>5

-----------------------------------------------------------------------------
(* Records.                                                                *)

UeRecords == [sa : Gens, mid : Nat \cup {-1}, key : Keys, old : Keys, made : 0 .. MaxProposals]
PendingRecords == [kind : Kinds, tries : 1 .. Retransmits, packet : Messages, answered : BOOLEAN]
CacheRecords == [exchange : {"info", "create"}, mid : Nat, reply : Messages]
EpdgRecords ==
    [alive : BOOLEAN, sas : SUBSET Gens, children : SUBSET Keys, expects : [Gens -> Nat],
     said : [Gens -> Messages \cup {None}], asked : [Gens -> Messages \cup {None}],
     asks : [Gens -> Nat]]
Whats == Asks \cup Kinds \cup {"probe", "refused"}

LEMMA MessageFields ==
    ASSUME NEW m \in Messages
    PROVE  /\ m.sa \in Gens /\ m.mid \in Nat /\ m.token \in -1 .. MaxProposals
           /\ m.to \in {"ue", "epdg"} /\ m.what \in Whats /\ m.reply \in BOOLEAN
           /\ m # None
  <1>1. m # None
    BY DEF Messages, None
  <1> QED
    BY <1>1 DEF Messages, Whats

LEMMA RequestFields ==
    ASSUME NEW to \in {"ue", "epdg"}, NEW sa \in Gens, NEW mid \in Nat, NEW what \in Whats,
           NEW token \in -1 .. MaxProposals
    PROVE  LET m == Request(to, sa, mid, what, token) IN
           /\ m \in Messages
           /\ m.to = to /\ m.sa = sa /\ m.mid = mid /\ m.what = what /\ m.token = token /\ ~m.reply
  BY DEF Request, Messages, Whats

LEMMA ReplyFields ==
    ASSUME NEW to \in {"ue", "epdg"}, NEW sa \in Gens, NEW what \in Whats, NEW n \in Messages
    PROVE  LET m == Reply(to, n, sa, what) IN
           /\ m \in Messages
           /\ m.to = to /\ m.sa = sa /\ m.mid = n.mid /\ m.what = what /\ m.token = n.token /\ m.reply
  BY MessageFields DEF Reply, Messages, Whats

LEMMA KeyFields ==
    ASSUME NEW sa \in Gens, NEW mine \in 0 .. MaxProposals, NEW theirs \in 0 .. MaxProposals
    PROVE  LET k == Key(sa, mine, theirs) IN
           k \in Keys /\ k.sa = sa /\ k.mine = mine /\ k.theirs = theirs
  BY DEF Key, Keys

LEMMA KeyIs ==
    ASSUME NEW k \in Keys
    PROVE  /\ k.sa \in Gens /\ k.mine \in 0 .. MaxProposals /\ k.theirs \in 0 .. MaxProposals
           /\ k = Key(k.sa, k.mine, k.theirs) /\ k # None
  <1>1. k # None
    BY DEF Keys, None
  <1> QED
    BY <1>1 DEF Key, Keys

LEMMA PendingFields ==
    ASSUME NEW p \in PendingRecords
    PROVE  p.kind \in Kinds /\ p.tries \in 1 .. Retransmits /\ p.packet \in Messages
           /\ p.answered \in BOOLEAN /\ p # None
  <1>1. p # None
    BY DEF PendingRecords, None
  <1> QED
    BY <1>1 DEF PendingRecords

LEMMA UeFields ==
    ASSUME NEW u \in UeRecords
    PROVE  /\ u.sa \in Gens /\ u.mid \in Nat \cup {-1} /\ u.key \in Keys /\ u.old \in Keys
           /\ u.made \in 0 .. MaxProposals
  BY DEF UeRecords

LEMMA EpdgFields ==
    ASSUME NEW e \in EpdgRecords
    PROVE  /\ e.alive \in BOOLEAN /\ e.sas \subseteq Gens /\ e.children \subseteq Keys
           /\ e.expects \in [Gens -> Nat] /\ e.asks \in [Gens -> Nat]
           /\ e.said \in [Gens -> Messages \cup {None}] /\ e.asked \in [Gens -> Messages \cup {None}]
  BY DEF EpdgRecords

(* What the ePDG's steps change of what it holds.                          *)
SameBooks(e, f) ==
    /\ f.alive = e.alive /\ f.expects = e.expects /\ f.said = e.said /\ f.asked = e.asked
    /\ f.asks = e.asks

AnswerEffect(e, sa, r) ==
    LET f == [e EXCEPT !.expects[sa] = @ + 1, !.said[sa] = r] IN
    /\ f \in EpdgRecords
    /\ f.alive = e.alive /\ f.sas = e.sas /\ f.children = e.children
    /\ f.asks = e.asks /\ f.asked = e.asked
    /\ f.expects = [e.expects EXCEPT ![sa] = @ + 1]
    /\ f.said = [e.said EXCEPT ![sa] = r]

LEMMA AnswerUpdate ==
    ASSUME NEW e \in EpdgRecords, NEW sa \in Gens, NEW r \in Messages
    PROVE  AnswerEffect(e, sa, r)
  <1> DEFINE expects == [e.expects EXCEPT ![sa] = @ + 1]
             said == [e.said EXCEPT ![sa] = r]
             f == [e EXCEPT !.expects = expects, !.said = said]
  <1>1. expects \in [Gens -> Nat]
    BY EpdgFields
  <1>2. said \in [Gens -> Messages \cup {None}]
    BY EpdgFields
  <1>3. [e EXCEPT !.expects[sa] = @ + 1, !.said[sa] = r] = f
    BY ZenonT(30) DEF EpdgRecords
  <1> HIDE DEF expects, said
  <1>4. f \in EpdgRecords
    BY <1>1, <1>2, ZenonT(30) DEF EpdgRecords
  <1>5. f.expects = expects /\ f.said = said
    BY DEF EpdgRecords
  <1>6. /\ f.alive = e.alive /\ f.sas = e.sas /\ f.children = e.children
        /\ f.asks = e.asks /\ f.asked = e.asked
    BY ZenonT(30) DEF EpdgRecords
  <1> QED
    BY <1>3, <1>4, <1>5, <1>6, Zenon DEF AnswerEffect, expects, said

AskEffect(e, sa, r) ==
    LET f == [e EXCEPT !.asked[sa] = r, !.asks[sa] = @ + 1] IN
    /\ f \in EpdgRecords
    /\ f.alive = e.alive /\ f.sas = e.sas /\ f.children = e.children
    /\ f.expects = e.expects /\ f.said = e.said
    /\ f.asks = [e.asks EXCEPT ![sa] = @ + 1]
    /\ f.asked = [e.asked EXCEPT ![sa] = r]

LEMMA AskUpdate ==
    ASSUME NEW e \in EpdgRecords, NEW sa \in Gens, NEW r \in Messages
    PROVE  AskEffect(e, sa, r)
  <1> DEFINE asks == [e.asks EXCEPT ![sa] = @ + 1]
             asked == [e.asked EXCEPT ![sa] = r]
             f == [e EXCEPT !.asked = asked, !.asks = asks]
  <1>1. asks \in [Gens -> Nat]
    BY EpdgFields
  <1>2. asked \in [Gens -> Messages \cup {None}]
    BY EpdgFields
  <1>3. [e EXCEPT !.asked[sa] = r, !.asks[sa] = @ + 1] = f
    BY ZenonT(30) DEF EpdgRecords
  <1> HIDE DEF asks, asked
  <1>4. f \in EpdgRecords
    BY <1>1, <1>2, ZenonT(30) DEF EpdgRecords
  <1>5. f.asks = asks /\ f.asked = asked
    BY DEF EpdgRecords
  <1>6. /\ f.alive = e.alive /\ f.sas = e.sas /\ f.children = e.children
        /\ f.expects = e.expects /\ f.said = e.said
    BY ZenonT(30) DEF EpdgRecords
  <1> QED
    BY <1>3, <1>4, <1>5, <1>6, Zenon DEF AskEffect, asks, asked

LEMMA HearUpdate ==
    ASSUME NEW e \in EpdgRecords, NEW sa \in Gens
    PROVE  LET f == [e EXCEPT !.asked[sa] = None] IN
           /\ f \in EpdgRecords
           /\ f.alive = e.alive /\ f.sas = e.sas /\ f.children = e.children
           /\ f.expects = e.expects /\ f.said = e.said /\ f.asks = e.asks
           /\ f.asked = [e.asked EXCEPT ![sa] = None]
  <1> DEFINE asked == [e.asked EXCEPT ![sa] = None]
             f == [e EXCEPT !.asked = asked]
  <1>1. asked \in [Gens -> Messages \cup {None}]
    BY EpdgFields
  <1>2. [e EXCEPT !.asked[sa] = None] = f
    BY ZenonT(30) DEF EpdgRecords
  <1> HIDE DEF asked
  <1>3. f \in EpdgRecords
    BY <1>1, ZenonT(30) DEF EpdgRecords
  <1>4. f.asked = asked
    BY DEF EpdgRecords
  <1>5. /\ f.alive = e.alive /\ f.sas = e.sas /\ f.children = e.children
        /\ f.expects = e.expects /\ f.said = e.said /\ f.asks = e.asks
    BY ZenonT(30) DEF EpdgRecords
  <1> QED
    BY <1>2, <1>3, <1>4, <1>5, Zenon DEF asked

LEMMA DieUpdate ==
    ASSUME NEW e \in EpdgRecords
    PROVE  LET f == [e EXCEPT !.alive = FALSE] IN
           /\ f \in EpdgRecords
           /\ ~f.alive /\ f.sas = e.sas /\ f.children = e.children
           /\ f.expects = e.expects /\ f.said = e.said /\ f.asks = e.asks /\ f.asked = e.asked
  BY ZenonT(30) DEF EpdgRecords

(* What a request grants once it is answered.                              *)
LEMMA GrantFields ==
    ASSUME epdg \in EpdgRecords, NEW m \in Messages, WellFormed(m)
    PROVE  /\ Grant(m) \in EpdgRecords /\ SameBooks(epdg, Grant(m))
           /\ Grant(m).sas \subseteq epdg.sas \cup {m.sa + 1}
           /\ Grant(m).children =
                 CASE m.what = "child" -> epdg.children \cup {Key(m.sa, m.token, m.token)}
                   [] m.what = "delchild" -> {k \in epdg.children : k.mine # m.token}
                   [] OTHER -> epdg.children
  <1> USE MessageFields, EpdgFields
  <1>1. ASSUME NEW children \in SUBSET Keys
        PROVE  LET f == [epdg EXCEPT !.children = children] IN
               f \in EpdgRecords /\ SameBooks(epdg, f) /\ f.sas = epdg.sas /\ f.children = children
    BY ZenonT(30) DEF EpdgRecords, SameBooks
  <1>2. ASSUME NEW sas \in SUBSET Gens
        PROVE  LET f == [epdg EXCEPT !.sas = sas] IN
               f \in EpdgRecords /\ SameBooks(epdg, f) /\ f.sas = sas /\ f.children = epdg.children
    BY ZenonT(30) DEF EpdgRecords, SameBooks
  <1>3. CASE m.what = "child"
    <2>1. epdg.children \cup {Key(m.sa, m.token, m.token)} \in SUBSET Keys
      <3>1. m.token \in 0 .. MaxProposals
        BY <1>3 DEF WellFormed, Kinds
      <3> QED
        BY <3>1, KeyFields
    <2>2. Grant(m) = [epdg EXCEPT !.children = epdg.children \cup {Key(m.sa, m.token, m.token)}]
      BY <1>3 DEF Grant
    <2> QED
      BY <1>1, <1>3, <2>1, <2>2, Zenon
  <1>4. CASE m.what = "ike"
    <2>1. epdg.sas \cup {m.sa + 1} \in SUBSET Gens
      BY <1>4, SessionAssumption DEF WellFormed, Gens
    <2>2. Grant(m) = [epdg EXCEPT !.sas = epdg.sas \cup {m.sa + 1}]
      BY <1>4 DEF Grant
    <2>3. m.what # "child" /\ m.what # "delchild"
      BY <1>4
    <2> QED
      BY <1>2, <2>1, <2>2, <2>3, ZenonT(40)
  <1>5. CASE m.what = "delchild"
    <2>1. {k \in epdg.children : k.mine # m.token} \in SUBSET Keys
      OBVIOUS
    <2>2. Grant(m) = [epdg EXCEPT !.children = {k \in epdg.children : k.mine # m.token}]
      BY <1>5 DEF Grant
    <2>3. m.what # "child"
      BY <1>5
    <2> QED
      BY <1>1, <1>5, <2>1, <2>2, <2>3, Zenon
  <1>6. CASE m.what = "delike"
    <2>1. epdg.sas \ {m.sa} \in SUBSET Gens
      OBVIOUS
    <2>2. Grant(m) = [epdg EXCEPT !.sas = epdg.sas \ {m.sa}]
      BY <1>6 DEF Grant
    <2>3. m.what # "child" /\ m.what # "delchild"
      BY <1>6
    <2> QED
      BY <1>2, <2>1, <2>2, <2>3, ZenonT(40)
  <1>7. CASE m.what \notin {"child", "ike", "delchild", "delike"}
    <2>1. Grant(m) = epdg
      BY <1>7 DEF Grant
    <2>2. m.what # "child" /\ m.what # "delchild"
      BY <1>7
    <2> QED
      BY <2>1, <2>2, Zenon DEF SameBooks
  <1> QED
    BY <1>3, <1>4, <1>5, <1>6, <1>7

-----------------------------------------------------------------------------
(* Types and ids, action by action.                                        *)

SessionParts ==
    /\ ue \in UeRecords
    /\ pending = None \/ pending \in PendingRecords
    /\ cache \in Seq(CacheRecords) /\ Len(cache) <= CacheLimit
    /\ probes \in 0 .. ProbeLimit
    /\ net \subseteq Messages
    /\ epdg \in EpdgRecords
    /\ runs \in [Gens -> Nat] /\ crossed \in BOOLEAN

LEMMA SessionTypes == SessionTypeOK <=> SessionParts
  BY DEF SessionTypeOK, SessionParts, UeRecords, PendingRecords, CacheRecords, EpdgRecords

LEMMA SessionTypesPrime == SessionTypeOK' <=> SessionParts'
  BY SessionTypes, PTL

AllMessages == Outgoing \cup Answers \cup Saved \cup net
OnlyMessages == AllMessages \subseteq Messages

LEMMA OutgoingType == SessionTypeOK => OnlyMessages
  <1> SUFFICES ASSUME SessionTypeOK PROVE OnlyMessages
    OBVIOUS
  <1>1. SessionParts
    BY SessionTypes
  <1>2. Outgoing \subseteq Messages
    BY <1>1, PendingFields DEF SessionParts, Outgoing
  <1>3. Answers \subseteq Messages
    BY <1>1, EpdgFields DEF SessionParts, Answers
  <1>4. Saved \subseteq Messages
    <2>1. \A i \in DOMAIN cache : cache[i] \in CacheRecords
      BY <1>1 DEF SessionParts
    <2> QED
      BY <2>1 DEF Saved, CacheRecords
  <1> QED
    BY <1>1, <1>2, <1>3, <1>4 DEF OnlyMessages, AllMessages, SessionParts

LEMMA OutgoingTypePrime == SessionTypeOK' => OnlyMessages'
  BY OutgoingType, PTL

(* A step keeps the ids in order when what is new is of an id of its own.  *)
LEMMA IdsStep ==
    ASSUME SessionTypeOK, SessionTypeOK', IdsInv, Up',
           \A m \in Messages : Past(m) => Past(m)',
           \A m \in Outgoing' : m \in Outgoing \/ (UeAsked(m) /\ WellFormed(m) /\ ~Past(m) /\ Past(m)'),
           \A m, n \in Outgoing' : m \in Outgoing \/ n \in Outgoing \/ m = n,
           \A m \in Answers' : m \in Answers \/ (EpdgAnswered(m) /\ WellFormed(m) /\ Past(m)'),
           \A m \in Saved' : m \in Saved \/ UeAnswered(m),
           \A sa \in Gens : epdg.asks[sa] <= epdg'.asks[sa],
           \A sa \in Gens : epdg'.asked[sa] # None =>
              \/ epdg'.asked[sa] = epdg.asked[sa]
              \/ /\ EpdgAsked(epdg'.asked[sa]) /\ epdg'.asked[sa].sa = sa
                 /\ epdg'.asked[sa].mid < epdg'.asks[sa] /\ epdg'.asked[sa].what \in Asks,
           \A m \in net' : EpdgAsked(m) => m \in net \/ (m.mid < epdg'.asks[m.sa] /\ m.what \in Asks)
    PROVE  IdsInv'
  <1>0. AllMessages \subseteq Messages /\ AllMessages' \subseteq Messages
    BY OutgoingType, OutgoingTypePrime DEF OnlyMessages
  <1>t. epdg \in EpdgRecords /\ epdg' \in EpdgRecords
    BY SessionTypes, SessionTypesPrime DEF SessionParts
  <1>1. \A m \in Outgoing' : UeAsked(m) /\ WellFormed(m) /\ Past(m)'
    BY <1>0 DEF IdsInv, AllMessages
  <1>2. \A m, n \in Outgoing' : m.sa = n.sa /\ m.mid = n.mid => m = n
    <2>1. \A m, n \in Messages : m.sa = n.sa /\ m.mid = n.mid => (Past(m) <=> Past(n))
      BY DEF Past
    <2>2. Outgoing \subseteq Messages /\ Outgoing' \subseteq Messages
      BY <1>0 DEF AllMessages
    <2> QED
      BY <2>1, <2>2 DEF IdsInv
  <1>3. \A m \in Answers' : EpdgAnswered(m) /\ WellFormed(m) /\ Past(m)'
    BY <1>0 DEF IdsInv, AllMessages
  <1>4. \A m \in Saved' : UeAnswered(m)
    BY DEF IdsInv
  <1>5. \A sa \in Gens : epdg'.asked[sa] # None =>
          /\ EpdgAsked(epdg'.asked[sa]) /\ epdg'.asked[sa].sa = sa /\ epdg'.asked[sa].mid < epdg'.asks[sa]
          /\ epdg'.asked[sa].what \in Asks
    BY <1>t, EpdgFields, MessageFields DEF IdsInv
  <1>6. \A m \in net' : EpdgAsked(m) => m.mid < epdg'.asks[m.sa] /\ m.what \in Asks
    <2>1. net \subseteq Messages /\ net' \subseteq Messages
      BY <1>0 DEF AllMessages
    <2> QED
      BY <1>t, <2>1, EpdgFields, MessageFields DEF IdsInv
  <1> QED
    BY <1>1, <1>2, <1>3, <1>4, <1>5, <1>6, Zenon DEF IdsInv, EpdgAsked, UeAsked, UeAnswered, EpdgAnswered, WellFormed

-----------------------------------------------------------------------------
(* What each action changes, field by field.                               *)

LEMMA UeMid ==
    ASSUME NEW u \in UeRecords, NEW mid \in Nat \cup {-1}
    PROVE  LET v == [u EXCEPT !.mid = mid] IN
           v \in UeRecords /\ v.sa = u.sa /\ v.mid = mid /\ v.made = u.made /\ v.key = u.key /\ v.old = u.old
  BY ZenonT(30) DEF UeRecords

LEMMA UeSa ==
    ASSUME NEW u \in UeRecords, NEW sa \in Gens
    PROVE  LET v == [u EXCEPT !.sa = sa, !.mid = -1] IN
           v \in UeRecords /\ v.sa = sa /\ v.mid = -1 /\ v.made = u.made /\ v.key = u.key /\ v.old = u.old
  BY ZenonT(30) DEF UeRecords

LEMMA PendingUpdates ==
    ASSUME NEW p \in PendingRecords
    PROVE  /\ LET q == [p EXCEPT !.answered = TRUE] IN
              q \in PendingRecords /\ q.kind = p.kind /\ q.packet = p.packet /\ q.answered
           /\ \A tries \in 1 .. Retransmits :
                 LET q == [p EXCEPT !.tries = tries] IN
                 q \in PendingRecords /\ q.kind = p.kind /\ q.packet = p.packet /\ q.answered = p.answered
  <1>1. LET q == [p EXCEPT !.answered = TRUE] IN
        q \in PendingRecords /\ q.kind = p.kind /\ q.packet = p.packet /\ q.answered
    BY ZenonT(30) DEF PendingRecords
  <1>2. ASSUME NEW tries \in 1 .. Retransmits
        PROVE  LET q == [p EXCEPT !.tries = tries] IN
               q \in PendingRecords /\ q.kind = p.kind /\ q.packet = p.packet /\ q.answered = p.answered
    BY ZenonT(30) DEF PendingRecords
  <1> QED
    BY <1>1, <1>2, Zenon

(* The request in flight stays, is answered, or is done with.              *)
PendingWanes ==
    pending' = None
    \/ /\ pending # None /\ pending' \in PendingRecords
       /\ pending'.packet = pending.packet /\ pending'.kind = pending.kind
       /\ pending.answered => pending'.answered

(* Nothing new is sent: at most what had been sent before is, again.       *)
QuietShape ==
    /\ UNCHANGED <<ue, epdg, cache, runs>>
    /\ PendingWanes
    /\ net \subseteq net' /\ net' \subseteq AllMessages
    /\ epdg.alive \/ net' \subseteq net \cup Outgoing \cup Saved
    /\ probes' \in 0 .. ProbeLimit
    /\ crossed' \in BOOLEAN /\ (crossed => crossed')

LEMMA PendingSettles ==
    ASSUME SessionParts, NEW m, pending # None, pending' = Settled(m)
    PROVE  /\ PendingWanes
           /\ m.what \in {pending.kind, "refused"} => pending' = None
           /\ m.what \notin {pending.kind, "refused"} => pending' # None /\ pending'.answered
  <1>1. CASE m.what \in {pending.kind, "refused"}
    BY <1>1 DEF Settled, PendingWanes
  <1>2. CASE m.what \notin {pending.kind, "refused"}
    <2>1. pending' = [pending EXCEPT !.answered = TRUE]
      BY <1>2 DEF Settled
    <2>2. pending \in PendingRecords
      BY DEF SessionParts
    <2>3. /\ pending' \in PendingRecords /\ pending'.kind = pending.kind
          /\ pending'.packet = pending.packet /\ pending'.answered
      BY <2>1, <2>2, PendingUpdates, Zenon
    <2> QED
      BY <1>2, <2>3, PendingFields DEF PendingWanes
  <1> QED
    BY <1>1, <1>2

LEMMA QuietSteps ==
    ASSUME SessionParts,
           \/ UNCHANGED sessionVars \/ EspTraffic \/ Retransmit
           \/ \E m \in net : HearReply(m) \/ RekeyRefused(m) \/ Repeat(m) \/ EpdgAnswersAgain(m)
    PROVE  QuietShape
  <1> USE DEF SessionParts
  <1>0. net \subseteq AllMessages
        /\ (pending # None => pending.packet \in AllMessages /\ pending.packet \in Outgoing)
        /\ (pending' = pending => PendingWanes)
    BY PendingFields DEF AllMessages, Outgoing, PendingWanes
  <1>1. CASE UNCHANGED sessionVars
    BY <1>0, <1>1 DEF sessionVars, ends, QuietShape
  <1>2. CASE EspTraffic
    BY <1>0, <1>2, SessionAssumption DEF EspTraffic, QuietShape
  <1>3. CASE Retransmit
    <2>1. /\ pending # None /\ pending.tries < Retransmits /\ pending' = [pending EXCEPT !.tries = pending.tries + 1]
          /\ net' = net \cup {pending.packet}
      BY <1>3 DEF Retransmit
    <2>2. pending \in PendingRecords /\ pending.tries + 1 \in 1 .. Retransmits
      BY <2>1, PendingFields, SessionAssumption
    <2>3. PendingWanes
      BY <2>1, <2>2, PendingUpdates, Zenon DEF PendingWanes
    <2> QED
      BY <1>0, <1>3, <2>1, <2>3 DEF Retransmit, QuietShape
  <1>4. ASSUME NEW m \in net, HearReply(m) PROVE QuietShape
    BY <1>0, <1>4, SessionAssumption DEF HearReply, Heard, QuietShape
  <1>5. ASSUME NEW m \in net, RekeyRefused(m) PROVE QuietShape
    <2>1. PendingWanes
      BY <1>5, PendingSettles DEF RekeyRefused, Expected
    <2>2. crossed' = (crossed \/ m.sa # ue.sa)
      BY <1>5 DEF RekeyRefused, Crosses
    <2>3. crossed' \in BOOLEAN /\ (crossed => crossed')
      BY <2>2
    <2> QED
      BY <1>0, <1>5, <2>1, <2>3, SessionAssumption DEF RekeyRefused, Heard, QuietShape
  <1>6. ASSUME NEW m \in net, Repeat(m) PROVE QuietShape
    <2>1. PICK i \in Cached(m) : net' = net \cup {cache[i].reply}
      BY <1>6 DEF Repeat
    <2>2. cache[i].reply \in AllMessages /\ cache[i].reply \in Saved
      BY DEF Cached, Saved, AllMessages
    <2> QED
      BY <1>0, <1>6, <2>1, <2>2, SessionAssumption DEF Repeat, Heard, QuietShape
  <1>7. ASSUME NEW m \in net, EpdgAnswersAgain(m) PROVE QuietShape
    <2>1. net' = net \cup {epdg.said[m.sa]} /\ epdg' = epdg /\ epdg.said[m.sa] # None
      BY <1>7 DEF EpdgAnswersAgain, EpdgDoes
    <2>2. epdg.said[m.sa] \in AllMessages
      BY <2>1, MessageFields DEF AllMessages, Answers
    <2> QED
      BY <1>0, <1>7, <2>1, <2>2 DEF EpdgAnswersAgain, EpdgDoes, QuietShape
  <1> QED
    BY <1>1, <1>2, <1>3, <1>4, <1>5, <1>6, <1>7

(* A request of the process: the next id, on the current IKE SA.           *)
NextRequest(m, what, token) ==
    /\ m \in Messages /\ UeAsked(m) /\ WellFormed(m)
    /\ m.sa = ue.sa /\ m.mid = ue.mid + 1 /\ m.what = what /\ m.token = token
    /\ ue' \in UeRecords
    /\ m \in net' /\ net' \subseteq net \cup {m}
    /\ UNCHANGED <<epdg, runs>>

RekeyShape(m, kind) ==
    /\ NextRequest(m, kind, ue.made + 1)
    /\ ue'.sa = ue.sa /\ ue'.mid = ue.mid + 1 /\ ue'.made = ue.made + 1 /\ ue'.key = ue.key /\ ue'.old = ue.old
    /\ pending = None /\ pending' # None /\ pending' \in PendingRecords
    /\ pending'.kind = kind /\ pending'.packet = m /\ ~pending'.answered
    /\ UNCHANGED <<cache, probes, crossed>> /\ net \subseteq net'

ProbeShape(m) ==
    /\ NextRequest(m, "probe", -1)
    /\ ue'.sa = ue.sa /\ ue'.mid = ue.mid + 1 /\ ue'.made = ue.made /\ ue'.key = ue.key /\ ue'.old = ue.old
    /\ pending = None /\ probes' \in 0 .. ProbeLimit
    /\ UNCHANGED <<pending, cache, crossed>>

(* The response n to the rekey in flight is taken.                         *)
Taken(n) ==
    /\ n \in net /\ n.reply /\ Decodes(n) /\ Expected(n)
    /\ PendingWanes
    /\ n.what = pending.kind => pending' = None
    /\ n.what \notin {pending.kind, "refused"} => pending' # None /\ pending'.answered
    /\ probes' = 0
    /\ crossed' \in BOOLEAN /\ (crossed => crossed') /\ (n.sa # ue.sa => crossed')

SwitchIkeShape(m, n) ==
    /\ NextRequest(m, "delike", -1)
    /\ ue.sa < MaxGen
    /\ ue'.sa = ue.sa + 1 /\ ue'.mid = -1 /\ ue'.made = ue.made /\ ue'.key = ue.key /\ ue'.old = ue.old
    /\ Taken(n) /\ n.what = "ike"
    /\ cache' = <<>> /\ net \subseteq net'

SwitchChildShape(m, n) ==
    /\ NextRequest(m, "delchild", ue.key.mine)
    /\ ue'.sa = ue.sa /\ ue'.mid = ue.mid + 1 /\ ue'.made = ue.made
    /\ ue'.key = Key(ue.sa, ue.made, n.token) /\ ue'.old = ue.key
    /\ Taken(n) /\ n.what = "child"
    /\ cache' = cache /\ net \subseteq net'

LEMMA NextId ==
    ASSUME SessionParts
    PROVE  ue.mid + 1 \in Nat /\ ue.sa \in Gens /\ ue.sa \in Nat
  BY UeFields DEF SessionParts, Gens

LEMMA RekeyDueShape ==
    ASSUME SessionParts, NEW kind \in Kinds, RekeyDue(kind)
    PROVE  \E m : RekeyShape(m, kind)
  <1> DEFINE packet == Request("epdg", ue.sa, ue.mid + 1, kind, ue.made + 1)
  <1>1. /\ pending = None /\ ue.made < MaxProposals /\ (kind = "ike" => ue.sa < MaxGen)
        /\ ue' = [ue EXCEPT !.mid = packet.mid, !.made = packet.token]
        /\ pending' = [kind |-> kind, tries |-> 1, packet |-> packet, answered |-> FALSE]
        /\ net' = net \cup {packet}
        /\ UNCHANGED <<cache, probes, epdg, runs, crossed>>
    BY DEF RekeyDue
  <1>2. /\ packet \in Messages /\ packet.to = "epdg" /\ ~packet.reply /\ packet.sa = ue.sa
        /\ packet.mid = ue.mid + 1 /\ packet.what = kind /\ packet.token = ue.made + 1
    <2>1. ue.made + 1 \in -1 .. MaxProposals /\ kind \in Whats
      BY <1>1, UeFields, SessionAssumption, SMTT(30) DEF SessionParts, Whats
    <2> QED
      BY <2>1, NextId, RequestFields
  <1> HIDE DEF packet
  <1>3. packet.mid \in Nat \cup {-1} /\ packet.token \in 1 .. MaxProposals
    BY <1>1, <1>2, NextId, UeFields, SessionAssumption, SMTT(30) DEF SessionParts
  <1>4. /\ ue' \in UeRecords /\ ue'.sa = ue.sa /\ ue'.mid = packet.mid /\ ue'.made = packet.token
        /\ ue'.key = ue.key /\ ue'.old = ue.old
    <2>1. ue \in UeRecords /\ packet.token \in 0 .. MaxProposals
      BY <1>3 DEF SessionParts
    <2> DEFINE mid == packet.mid
               made == packet.token
    <2>2. mid \in Nat \cup {-1} /\ made \in 0 .. MaxProposals
      BY <1>3, <2>1
    <2>3. ue' = [ue EXCEPT !.mid = mid, !.made = made]
      BY <1>1
    <2> HIDE DEF mid, made
    <2>4. /\ ue' \in UeRecords /\ ue'.sa = ue.sa /\ ue'.mid = mid /\ ue'.made = made
          /\ ue'.key = ue.key /\ ue'.old = ue.old
      BY <2>1, <2>2, <2>3, ZenonT(60) DEF UeRecords
    <2> QED
      BY <2>4 DEF mid, made
  <1>5. pending' \in PendingRecords /\ pending'.kind = kind /\ pending'.packet = packet /\ ~pending'.answered
    <2>1. 1 \in 1 .. Retransmits
      BY SessionAssumption
    <2> QED
      BY <1>1, <1>2, <2>1, Zenon DEF PendingRecords
  <1>6. pending' # None
    BY <1>5, PendingFields
  <1>7. WellFormed(packet)
    BY <1>1, <1>2, <1>3 DEF WellFormed
  <1> QED
    BY <1>1, <1>2, <1>4, <1>5, <1>6, <1>7 DEF RekeyShape, NextRequest, UeAsked

LEMMA ProbeKeepsShape ==
    ASSUME SessionParts, Probe
    PROVE  \E m : ProbeShape(m)
  <1> DEFINE packet == Request("epdg", ue.sa, ue.mid + 1, "probe", -1)
  <1>1. /\ pending = None /\ probes < ProbeLimit
        /\ ue' = [ue EXCEPT !.mid = ue.mid + 1] /\ probes' = probes + 1
        /\ net' = {m \in net : StillUnderWay(m)} \cup {packet}
        /\ UNCHANGED <<pending, cache, epdg, runs, crossed>>
    BY DEF Probe
  <1>2. /\ packet \in Messages /\ packet.to = "epdg" /\ ~packet.reply /\ packet.sa = ue.sa
        /\ packet.mid = ue.mid + 1 /\ packet.what = "probe" /\ packet.token = -1
    <2>1. -1 \in -1 .. MaxProposals /\ "probe" \in Whats
      BY SessionAssumption DEF Whats
    <2> QED
      BY <2>1, NextId, RequestFields
  <1> HIDE DEF packet
  <1>3. /\ ue' \in UeRecords /\ ue'.sa = ue.sa /\ ue'.mid = ue.mid + 1 /\ ue'.made = ue.made
        /\ ue'.key = ue.key /\ ue'.old = ue.old
    <2>1. ue \in UeRecords /\ ue.mid + 1 \in Nat \cup {-1}
      BY NextId DEF SessionParts
    <2> QED
      BY <1>1, <2>1, UeMid, Zenon
  <1>4. WellFormed(packet)
    BY <1>2 DEF WellFormed, Kinds
  <1>5. probes' \in 0 .. ProbeLimit
    BY <1>1, SessionAssumption DEF SessionParts
  <1> QED
    BY <1>1, <1>2, <1>3, <1>4, <1>5 DEF ProbeShape, NextRequest, UeAsked

LEMMA TakenShape ==
    ASSUME SessionParts, NEW n, n \in net, n.reply, Heard(n), Expected(n), pending' = Settled(n), Crosses(n)
    PROVE  Taken(n)
  <1>1. crossed' = (crossed \/ n.sa # ue.sa)
    BY DEF Crosses
  <1>2. crossed' \in BOOLEAN /\ (crossed => crossed') /\ (n.sa # ue.sa => crossed')
    BY <1>1
  <1> QED
    BY <1>2, PendingSettles DEF Taken, Heard, Expected

LEMMA SwitchIkeKeepsShape ==
    ASSUME SessionParts, NEW n, SwitchIke(n)
    PROVE  \E m : SwitchIkeShape(m, n)
  <1> DEFINE packet == Request("epdg", ue.sa, ue.mid + 1, "delike", -1)
  <1>1. /\ ue' = [ue EXCEPT !.sa = ue.sa + 1, !.mid = -1]
        /\ net' = net \cup {packet} /\ n.what = "ike" /\ ue.sa < MaxGen
        /\ cache' = <<>> /\ UNCHANGED <<epdg, runs>>
    BY DEF SwitchIke
  <1>2. /\ packet \in Messages /\ packet.to = "epdg" /\ ~packet.reply /\ packet.sa = ue.sa
        /\ packet.mid = ue.mid + 1 /\ packet.what = "delike" /\ packet.token = -1
    <2>1. -1 \in -1 .. MaxProposals /\ "delike" \in Whats
      BY SessionAssumption DEF Whats, Asks
    <2> QED
      BY <2>1, NextId, RequestFields
  <1> HIDE DEF packet
  <1>3. /\ ue' \in UeRecords /\ ue'.sa = ue.sa + 1 /\ ue'.mid = -1 /\ ue'.made = ue.made
        /\ ue'.key = ue.key /\ ue'.old = ue.old
    <2>1. ue \in UeRecords /\ ue.sa + 1 \in Gens /\ -1 \in Nat \cup {-1}
      BY <1>1, NextId, SessionAssumption, SMTT(30) DEF SessionParts, Gens
    <2> QED
      BY <1>1, <2>1, UeSa, Zenon
  <1>4. WellFormed(packet)
    BY <1>2 DEF WellFormed, Kinds
  <1>5. Taken(n)
    BY TakenShape DEF SwitchIke
  <1> QED
    BY <1>1, <1>2, <1>3, <1>4, <1>5 DEF SwitchIkeShape, NextRequest, UeAsked

LEMMA SwitchChildKeepsShape ==
    ASSUME SessionParts, IdsInv, NEW n, SwitchChild(n)
    PROVE  \E m : SwitchChildShape(m, n)
  <1> DEFINE packet == Request("epdg", ue.sa, ue.mid + 1, "delchild", ue.key.mine)
             key == Key(ue.sa, ue.made, n.token)
  <1>1. /\ ue' = [ue EXCEPT !.mid = ue.mid + 1, !.old = ue.key, !.key = key]
        /\ net' = net \cup {packet} /\ n.what = "child"
        /\ UNCHANGED <<cache, epdg, runs>>
    BY DEF SwitchChild
  <1>2. /\ packet \in Messages /\ packet.to = "epdg" /\ ~packet.reply /\ packet.sa = ue.sa
        /\ packet.mid = ue.mid + 1 /\ packet.what = "delchild" /\ packet.token = ue.key.mine
    <2>1. ue.key.mine \in -1 .. MaxProposals /\ "delchild" \in Whats
      <3>1. ue.key \in Keys
        BY UeFields DEF SessionParts
      <3> QED
        BY <3>1, KeyIs, SessionAssumption DEF Whats, Asks
    <2> QED
      BY <2>1, NextId, RequestFields
  <1>3. key \in Keys
    <2>1. n \in Answers
      BY DEF SwitchChild, Heard, Decodes, Answers, EpdgAnswered
    <2>2. n.token \in 0 .. MaxProposals
      BY <1>1, <2>1 DEF IdsInv, WellFormed, Kinds
    <2> QED
      BY <2>2, NextId, UeFields, KeyFields DEF SessionParts
  <1> HIDE DEF packet, key
  <1>4. /\ ue' \in UeRecords /\ ue'.sa = ue.sa /\ ue'.mid = ue.mid + 1 /\ ue'.made = ue.made
        /\ ue'.key = key /\ ue'.old = ue.key
    <2>1. ue \in UeRecords /\ ue.mid + 1 \in Nat \cup {-1} /\ ue.key \in Keys
      BY NextId, UeFields DEF SessionParts
    <2> DEFINE mid == ue.mid + 1
               old == ue.key
    <2>2. mid \in Nat \cup {-1} /\ old \in Keys
      BY <2>1
    <2>3. ue' = [ue EXCEPT !.mid = mid, !.old = old, !.key = key]
      BY <1>1
    <2> HIDE DEF mid, old
    <2>4. /\ ue' \in UeRecords /\ ue'.sa = ue.sa /\ ue'.mid = mid /\ ue'.made = ue.made
          /\ ue'.key = key /\ ue'.old = old
      BY <1>3, <2>1, <2>2, <2>3, ZenonT(60) DEF UeRecords
    <2> QED
      BY <2>4 DEF mid, old
  <1>5. WellFormed(packet)
    BY <1>2 DEF WellFormed, Kinds
  <1>6. Taken(n)
    BY TakenShape DEF SwitchChild
  <1> QED
    BY <1>1, <1>2, <1>4, <1>5, <1>6 DEF SwitchChildShape, NextRequest, UeAsked, key

(* A request of the ePDG is handled and its reply kept.                    *)
HandleShape(m, r) ==
    /\ m \in net /\ EpdgAsked(m) /\ Decodes(m) /\ Cached(m) = {} /\ ~EndsTunnel(m)
    /\ r \in Messages /\ UeAnswered(r)
    /\ r.sa = ReplySA(m) /\ r.mid = m.mid /\ r.what = m.what /\ r.token = m.token
    /\ net' = net \cup {r} /\ probes' = 0
    /\ cache' = Cache(m, r)
    /\ runs' = [runs EXCEPT ![m.sa] = @ + 1]
    /\ crossed' \in BOOLEAN /\ (crossed => crossed') /\ (m.sa # ue.sa => crossed')
    /\ UNCHANGED <<ue, pending, epdg>>

LEMMA HandleKeepsShape ==
    ASSUME SessionParts, NEW m, Handle(m)
    PROVE  \E r : HandleShape(m, r)
  <1> DEFINE reply == Reply("epdg", m, ReplySA(m), m.what)
  <1>1. /\ m \in net /\ EpdgAsked(m) /\ Decodes(m) /\ Cached(m) = {} /\ ~EndsTunnel(m)
        /\ net' = net \cup {reply} /\ probes' = 0
        /\ cache' = Cache(m, reply)
        /\ runs' = [runs EXCEPT ![m.sa] = runs[m.sa] + 1]
        /\ UNCHANGED <<ue, pending, epdg>>
        /\ crossed' = (crossed \/ m.sa # ue.sa)
    BY DEF Handle, Heard, Decodes, EpdgAsked, Crosses
  <1>2. m \in Messages
    BY <1>1 DEF SessionParts
  <1>3. ReplySA(m) \in Gens
    BY <1>2, MessageFields, UeFields DEF ReplySA, SessionParts
  <1>4. /\ reply \in Messages /\ reply.to = "epdg" /\ reply.reply
        /\ reply.sa = ReplySA(m) /\ reply.mid = m.mid /\ reply.what = m.what /\ reply.token = m.token
    <2>1. m.what \in Whats /\ "epdg" \in {"ue", "epdg"}
      BY <1>2, MessageFields
    <2> QED
      BY <1>2, <1>3, <2>1, ReplyFields
  <1>5. crossed' \in BOOLEAN /\ (crossed => crossed') /\ (m.sa # ue.sa => crossed')
    BY <1>1
  <1> HIDE DEF reply
  <1> QED
    BY <1>1, <1>4, <1>5 DEF HandleShape, UeAnswered

(* What the cache holds after a request was handled.                       *)
LEMMA CacheHolds ==
    ASSUME SessionParts, NEW m \in Messages, NEW r \in Messages
    PROVE  /\ Cache(m, r) \in Seq(CacheRecords) /\ Len(Cache(m, r)) <= CacheLimit
           /\ Len(cache) < CacheLimit =>
                 /\ Len(Cache(m, r)) = Len(cache) + 1
                 /\ \A i \in 1 .. Len(cache) : Cache(m, r)[i] = cache[i]
           /\ Len(cache) = CacheLimit =>
                 /\ Len(Cache(m, r)) = CacheLimit
                 /\ \A i \in 1 .. CacheLimit - 1 : Cache(m, r)[i] = cache[i + 1]
           /\ LET last == Cache(m, r)[Len(Cache(m, r))] IN
              last.exchange = ExchangeOf(m) /\ last.mid = m.mid /\ last.reply = r
           /\ Len(Cache(m, r)) >= 1
  <1> DEFINE entry == [exchange |-> ExchangeOf(m), mid |-> m.mid, reply |-> r]
             longer == Append(cache, entry)
  <1>1. entry \in CacheRecords /\ entry.exchange = ExchangeOf(m) /\ entry.mid = m.mid /\ entry.reply = r
    BY MessageFields DEF CacheRecords, ExchangeOf
  <1>2. cache \in Seq(CacheRecords) /\ Len(cache) <= CacheLimit /\ Len(cache) \in Nat
        /\ CacheLimit \in Nat \ {0}
    BY SessionAssumption DEF SessionParts
  <1>3. Cache(m, r) = IF Len(longer) > CacheLimit THEN Tail(longer) ELSE longer
    BY DEF Cache
  <1> HIDE DEF entry
  <1>4. /\ longer \in Seq(CacheRecords) /\ Len(longer) = Len(cache) + 1
        /\ longer[Len(cache) + 1] = entry
        /\ \A i \in 1 .. Len(cache) : longer[i] = cache[i]
    BY <1>1, <1>2
  <1> HIDE DEF longer
  <1>5. CASE Len(cache) < CacheLimit
    <2>1. Cache(m, r) = longer
      BY <1>2, <1>3, <1>4, <1>5
    <2> QED
      BY <1>1, <1>2, <1>4, <1>5, <2>1
  <1>6. CASE Len(cache) = CacheLimit
    <2>1. Cache(m, r) = Tail(longer)
      BY <1>2, <1>3, <1>4, <1>6
    <2>2. /\ Tail(longer) \in Seq(CacheRecords) /\ Len(Tail(longer)) = Len(cache)
          /\ \A i \in 1 .. Len(cache) : Tail(longer)[i] = longer[i + 1]
      BY <1>2, <1>4
    <2>3. Tail(longer)[Len(cache)] = entry
      BY <1>2, <1>4, <1>6, <2>2
    <2>4. \A i \in 1 .. CacheLimit - 1 : Tail(longer)[i] = cache[i + 1]
      BY <1>2, <1>4, <1>6, <2>2
    <2> QED
      BY <1>1, <1>2, <1>6, <2>1, <2>2, <2>3, <2>4
  <1> QED
    BY <1>2, <1>5, <1>6

(* The ePDG's steps.                                                       *)
EpdgStays == UNCHANGED <<ue, pending, cache, probes, runs, crossed>> /\ epdg' \in EpdgRecords

(* The ePDG answers m with r.                                              *)
AnswerShape(m, r) ==
    /\ EpdgStays
    /\ m \in net /\ UeAsked(m) /\ WellFormed(m) /\ m.sa \in epdg.sas /\ m.mid = epdg.expects[m.sa]
    /\ r \in Messages /\ EpdgAnswered(r) /\ WellFormed(r)
    /\ r.sa = m.sa /\ r.mid = m.mid /\ r.token = m.token /\ r.what \in {m.what, "refused"}
    /\ m.what \notin Kinds => r.what = m.what
    /\ net' = net \cup {r}
    /\ epdg.alive /\ epdg'.alive /\ epdg'.asks = epdg.asks /\ epdg'.asked = epdg.asked
    /\ epdg'.expects = [epdg.expects EXCEPT ![m.sa] = @ + 1]
    /\ epdg'.said = [epdg.said EXCEPT ![m.sa] = r]
    /\ epdg'.children =
          CASE r.what = "child" -> epdg.children \cup {Key(m.sa, m.token, m.token)}
            [] r.what = "delchild" -> {k \in epdg.children : k.mine # m.token}
            [] OTHER -> epdg.children

AskShape(m) ==
    /\ EpdgStays
    /\ m \in Messages /\ EpdgAsked(m) /\ m.sa \in epdg.sas /\ epdg.asked[m.sa] = None
    /\ m.mid = epdg.asks[m.sa] /\ m.what \in Asks
    /\ m.what = "delchild" =>
          \E k \in epdg.children : k.mine = m.token /\ \A l \in epdg.children : l.mine >= m.token
    /\ net' = net \cup {m}
    /\ epdg.alive /\ epdg'.alive /\ epdg'.sas = epdg.sas /\ epdg'.children = epdg.children
    /\ epdg'.expects = epdg.expects /\ epdg'.said = epdg.said
    /\ epdg'.asks = [epdg.asks EXCEPT ![m.sa] = @ + 1]
    /\ epdg'.asked = [epdg.asked EXCEPT ![m.sa] = m]

(* The reply m to the request of the ePDG is heard.                        *)
HearShape(m) ==
    /\ EpdgStays
    /\ m \in net /\ UeAnswered(m) /\ m.sa \in epdg.sas
    /\ epdg.asked[m.sa] # None /\ epdg.asked[m.sa].mid = m.mid
    /\ net' = net
    /\ epdg.alive /\ epdg'.alive /\ epdg'.asks = epdg.asks
    /\ epdg'.expects = epdg.expects /\ epdg'.said = epdg.said
    /\ epdg'.asked = [epdg.asked EXCEPT ![m.sa] = None]
    /\ epdg'.children =
          IF epdg.asked[m.sa].what = "delchild"
          THEN {k \in epdg.children : k.mine # epdg.asked[m.sa].token}
          ELSE epdg.children

DieShape ==
    /\ EpdgStays
    /\ net' = {m \in net : m.to = "epdg"}
    /\ epdg.alive /\ ~epdg'.alive
    /\ epdg'.asks = epdg.asks /\ epdg'.asked = epdg.asked /\ epdg'.said = epdg.said

LEMMA EpdgAnswersShape ==
    ASSUME SessionParts, IdsInv, NEW m, EpdgAnswers(m)
    PROVE  \E r : AnswerShape(m, r)
  <1>1. PICK what \in {m.what} \cup (IF m.what \in Kinds THEN {"refused"} ELSE {}) :
           LET reply == Reply("ue", m, m.sa, what)
               state == IF what = "refused" THEN epdg ELSE Grant(m) IN
           EpdgDoes([state EXCEPT !.expects[m.sa] = @ + 1, !.said[m.sa] = reply], {reply})
    BY DEF EpdgAnswers
  <1>2. m \in net /\ m \in Messages /\ UeAsked(m) /\ WellFormed(m) /\ m.sa \in epdg.sas
        /\ m.mid = epdg.expects[m.sa]
    BY DEF EpdgAnswers, ForEpdg, SessionParts, UeAsked, IdsInv, Outgoing
  <1> DEFINE reply == Reply("ue", m, m.sa, what)
             state == IF what = "refused" THEN epdg ELSE Grant(m)
             after == [state EXCEPT !.expects[m.sa] = @ + 1, !.said[m.sa] = reply]
  <1>3. epdg.alive /\ epdg' = after /\ net' = net \cup {reply}
        /\ UNCHANGED <<ue, pending, cache, probes, runs, crossed>>
    BY <1>1 DEF EpdgDoes
  <1>4. /\ reply \in Messages /\ reply.to = "ue" /\ reply.reply
        /\ reply.sa = m.sa /\ reply.mid = m.mid /\ reply.what = what /\ reply.token = m.token
    <2>1. what \in Whats /\ "ue" \in {"ue", "epdg"} /\ m.sa \in Gens
      BY <1>2, MessageFields DEF Whats
    <2> QED
      BY <1>2, <2>1, ReplyFields
  <1>5. epdg \in EpdgRecords
    BY DEF SessionParts
  <1>6. /\ Grant(m) \in EpdgRecords /\ SameBooks(epdg, Grant(m))
        /\ Grant(m).children =
              CASE m.what = "child" -> epdg.children \cup {Key(m.sa, m.token, m.token)}
                [] m.what = "delchild" -> {k \in epdg.children : k.mine # m.token}
                [] OTHER -> epdg.children
    BY <1>2, <1>5, GrantFields
  <1>7. what \in {m.what, "refused"} /\ (m.what \notin Kinds => what = m.what)
    OBVIOUS
  <1>8. /\ state \in EpdgRecords /\ SameBooks(epdg, state)
        /\ state.children =
              CASE what = "child" -> epdg.children \cup {Key(m.sa, m.token, m.token)}
                [] what = "delchild" -> {k \in epdg.children : k.mine # m.token}
                [] OTHER -> epdg.children
    <2>1. CASE what = "refused"
      <3>1. state = epdg
        BY <2>1
      <3>2. SameBooks(epdg, epdg)
        BY DEF SameBooks
      <3> QED
        BY <1>5, <2>1, <3>1, <3>2
    <2>2. CASE what # "refused"
      <3>1. state = Grant(m) /\ what = m.what
        BY <1>7, <2>2
      <3> QED
        BY <1>6, <3>1
    <2> QED
      BY <2>1, <2>2
  <1> HIDE DEF reply, state
  <1>9. /\ after \in EpdgRecords
        /\ after.alive = state.alive /\ after.children = state.children
        /\ after.asks = state.asks /\ after.asked = state.asked
        /\ after.expects = [state.expects EXCEPT ![m.sa] = @ + 1]
        /\ after.said = [state.said EXCEPT ![m.sa] = reply]
    <2>1. m.sa \in Gens
      BY <1>2, MessageFields
    <2> QED
      <3>1. AnswerEffect(state, m.sa, reply)
        BY <1>4, <1>8, <2>1, AnswerUpdate
      <3> QED
        BY <3>1 DEF AnswerEffect
  <1> HIDE DEF after
  <1>10. /\ epdg' \in EpdgRecords /\ epdg'.alive /\ epdg'.children = state.children /\ epdg'.asks = epdg.asks
         /\ epdg'.asked = epdg.asked
         /\ epdg'.expects = [epdg.expects EXCEPT ![m.sa] = @ + 1]
         /\ epdg'.said = [epdg.said EXCEPT ![m.sa] = reply]
    BY <1>3, <1>8, <1>9, Zenon DEF SameBooks
  <1>11. EpdgAnswered(reply) /\ WellFormed(reply)
    BY <1>2, <1>4, <1>7 DEF EpdgAnswered, WellFormed, Kinds
  <1>12. EpdgStays /\ net' = net \cup {reply} /\ epdg.alive
    BY <1>3, <1>10 DEF EpdgStays
  <1> QED
    BY <1>2, <1>4, <1>7, <1>8, <1>10, <1>11, <1>12, ZenonT(40) DEF AnswerShape

LEMMA EpdgAsksShape ==
    ASSUME SessionParts, NEW sa \in Gens, NEW what \in Asks, NEW token \in -1 .. MaxProposals,
           EpdgAsks(sa, what, token)
    PROVE  \E m : AskShape(m)
  <1> DEFINE request == Request("ue", sa, epdg.asks[sa], what, token)
             after == [epdg EXCEPT !.asked[sa] = request, !.asks[sa] = @ + 1]
  <1>1. /\ sa \in epdg.sas /\ epdg.asked[sa] = None
        /\ what = "delchild" =>
              \E k \in epdg.children : k.mine = token /\ \A l \in epdg.children : l.mine >= token
    BY DEF EpdgAsks
  <1>2. epdg.alive /\ epdg' = after /\ net' = net \cup {request}
        /\ UNCHANGED <<ue, pending, cache, probes, runs, crossed>>
    BY DEF EpdgAsks, EpdgDoes
  <1>3. /\ request \in Messages /\ request.to = "ue" /\ ~request.reply
        /\ request.sa = sa /\ request.mid = epdg.asks[sa] /\ request.what = what /\ request.token = token
    <2>1. what \in Whats /\ "ue" \in {"ue", "epdg"} /\ epdg.asks[sa] \in Nat
      BY EpdgFields DEF Whats, SessionParts
    <2> QED
      BY <2>1, RequestFields
  <1> HIDE DEF request
  <1>4. /\ after \in EpdgRecords
        /\ after.alive = epdg.alive /\ after.sas = epdg.sas /\ after.children = epdg.children
        /\ after.expects = epdg.expects /\ after.said = epdg.said
        /\ after.asks = [epdg.asks EXCEPT ![sa] = @ + 1]
        /\ after.asked = [epdg.asked EXCEPT ![sa] = request]
    <2>1. AskEffect(epdg, sa, request)
      BY <1>3, AskUpdate DEF SessionParts
    <2> QED
      BY <2>1 DEF AskEffect
  <1> HIDE DEF after
  <1>5. EpdgAsked(request)
    BY <1>3 DEF EpdgAsked
  <1>6. epdg'.alive
    BY <1>2, <1>4, Zenon
  <1> QED
    BY <1>1, <1>2, <1>3, <1>4, <1>5, <1>6 DEF AskShape, EpdgStays

LEMMA EpdgHearsShape ==
    ASSUME SessionParts, IdsInv, NEW m, EpdgHears(m)
    PROVE  HearShape(m)
  <1> DEFINE request == epdg.asked[m.sa]
             state == Grant(request)
             after == [state EXCEPT !.asked[m.sa] = None]
  <1>1. /\ m \in net /\ m \in Messages /\ UeAnswered(m) /\ m.sa \in epdg.sas
        /\ request # None /\ request.mid = m.mid
        /\ epdg.alive /\ epdg' = after /\ net' = net
        /\ UNCHANGED <<ue, pending, cache, probes, runs, crossed>>
    BY DEF EpdgHears, ForEpdg, EpdgDoes, SessionParts, UeAnswered
  <1>2. epdg \in EpdgRecords /\ m.sa \in Gens
    BY <1>1, MessageFields DEF SessionParts
  <1>3. request \in Messages /\ request.what \in Asks
    BY <1>1, <1>2, EpdgFields DEF IdsInv
  <1>4. WellFormed(request)
    BY <1>3 DEF WellFormed, Asks, Kinds
  <1> HIDE DEF request
  <1>5. /\ state \in EpdgRecords /\ SameBooks(epdg, state)
        /\ state.children =
              CASE request.what = "child" -> epdg.children \cup {Key(request.sa, request.token, request.token)}
                [] request.what = "delchild" -> {k \in epdg.children : k.mine # request.token}
                [] OTHER -> epdg.children
    BY <1>2, <1>3, <1>4, GrantFields
  <1>6. state.children = IF request.what = "delchild"
                         THEN {k \in epdg.children : k.mine # request.token} ELSE epdg.children
    BY <1>3, <1>5 DEF Asks
  <1> HIDE DEF state
  <1>7. /\ after \in EpdgRecords
        /\ after.alive = state.alive /\ after.children = state.children
        /\ after.expects = state.expects /\ after.said = state.said /\ after.asks = state.asks
        /\ after.asked = [state.asked EXCEPT ![m.sa] = None]
    BY <1>2, <1>5, HearUpdate, Zenon
  <1> HIDE DEF after
  <1>8. /\ epdg'.alive /\ epdg'.children = state.children /\ epdg'.asks = epdg.asks
        /\ epdg'.expects = epdg.expects /\ epdg'.said = epdg.said
        /\ epdg'.asked = [epdg.asked EXCEPT ![m.sa] = None]
    BY <1>1, <1>5, <1>7, Zenon DEF SameBooks
  <1> QED
    BY <1>1, <1>6, <1>7, <1>8 DEF HearShape, EpdgStays, request

LEMMA EpdgDiesShape ==
    ASSUME SessionParts, EpdgDies
    PROVE  DieShape
  <1> DEFINE after == [epdg EXCEPT !.alive = FALSE]
  <1>1. /\ after \in EpdgRecords
        /\ ~after.alive /\ after.asks = epdg.asks /\ after.asked = epdg.asked /\ after.said = epdg.said
    BY DieUpdate, Zenon DEF SessionParts
  <1>2. epdg' = after /\ epdg.alive /\ net' = {m \in net : m.to = "epdg"}
        /\ UNCHANGED <<ue, pending, cache, probes, runs, crossed>>
    BY DEF EpdgDies
  <1> HIDE DEF after
  <1> QED
    BY <1>1, <1>2 DEF DieShape, EpdgStays

-----------------------------------------------------------------------------
(* Types and ids, kept by every shape of step.                             *)

TypesIds == SessionTypeOK /\ IdsInv

LEMMA QuietIds ==
    ASSUME TypesIds, Up', QuietShape
    PROVE  TypesIds'
  <1> USE DEF TypesIds
  <1>1. SessionParts /\ AllMessages \subseteq Messages
    BY SessionTypes, OutgoingType DEF OnlyMessages
  <1>2. SessionTypeOK'
    BY <1>1, SessionTypesPrime DEF SessionParts, QuietShape, PendingWanes
  <1>3. ue' = ue /\ epdg' = epdg /\ cache' = cache
    BY DEF QuietShape
  <1>4. \A m \in net' : m \in net \/ m \in Outgoing \/ m \in Answers \/ m \in Saved
    BY DEF QuietShape, AllMessages
  <1>5. /\ \A m \in Outgoing : UeAsked(m)
        /\ \A m \in Answers : EpdgAnswered(m)
        /\ \A m \in Saved : UeAnswered(m)
    BY DEF IdsInv
  <1>6. \A m \in Outgoing' : m \in Outgoing
    <2>1. pending' # None => pending # None /\ pending'.packet = pending.packet
      BY DEF QuietShape, PendingWanes
    <2> QED
      BY <1>4, <1>5, <2>1 DEF Outgoing, UeAsked, EpdgAnswered, UeAnswered
  <1>7. \A m \in Answers' : m \in Answers
    BY <1>3, <1>4, <1>5 DEF Answers, UeAsked, EpdgAnswered, UeAnswered
  <1>8. \A m \in Saved' : m \in Saved
    BY <1>3 DEF Saved
  <1>9. \A m \in net' : EpdgAsked(m) => m \in net
    BY <1>4, <1>5 DEF EpdgAsked, UeAsked, EpdgAnswered, UeAnswered
  <1>10. \A m \in Messages : Past(m) => Past(m)'
    BY <1>3 DEF Past
  <1>11. \A sa \in Gens : epdg.asks[sa] <= epdg'.asks[sa]
    BY <1>1, <1>3, EpdgFields DEF SessionParts
  <1> QED
    BY <1>2, <1>3, <1>6, <1>7, <1>8, <1>9, <1>10, <1>11, IdsStep

LEMMA RequestIds ==
    ASSUME TypesIds, SessionTypeOK', Up', NEW m, NEW what, NEW token, NextRequest(m, what, token),
           \/ ue'.sa = ue.sa /\ ue'.mid = ue.mid + 1
           \/ ue'.sa = ue.sa + 1,
           pending' # None => pending'.packet = m \/ (pending # None /\ pending'.packet = pending.packet),
           cache' = cache \/ cache' = <<>>
    PROVE  IdsInv'
  <1> USE DEF TypesIds
  <1>1. SessionParts
    BY SessionTypes
  <1>2. epdg' = epdg /\ net' \subseteq net \cup {m} /\ UeAsked(m) /\ WellFormed(m) /\ m \in Messages
        /\ m.sa = ue.sa /\ m.mid = ue.mid + 1
    BY DEF NextRequest
  <1>3. ue.sa \in Nat /\ ue.mid \in Int /\ ue'.sa \in Nat /\ ue'.mid \in Int
    BY <1>1, UeFields DEF NextRequest, Gens, SessionParts
  <1>4. ~Past(m) /\ Past(m)'
    BY <1>2, <1>3 DEF Past
  <1>5. \A n \in Messages : Past(n) => Past(n)'
    <2>1. \A n \in Messages : n.sa \in Nat /\ n.mid \in Nat
      BY MessageFields DEF Gens
    <2> QED
      BY <1>3, <2>1 DEF Past
  <1>6. \A n \in Outgoing' : n \in Outgoing \/ n = m
    BY <1>2 DEF Outgoing
  <1>7. \A n \in Answers' : n \in Answers
    BY <1>2 DEF Answers, UeAsked, EpdgAnswered
  <1>8. \A n \in Saved' : n \in Saved
    BY DEF Saved
  <1>9. \A n \in net' : EpdgAsked(n) => n \in net
    BY <1>2 DEF EpdgAsked, UeAsked
  <1>10. \A sa \in Gens : epdg.asks[sa] <= epdg'.asks[sa]
    BY <1>1, <1>2, EpdgFields DEF SessionParts
  <1> QED
    BY <1>2, <1>4, <1>5, <1>6, <1>7, <1>8, <1>9, <1>10, IdsStep

LEMMA RekeyIds ==
    ASSUME TypesIds, Up', NEW m, NEW kind \in Kinds, RekeyShape(m, kind)
    PROVE  TypesIds'
  <1> USE DEF TypesIds
  <1>1. NextRequest(m, kind, ue.made + 1)
    BY DEF RekeyShape
  <1>2. SessionTypeOK'
    BY <1>1, SessionTypes, SessionTypesPrime DEF SessionParts, RekeyShape, NextRequest
  <1> QED
    BY <1>1, <1>2, RequestIds DEF RekeyShape

LEMMA ProbeIds ==
    ASSUME TypesIds, Up', NEW m, ProbeShape(m)
    PROVE  TypesIds'
  <1> USE DEF TypesIds
  <1>1. NextRequest(m, "probe", -1)
    BY DEF ProbeShape
  <1>2. SessionTypeOK'
    BY <1>1, SessionTypes, SessionTypesPrime DEF SessionParts, ProbeShape, NextRequest
  <1> QED
    BY <1>1, <1>2, RequestIds DEF ProbeShape

LEMMA SwitchIkeIds ==
    ASSUME TypesIds, Up', NEW m, NEW n, SwitchIkeShape(m, n)
    PROVE  TypesIds'
  <1> USE DEF TypesIds
  <1>1. NextRequest(m, "delike", -1) /\ PendingWanes
    BY DEF SwitchIkeShape, Taken
  <1>2. SessionTypeOK'
    <2>1. <<>> \in Seq(CacheRecords) /\ Len(<<>>) = 0 /\ 0 \in 0 .. ProbeLimit /\ CacheLimit >= 0
      BY SessionAssumption
    <2> QED
      BY <1>1, <2>1, SessionTypes, SessionTypesPrime DEF SessionParts, SwitchIkeShape, NextRequest, Taken, PendingWanes
  <1> QED
    BY <1>1, <1>2, RequestIds DEF SwitchIkeShape, PendingWanes

LEMMA SwitchChildIds ==
    ASSUME TypesIds, Up', NEW m, NEW n, SwitchChildShape(m, n)
    PROVE  TypesIds'
  <1> USE DEF TypesIds
  <1>1. NextRequest(m, "delchild", ue.key.mine) /\ PendingWanes
    BY DEF SwitchChildShape, Taken
  <1>2. SessionTypeOK'
    <2>1. 0 \in 0 .. ProbeLimit
      BY SessionAssumption
    <2> QED
      BY <1>1, <2>1, SessionTypes, SessionTypesPrime DEF SessionParts, SwitchChildShape, NextRequest, Taken, PendingWanes
  <1> QED
    BY <1>1, <1>2, RequestIds DEF SwitchChildShape, PendingWanes

LEMMA HandleSaved ==
    ASSUME SessionParts, NEW m \in Messages, NEW r \in Messages, cache' = Cache(m, r)
    PROVE  \A n \in Saved' : n \in Saved \/ n = r
  <1>1. SessionParts /\ m \in Messages /\ r \in Messages /\ cache' = Cache(m, r)
    OBVIOUS
  <1>2. \A i \in DOMAIN cache' : cache'[i].reply \in Saved \/ cache'[i].reply = r
    <2>1. cache \in Seq(CacheRecords) /\ Len(cache) \in Nat /\ DOMAIN cache = 1 .. Len(cache)
          /\ Len(cache) <= CacheLimit /\ CacheLimit \in Nat \ {0}
      BY <1>1, SessionAssumption DEF SessionParts
    <2>2. DOMAIN cache' = 1 .. Len(cache')
      BY <1>1, CacheHolds
    <2>3. cache'[Len(cache')].reply = r
      BY <1>1, CacheHolds
    <2>4. ASSUME NEW i \in DOMAIN cache', i # Len(cache')
          PROVE  cache'[i].reply \in Saved
      <3>1. CASE Len(cache) < CacheLimit
        <4>1. i \in 1 .. Len(cache) /\ cache'[i] = cache[i]
          <5>1. /\ Len(cache') = Len(cache) + 1
                /\ \A j \in 1 .. Len(cache) : cache'[j] = cache[j]
            BY <1>1, <3>1, CacheHolds
          <5> QED
            BY <2>1, <2>2, <2>4, <5>1
        <4> QED
          BY <2>1, <4>1 DEF Saved
      <3>2. CASE Len(cache) = CacheLimit
        <4>1. i \in 1 .. CacheLimit - 1 /\ cache'[i] = cache[i + 1]
          <5>1. /\ Len(cache') = CacheLimit
                /\ \A j \in 1 .. CacheLimit - 1 : cache'[j] = cache[j + 1]
            BY <1>1, <3>2, CacheHolds
          <5> QED
            BY <2>1, <2>2, <2>4, <5>1
        <4>2. i + 1 \in DOMAIN cache
          BY <2>1, <3>2, <4>1
        <4> QED
          BY <4>1, <4>2 DEF Saved
      <3>3. Len(cache) < CacheLimit \/ Len(cache) = CacheLimit
        <4>1. Len(cache) \in Nat /\ CacheLimit \in Nat /\ Len(cache) <= CacheLimit
          BY <2>1
        <4> QED
          BY <4>1
      <3> QED
        BY <3>1, <3>2, <3>3
    <2> QED
      BY <2>3, <2>4
  <1> QED
    BY <1>2 DEF Saved

LEMMA HandleIds ==
    ASSUME TypesIds, Up', NEW m, NEW r, HandleShape(m, r)
    PROVE  TypesIds'
  <1> USE DEF TypesIds
  <1>1. SessionParts
    BY SessionTypes
  <1>2. /\ m \in Messages /\ r \in Messages /\ UeAnswered(r) /\ net' = net \cup {r}
        /\ ue' = ue /\ pending' = pending /\ epdg' = epdg /\ cache' = Cache(m, r)
    BY <1>1 DEF HandleShape, SessionParts
  <1>3. cache' \in Seq(CacheRecords) /\ Len(cache') <= CacheLimit
    BY <1>1, <1>2, CacheHolds
  <1>4. runs' \in [Gens -> Nat]
    <2>1. m.sa \in Gens
      BY <1>2, MessageFields
    <2> QED
      BY <1>1, <2>1 DEF HandleShape, SessionParts
  <1>5. SessionTypeOK'
    <2>1. 0 \in 0 .. ProbeLimit
      BY SessionAssumption
    <2> QED
      BY <1>1, <1>2, <1>3, <1>4, <2>1, SessionTypesPrime DEF SessionParts, HandleShape
  <1>6. \A n \in Outgoing' : n \in Outgoing
    BY <1>2 DEF Outgoing, UeAsked, UeAnswered
  <1>7. \A n \in Answers' : n \in Answers
    BY <1>2 DEF Answers, UeAnswered, EpdgAnswered
  <1>8. \A n \in Saved' : n \in Saved \/ n = r
    BY <1>1, <1>2, HandleSaved
  <1>9. \A n \in net' : EpdgAsked(n) => n \in net
    BY <1>2 DEF EpdgAsked, UeAnswered
  <1>10. \A n \in Messages : Past(n) => Past(n)'
    BY <1>2 DEF Past
  <1>11. \A sa \in Gens : epdg.asks[sa] <= epdg'.asks[sa]
    BY <1>1, <1>2, EpdgFields DEF SessionParts
  <1> QED
    BY <1>2, <1>5, <1>6, <1>7, <1>8, <1>9, <1>10, <1>11, IdsStep

LEMMA AnswerIds ==
    ASSUME TypesIds, Up', NEW m, NEW r, AnswerShape(m, r)
    PROVE  TypesIds'
  <1> USE DEF TypesIds
  <1>1. SessionParts
    BY SessionTypes
  <1>2. /\ ue' = ue /\ pending' = pending /\ cache' = cache /\ net' = net \cup {r}
        /\ epdg'.asks = epdg.asks /\ epdg'.asked = epdg.asked
        /\ epdg'.said = [epdg.said EXCEPT ![m.sa] = r]
        /\ m \in Outgoing /\ m \in Messages /\ r \in Messages /\ EpdgAnswered(r) /\ WellFormed(r)
        /\ r.sa = m.sa /\ r.mid = m.mid
    BY <1>1 DEF AnswerShape, EpdgStays, SessionParts, Outgoing
  <1>3. SessionTypeOK'
    BY <1>1, <1>2, SessionTypesPrime DEF SessionParts, AnswerShape, EpdgStays
  <1>4. Past(r)'
    BY <1>2 DEF IdsInv, Past
  <1>5. \A n \in Outgoing' : n \in Outgoing
    BY <1>2 DEF Outgoing, UeAsked, EpdgAnswered
  <1>6. \A n \in Answers' : n \in Answers \/ n = r
    <2>1. \A sa \in Gens : epdg'.said[sa] = r \/ epdg'.said[sa] = epdg.said[sa]
      BY <1>1, <1>2, EpdgFields DEF SessionParts
    <2> QED
      BY <1>2, <2>1 DEF Answers
  <1>7. \A n \in Saved' : n \in Saved
    BY <1>2 DEF Saved
  <1>8. \A n \in net' : EpdgAsked(n) => n \in net
    BY <1>2 DEF EpdgAsked, EpdgAnswered
  <1>9. \A n \in Messages : Past(n) => Past(n)'
    BY <1>2 DEF Past
  <1>10. \A sa \in Gens : epdg.asks[sa] <= epdg'.asks[sa]
    BY <1>1, <1>2, EpdgFields DEF SessionParts
  <1> QED
    BY <1>2, <1>3, <1>4, <1>5, <1>6, <1>7, <1>8, <1>9, <1>10, IdsStep

LEMMA AskIds ==
    ASSUME TypesIds, Up', NEW m, AskShape(m)
    PROVE  TypesIds'
  <1> USE DEF TypesIds
  <1>1. SessionParts
    BY SessionTypes
  <1>2. /\ ue' = ue /\ pending' = pending /\ cache' = cache /\ net' = net \cup {m}
        /\ epdg'.said = epdg.said
        /\ epdg'.asks = [epdg.asks EXCEPT ![m.sa] = @ + 1]
        /\ epdg'.asked = [epdg.asked EXCEPT ![m.sa] = m]
        /\ m \in Messages /\ EpdgAsked(m) /\ m.mid = epdg.asks[m.sa] /\ m.what \in Asks
    BY DEF AskShape, EpdgStays
  <1>3. SessionTypeOK'
    BY <1>1, <1>2, SessionTypesPrime DEF SessionParts, AskShape, EpdgStays
  <1>4. epdg.asks \in [Gens -> Nat] /\ epdg.asked \in [Gens -> Messages \cup {None}] /\ m.sa \in Gens
    BY <1>1, <1>2, EpdgFields, MessageFields DEF SessionParts
  <1>5. \A sa \in Gens : epdg.asks[sa] <= epdg'.asks[sa]
    BY <1>2, <1>4
  <1>6. m.mid < epdg'.asks[m.sa]
    BY <1>2, <1>4
  <1>7. \A sa \in Gens : epdg'.asked[sa] = epdg.asked[sa] \/ (sa = m.sa /\ epdg'.asked[sa] = m)
    BY <1>2, <1>4
  <1>8. \A n \in Outgoing' : n \in Outgoing
    BY <1>2 DEF Outgoing, UeAsked, EpdgAsked
  <1>9. \A n \in Answers' : n \in Answers
    BY <1>2 DEF Answers, EpdgAsked, EpdgAnswered
  <1>10. \A n \in Saved' : n \in Saved
    BY <1>2 DEF Saved
  <1>11. \A n \in net' : n \in net \/ n = m
    BY <1>2
  <1>12. \A n \in Messages : Past(n) => Past(n)'
    BY <1>2 DEF Past
  <1> QED
    BY <1>2, <1>3, <1>5, <1>6, <1>7, <1>8, <1>9, <1>10, <1>11, <1>12, IdsStep

LEMMA HearIds ==
    ASSUME TypesIds, Up', NEW m, HearShape(m)
    PROVE  TypesIds'
  <1> USE DEF TypesIds
  <1>1. SessionParts
    BY SessionTypes
  <1>2. /\ ue' = ue /\ pending' = pending /\ cache' = cache /\ net' = net
        /\ epdg'.said = epdg.said /\ epdg'.asks = epdg.asks
        /\ epdg'.asked = [epdg.asked EXCEPT ![m.sa] = None]
        /\ m \in Messages
    BY <1>1 DEF HearShape, EpdgStays, SessionParts
  <1>3. SessionTypeOK'
    BY <1>1, <1>2, SessionTypesPrime DEF SessionParts, HearShape, EpdgStays
  <1>4. /\ epdg.asks \in [Gens -> Nat]
        /\ \A sa \in Gens : epdg'.asked[sa] = epdg.asked[sa] \/ epdg'.asked[sa] = None
    BY <1>1, <1>2, EpdgFields, MessageFields DEF SessionParts
  <1>5. \A sa \in Gens : epdg.asks[sa] <= epdg'.asks[sa]
    BY <1>2, <1>4
  <1>6. Outgoing' = Outgoing /\ Answers' = Answers /\ Saved' = Saved
    BY <1>2 DEF Outgoing, Answers, Saved
  <1>7. \A n \in Messages : Past(n) => Past(n)'
    BY <1>2 DEF Past
  <1> QED
    BY <1>2, <1>3, <1>4, <1>5, <1>6, <1>7, IdsStep

LEMMA DieIds ==
    ASSUME TypesIds, Up', DieShape
    PROVE  TypesIds'
  <1> USE DEF TypesIds
  <1>1. SessionParts
    BY SessionTypes
  <1>2. /\ ue' = ue /\ pending' = pending /\ cache' = cache /\ net' \subseteq net
        /\ epdg'.said = epdg.said /\ epdg'.asks = epdg.asks /\ epdg'.asked = epdg.asked
    BY DEF DieShape, EpdgStays
  <1>3. SessionTypeOK'
    BY <1>1, <1>2, SessionTypesPrime DEF SessionParts, DieShape, EpdgStays
  <1>4. \A sa \in Gens : epdg.asks[sa] <= epdg'.asks[sa]
    BY <1>1, <1>2, EpdgFields DEF SessionParts
  <1>5. Outgoing' \subseteq Outgoing /\ Answers' \subseteq Answers /\ Saved' = Saved
    BY <1>2 DEF Outgoing, Answers, Saved
  <1>6. \A n \in Messages : Past(n) => Past(n)'
    BY <1>2 DEF Past
  <1> QED
    BY <1>2, <1>3, <1>4, <1>5, <1>6, IdsStep

-----------------------------------------------------------------------------
(* Agreement on the key, kept by every shape of step.                      *)

AgreeParts == ue.key \in epdg.children /\ TokensInv /\ DeletesInv /\ MatchInv /\ GrantedInv

LEMMA AgreeIs ==
    ASSUME TypesIds
    PROVE  /\ ue \in UeRecords /\ epdg \in EpdgRecords /\ net \subseteq Messages
           /\ Outgoing \subseteq Messages /\ Answers \subseteq Messages /\ Saved \subseteq Messages
           /\ pending # None => pending \in PendingRecords /\ pending.packet \in Messages
                                /\ pending.packet \in Outgoing
           /\ ue.key \in Keys /\ ue.key.mine \in Nat /\ ue.made \in Nat /\ ue.sa \in Nat /\ ue.mid \in Int
           /\ epdg.children \subseteq Keys /\ epdg.asks \in [Gens -> Nat] /\ epdg.expects \in [Gens -> Nat]
           /\ epdg.asked \in [Gens -> Messages \cup {None}] /\ epdg.said \in [Gens -> Messages \cup {None}]
           /\ \A k \in Keys : k.mine \in Nat
           /\ \A m \in Messages : m.sa \in Gens /\ m.sa \in Nat /\ m.mid \in Nat /\ m.token \in Int /\ m # None
  <1>1. SessionParts /\ AllMessages \subseteq Messages
    BY SessionTypes, OutgoingType DEF OnlyMessages, TypesIds
  <1>2. pending # None => pending \in PendingRecords /\ pending.packet \in Messages /\ pending.packet \in Outgoing
    BY <1>1, PendingFields DEF SessionParts, Outgoing
  <1>3. \A m \in Messages : m.sa \in Gens /\ m.sa \in Nat /\ m.mid \in Nat /\ m.token \in Int /\ m # None
    BY MessageFields DEF Gens
  <1>4. /\ ue.sa \in Nat /\ ue.mid \in Int /\ ue.key \in Keys /\ ue.made \in Nat
        /\ \A k \in Keys : k.mine \in Nat
    BY <1>1, UeFields, KeyIs DEF SessionParts, Gens
  <1> QED
    BY <1>1, <1>2, <1>3, <1>4, EpdgFields DEF SessionParts, AllMessages

LEMMA QuietAgrees ==
    ASSUME TypesIds, AgreeParts, QuietShape
    PROVE  AgreeParts'
  <1> USE AgreeIs
  <1>1. ue' = ue /\ epdg' = epdg /\ cache' = cache
    BY DEF QuietShape
  <1>2. \A m \in net' : m \in net \/ m \in Outgoing \/ m \in Answers \/ m \in Saved
    BY DEF QuietShape, AllMessages
  <1>3. /\ \A m \in Outgoing : UeAsked(m)
        /\ \A m \in Answers : EpdgAnswered(m)
        /\ \A m \in Saved : UeAnswered(m)
    BY DEF TypesIds, IdsInv
  <1>4. /\ pending' # None => /\ pending # None /\ pending'.packet = pending.packet /\ pending'.kind = pending.kind
                              /\ (pending.answered => pending'.answered)
    BY DEF QuietShape, PendingWanes
  <1>5. \A m \in Outgoing' : m \in Outgoing
    BY <1>2, <1>3, <1>4 DEF Outgoing, UeAsked, EpdgAnswered, UeAnswered
  <1>6. \A m \in Answers' : m \in Answers
    BY <1>1, <1>2, <1>3 DEF Answers, UeAsked, EpdgAnswered, UeAnswered
  <1>7. \A m \in net' : EpdgAsked(m) => m \in net
    BY <1>2, <1>3 DEF EpdgAsked, UeAsked, EpdgAnswered, UeAnswered
  <1>8. \A m \in net' : UeAsked(m) /\ m.what = "delchild" => m \in net
    BY <1>2, <1>3 DEF Outgoing, AgreeParts, TokensInv, UeAsked, EpdgAnswered, UeAnswered, PendingRecords, Kinds
  <1>9. \A m \in net' \cup Saved' : UeAnswered(m) => m \in net \cup Saved
    BY <1>1, <1>2, <1>3 DEF Saved, UeAsked, EpdgAnswered, UeAnswered
  <1>10. TokensInv'
    BY <1>1, <1>4, <1>5 DEF AgreeParts, TokensInv, Unanswered
  <1>11. DeletesInv'
    BY <1>1, <1>7, <1>8, <1>9 DEF AgreeParts, DeletesInv, EpdgAsked, UeAsked, UeAnswered
  <1>12. MatchInv'
    BY <1>1, <1>7, <1>9 DEF AgreeParts, MatchInv, EpdgAsked, UeAnswered
  <1>13. GrantedInv'
    BY <1>1, <1>4, <1>6 DEF AgreeParts, GrantedInv, Awaited
  <1> QED
    BY <1>1, <1>10, <1>11, <1>12, <1>13 DEF AgreeParts

LEMMA RekeyAgrees ==
    ASSUME TypesIds, AgreeParts, NEW m, NEW kind \in Kinds, RekeyShape(m, kind)
    PROVE  AgreeParts'
  <1> USE AgreeIs
  <1>1. /\ epdg' = epdg /\ cache' = cache /\ net' = net \cup {m}
        /\ ue'.key = ue.key /\ ue'.sa = ue.sa /\ ue'.made = ue.made + 1 /\ pending = None
        /\ pending' # None /\ pending'.packet = m /\ pending'.kind = kind
    BY DEF RekeyShape, NextRequest
  <1>2. /\ m \in Messages /\ UeAsked(m) /\ m.sa = ue.sa /\ m.mid = ue.mid + 1 /\ m.what = kind
        /\ m.token = ue.made + 1 /\ m.what \in Kinds
    BY DEF RekeyShape, NextRequest
  <1>3. /\ \A n \in Outgoing' : n \in Outgoing \/ n = m
        /\ \A n \in Answers' : n \in Answers
        /\ Saved' = Saved
    BY <1>1, <1>2 DEF Outgoing, Answers, Saved, UeAsked, EpdgAnswered
  <1>4. TokensInv'
    BY <1>1, <1>2, <1>3 DEF AgreeParts, TokensInv, Unanswered
  <1>5. DeletesInv'
    BY <1>1, <1>2, <1>3 DEF AgreeParts, DeletesInv, UeAsked, EpdgAsked, UeAnswered, Kinds
  <1>6. MatchInv'
    BY <1>1, <1>2, <1>3 DEF AgreeParts, MatchInv, UeAsked, EpdgAsked, UeAnswered
  <1>7. GrantedInv'
    <2>1. \A n \in Answers' : ~Awaited(n)'
      BY <1>1, <1>2, <1>3 DEF TypesIds, IdsInv, Past, Awaited
    <2> QED
      BY <2>1 DEF GrantedInv
  <1> QED
    BY <1>1, <1>4, <1>5, <1>6, <1>7 DEF AgreeParts

LEMMA ProbeAgrees ==
    ASSUME TypesIds, AgreeParts, NEW m, ProbeShape(m)
    PROVE  AgreeParts'
  <1> USE AgreeIs
  <1>1. /\ epdg' = epdg /\ cache' = cache /\ net' \subseteq net \cup {m}
        /\ ue'.key = ue.key /\ ue'.sa = ue.sa /\ ue'.made = ue.made /\ pending = None /\ pending' = None
    BY DEF ProbeShape, NextRequest
  <1>2. m \in Messages /\ UeAsked(m) /\ m.what = "probe"
    BY DEF ProbeShape, NextRequest
  <1>3. /\ \A n \in Outgoing' : n \in Outgoing \/ n = m
        /\ \A n \in Answers' : n \in Answers
        /\ Saved' = Saved
    BY <1>1, <1>2 DEF Outgoing, Answers, Saved, UeAsked, EpdgAnswered
  <1>4. TokensInv'
    BY <1>1, <1>2, <1>3 DEF AgreeParts, TokensInv, Unanswered
  <1>5. DeletesInv'
    BY <1>1, <1>2, <1>3 DEF AgreeParts, DeletesInv, UeAsked, EpdgAsked, UeAnswered
  <1>6. MatchInv'
    BY <1>1, <1>2, <1>3 DEF AgreeParts, MatchInv, UeAsked, EpdgAsked, UeAnswered
  <1>7. GrantedInv'
    BY <1>1 DEF GrantedInv, Awaited
  <1> QED
    BY <1>1, <1>4, <1>5, <1>6, <1>7 DEF AgreeParts

LEMMA SwitchIkeAgrees ==
    ASSUME TypesIds, AgreeParts, NEW m, NEW n, SwitchIkeShape(m, n)
    PROVE  AgreeParts'
  <1> USE AgreeIs
  <1>1. /\ epdg' = epdg /\ cache' = <<>> /\ net' = net \cup {m}
        /\ ue'.key = ue.key /\ ue'.made = ue.made
        /\ pending' # None => /\ pending # None /\ pending'.packet = pending.packet /\ pending'.kind = pending.kind
                              /\ pending'.answered
    BY DEF SwitchIkeShape, NextRequest, Taken, PendingWanes
  <1>2. m \in Messages /\ UeAsked(m) /\ m.what = "delike"
    BY DEF SwitchIkeShape, NextRequest
  <1>3. /\ \A l \in Outgoing' : l \in Outgoing \/ l = m
        /\ Saved' = {}
    BY <1>1, <1>2 DEF Outgoing, Saved, UeAsked, EpdgAnswered
  <1>4. TokensInv'
    BY <1>1, <1>2, <1>3 DEF AgreeParts, TokensInv, Unanswered
  <1>5. DeletesInv'
    BY <1>1, <1>2, <1>3 DEF AgreeParts, DeletesInv, UeAsked, EpdgAsked, UeAnswered
  <1>6. MatchInv'
    BY <1>1, <1>2, <1>3 DEF AgreeParts, MatchInv, UeAsked, EpdgAsked, UeAnswered
  <1>7. GrantedInv'
    BY <1>1 DEF GrantedInv, Awaited
  <1> QED
    BY <1>1, <1>4, <1>5, <1>6, <1>7 DEF AgreeParts

(* The response n is to the rekey in flight, which the ePDG granted.       *)
LEMMA SwitchChildAgrees ==
    ASSUME TypesIds, AgreeParts, NEW m, NEW n, SwitchChildShape(m, n), n.sa = ue.sa
    PROVE  AgreeParts'
  <1> USE AgreeIs
  <1>1. /\ epdg' = epdg /\ cache' = cache /\ net' = net \cup {m}
        /\ ue'.key = Key(ue.sa, ue.made, n.token) /\ ue'.made = ue.made /\ ue'.sa = ue.sa
        /\ pending' # None => /\ pending # None /\ pending'.packet = pending.packet /\ pending'.kind = pending.kind
                              /\ pending'.answered
    BY DEF SwitchChildShape, NextRequest, Taken, PendingWanes
  <1>2. m \in Messages /\ UeAsked(m) /\ m.what = "delchild" /\ m.token = ue.key.mine
    BY DEF SwitchChildShape, NextRequest
  <1>3. /\ \A l \in Outgoing' : l \in Outgoing \/ l = m
        /\ Saved' = Saved
    BY <1>1, <1>2 DEF Outgoing, Saved, UeAsked, EpdgAnswered
  <1>4. pending # None /\ ~pending.answered /\ n \in Answers /\ Awaited(n) /\ n.what = "child"
    BY DEF SwitchChildShape, Taken, Expected, Decodes, Answers, EpdgAnswered, Awaited
  <1>5. /\ n.token = ue.made /\ ue.key.mine < ue.made
        /\ ue'.key \in epdg.children /\ ue'.key.mine = ue.made
    <2>1. n.token = ue.made /\ ue.key.mine < ue.made
      BY <1>4 DEF AgreeParts, GrantedInv, TokensInv
    <2>2. Key(n.sa, n.token, n.token) \in epdg.children
      BY <1>4 DEF AgreeParts, GrantedInv
    <2>3. ue'.key = Key(ue.sa, ue.made, ue.made) /\ ue'.key \in epdg.children
      BY <1>1, <2>1, <2>2
    <2>4. Key(ue.sa, ue.made, ue.made).mine = ue.made
      BY DEF Key
    <2> QED
      BY <2>1, <2>3, <2>4
  <1>6. TokensInv'
    BY <1>1, <1>2, <1>3, <1>5 DEF AgreeParts, TokensInv, Unanswered
  <1>7. DeletesInv'
    BY <1>1, <1>2, <1>3, <1>5 DEF AgreeParts, DeletesInv, UeAsked, EpdgAsked, UeAnswered
  <1>8. MatchInv'
    BY <1>1, <1>2, <1>3 DEF AgreeParts, MatchInv, UeAsked, EpdgAsked, UeAnswered
  <1>9. GrantedInv'
    BY <1>1 DEF GrantedInv, Awaited
  <1> QED
    BY <1>1, <1>5, <1>6, <1>7, <1>8, <1>9 DEF AgreeParts

LEMMA HandleAgrees ==
    ASSUME TypesIds, AgreeParts, NEW m, NEW r, HandleShape(m, r), m.sa = ue.sa
    PROVE  AgreeParts'
  <1> USE AgreeIs
  <1>1. /\ ue' = ue /\ pending' = pending /\ epdg' = epdg /\ net' = net \cup {r} /\ cache' = Cache(m, r)
        /\ m \in net /\ m \in Messages /\ EpdgAsked(m) /\ ~EndsTunnel(m)
        /\ r \in Messages /\ UeAnswered(r) /\ r.sa = ue.sa /\ r.mid = m.mid /\ r.what = m.what /\ r.token = m.token
    BY DEF HandleShape, ReplySA
  <1>2. \A n \in Saved' : n \in Saved \/ n = r
    BY <1>1, HandleSaved, SessionTypes DEF TypesIds
  <1>3. Outgoing' = Outgoing /\ Answers' = Answers
    BY <1>1 DEF Outgoing, Answers, UeAsked, UeAnswered, EpdgAnswered
  <1>4. m.mid < epdg.asks[m.sa]
    BY <1>1 DEF TypesIds, IdsInv
  <1>5. r.what = "delchild" => r.token < ue.key.mine
    <2>1. m.token \in Int /\ ue.key.mine \in Nat
      BY <1>1
    <2>2. m.what = "delchild" => m.token <= ue.key.mine /\ m.token # ue.key.mine
      BY <1>1 DEF AgreeParts, DeletesInv, EndsTunnel
    <2> QED
      BY <1>1, <2>1, <2>2
  <1>6. TokensInv'
    BY <1>1, <1>3 DEF AgreeParts, TokensInv, Unanswered
  <1>7. DeletesInv'
    BY <1>1, <1>2, <1>5 DEF AgreeParts, DeletesInv, UeAsked, EpdgAsked, UeAnswered
  <1>8. MatchInv'
    BY <1>1, <1>2, <1>4 DEF AgreeParts, MatchInv, EpdgAsked, UeAnswered
  <1>9. GrantedInv'
    BY <1>1, <1>3 DEF AgreeParts, GrantedInv, Awaited
  <1> QED
    BY <1>1, <1>6, <1>7, <1>8, <1>9 DEF AgreeParts

(* A request is answered: a child is added, or one deleted that the        *)
(* process has left.                                                       *)
LEMMA AnswerAgrees ==
    ASSUME TypesIds, AgreeParts, NEW m, NEW r, AnswerShape(m, r)
    PROVE  AgreeParts'
  <1> USE AgreeIs
  <1> DEFINE granted == Key(m.sa, m.token, m.token)
  <1>1. /\ ue' = ue /\ pending' = pending /\ cache' = cache /\ net' = net \cup {r}
        /\ epdg'.asks = epdg.asks /\ epdg'.asked = epdg.asked
        /\ epdg'.expects = [epdg.expects EXCEPT ![m.sa] = @ + 1]
        /\ epdg'.said = [epdg.said EXCEPT ![m.sa] = r]
        /\ m \in Outgoing /\ m \in net /\ UeAsked(m) /\ m.mid = epdg.expects[m.sa]
        /\ r \in Messages /\ EpdgAnswered(r) /\ r.sa = m.sa /\ r.mid = m.mid /\ r.token = m.token
        /\ r.what \in {m.what, "refused"}
    BY DEF AnswerShape, EpdgStays, Outgoing
  <1>2. epdg'.children =
          CASE r.what = "child" -> epdg.children \cup {granted}
            [] r.what = "delchild" -> {k \in epdg.children : k.mine # m.token}
            [] OTHER -> epdg.children
    BY DEF AnswerShape
  <1>3. granted.mine = m.token
    BY DEF Key
  <1> HIDE DEF granted
  <1>4. r.what = "child" => m.what = "child" /\ epdg'.children = epdg.children \cup {granted}
    BY <1>1, <1>2
  <1>5. r.what = "delchild" => m.token < ue.key.mine
    BY <1>1 DEF AgreeParts, DeletesInv
  <1>6. \A k \in epdg.children : k.mine >= ue.key.mine => k \in epdg'.children
    BY <1>1, <1>2, <1>5
  <1>7. \A k \in epdg'.children : k \in epdg.children \/ (k = granted /\ m.what = "child")
    BY <1>1, <1>2
  <1>8. /\ \A n \in Outgoing' : n \in Outgoing
        /\ \A n \in Answers' : n \in Answers \/ n = r
        /\ Saved' = Saved
    <2>1. \A sa \in Gens : epdg'.said[sa] = r \/ epdg'.said[sa] = epdg.said[sa]
      BY <1>1
    <2> QED
      BY <1>1, <2>1 DEF Outgoing, Answers, Saved, UeAsked, EpdgAnswered
  <1>9. \A n \in Messages : Unanswered(n)' => Unanswered(n) /\ n # m
    <2>1. epdg'.expects[m.sa] = epdg.expects[m.sa] + 1
          /\ \A sa \in Gens : epdg'.expects[sa] >= epdg.expects[sa]
      BY <1>1
    <2> QED
      BY <1>1, <2>1 DEF Unanswered
  <1>10. ue'.key \in epdg'.children
    BY <1>1, <1>6 DEF AgreeParts
  <1>11. TokensInv'
    <2>1. m.what = "child" => m.token <= ue.made /\ \A k \in epdg.children : k.mine # m.token
      BY <1>1 DEF AgreeParts, TokensInv, Unanswered
    <2>2. \A k \in epdg'.children : k.mine <= ue.made
      BY <1>3, <1>7, <2>1 DEF AgreeParts, TokensInv
    <2>3. \A k, l \in epdg'.children : k.mine = l.mine => k = l
      BY <1>3, <1>7, <2>1 DEF AgreeParts, TokensInv
    <2>4. \A n \in Outgoing' : n.what = "child" /\ Unanswered(n)' => \A k \in epdg'.children : k.mine # n.token
      <3> SUFFICES ASSUME NEW n \in Outgoing', n.what = "child", Unanswered(n)', NEW k \in epdg'.children
                   PROVE  k.mine # n.token
        OBVIOUS
      <3>1. n \in Outgoing /\ n \in Messages
        BY <1>8
      <3>2. Unanswered(n) /\ n # m
        BY <1>9, <3>1
      <3>3. CASE k \in epdg.children
        BY <3>1, <3>2, <3>3 DEF AgreeParts, TokensInv
      <3>4. CASE k = granted /\ m.what = "child"
        BY <1>1, <1>3, <3>1, <3>2, <3>4 DEF AgreeParts, TokensInv
      <3> QED
        BY <1>7, <3>3, <3>4
    <2>5. /\ ue'.key.mine <= ue'.made
          /\ pending' # None => pending'.packet.what = pending'.kind
          /\ pending' # None /\ ~pending'.answered =>
                pending'.packet.sa = ue'.sa /\ pending'.packet.token = ue'.made /\ ue'.key.mine < ue'.made
          /\ \A n, l \in Outgoing' : n.what = "child" /\ l.what = "child" /\ n.token = l.token => n = l
          /\ \A n \in Outgoing' : n.what = "child" => n.token <= ue'.made
      BY <1>1, <1>8 DEF AgreeParts, TokensInv
    <2> QED
      BY <1>1, <2>2, <2>3, <2>4, <2>5 DEF TokensInv
  <1>12. DeletesInv'
    BY <1>1, <1>8 DEF AgreeParts, DeletesInv, UeAsked, EpdgAsked, UeAnswered, EpdgAnswered
  <1>13. MatchInv'
    BY <1>1, <1>8 DEF AgreeParts, MatchInv, EpdgAsked, UeAnswered, EpdgAnswered
  <1>14. GrantedInv'
    <2> SUFFICES ASSUME NEW n \in Answers', Awaited(n)', n.what = "child"
                 PROVE  n.token = pending'.packet.token /\ Key(n.sa, n.token, n.token) \in epdg'.children
      BY DEF GrantedInv
    <2>1. /\ pending # None /\ ~pending.answered /\ n.sa = ue.sa /\ n.mid = pending.packet.mid
          /\ pending.packet.sa = ue.sa /\ pending.packet.token = ue.made /\ ue.key.mine < ue.made
      BY <1>1 DEF Awaited, AgreeParts, TokensInv
    <2>2. CASE n \in Answers
      <3>1. n.token = pending.packet.token /\ Key(n.sa, n.token, n.token) \in epdg.children
        BY <2>1, <2>2 DEF AgreeParts, GrantedInv, Awaited
      <3>2. Key(n.sa, n.token, n.token).mine = n.token
        BY DEF Key
      <3> DEFINE k == Key(n.sa, n.token, n.token)
      <3> HIDE DEF k
      <3>3. k \in epdg.children /\ k.mine >= ue.key.mine
        BY <2>1, <3>1, <3>2 DEF k
      <3>4. k \in epdg'.children
        BY <1>6, <3>3
      <3> QED
        BY <1>1, <3>1, <3>4 DEF k
    <2>3. CASE n = r
      <3>1. m = pending.packet
        BY <1>1, <2>1, <2>3 DEF TypesIds, IdsInv
      <3>2. granted \in epdg'.children
        BY <1>4, <2>3
      <3> QED
        BY <1>1, <2>3, <3>1, <3>2 DEF granted
    <2> QED
      BY <1>8, <2>2, <2>3
  <1> QED
    BY <1>10, <1>11, <1>12, <1>13, <1>14 DEF AgreeParts

LEMMA AskAgrees ==
    ASSUME TypesIds, AgreeParts, NEW m, AskShape(m)
    PROVE  AgreeParts'
  <1> USE AgreeIs
  <1>1. /\ ue' = ue /\ pending' = pending /\ cache' = cache /\ net' = net \cup {m}
        /\ epdg'.said = epdg.said /\ epdg'.children = epdg.children /\ epdg'.expects = epdg.expects
        /\ epdg'.asks = [epdg.asks EXCEPT ![m.sa] = @ + 1]
        /\ epdg'.asked = [epdg.asked EXCEPT ![m.sa] = m]
        /\ m \in Messages /\ EpdgAsked(m) /\ m.mid = epdg.asks[m.sa] /\ m.what \in Asks
    BY DEF AskShape, EpdgStays
  <1>2. m.what = "delchild" => m.token <= ue.key.mine
    <2>1. m.what = "delchild" => \A l \in epdg.children : l.mine >= m.token
      BY DEF AskShape
    <2>2. m.token \in Int /\ ue.key.mine \in Nat /\ ue.key \in epdg.children
      BY <1>1 DEF AgreeParts
    <2> QED
      BY <2>1, <2>2
  <1>3. /\ Outgoing' = Outgoing /\ Answers' = Answers /\ Saved' = Saved
    BY <1>1 DEF Outgoing, Answers, Saved, UeAsked, EpdgAsked, EpdgAnswered
  <1>4. /\ epdg'.asked[m.sa] = m /\ epdg'.asks[m.sa] = epdg.asks[m.sa] + 1
        /\ \A sa \in Gens : sa # m.sa => epdg'.asked[sa] = epdg.asked[sa] /\ epdg'.asks[sa] = epdg.asks[sa]
    BY <1>1
  <1>5. \A n \in net : EpdgAsked(n) /\ n.sa = m.sa => n.mid < m.mid
    BY <1>1 DEF TypesIds, IdsInv
  <1>6. \A n \in net \cup Saved : UeAnswered(n) /\ n.sa = m.sa => n.mid < m.mid
    BY <1>1 DEF AgreeParts, MatchInv
  <1>7. TokensInv'
    BY <1>1, <1>3 DEF AgreeParts, TokensInv, Unanswered
  <1>8. DeletesInv'
    <2>1. \A n \in net' : n \in net \/ n = m
      BY <1>1
    <2>2. \A sa \in Gens : epdg'.asked[sa] # None /\ epdg'.asked[sa].what = "delchild" =>
             epdg'.asked[sa].token <= ue.key.mine
      BY <1>2, <1>4 DEF AgreeParts, DeletesInv
    <2> QED
      BY <1>1, <1>2, <1>3, <2>1, <2>2 DEF AgreeParts, DeletesInv, UeAsked, EpdgAsked, UeAnswered
  <1>9. MatchInv'
    <2>1. \A n \in net' \cup Saved' : UeAnswered(n) => n \in net \cup Saved
      BY <1>1, <1>3 DEF UeAnswered, EpdgAsked
    <2>2. \A n \in net' \cup Saved' : UeAnswered(n) => n.mid < epdg'.asks[n.sa]
      <3> SUFFICES ASSUME NEW n \in net \cup Saved, UeAnswered(n) PROVE n.mid < epdg'.asks[n.sa]
        BY <2>1
      <3>1. n.mid < epdg.asks[n.sa] /\ n.sa \in Gens /\ n.mid \in Nat
        BY DEF AgreeParts, MatchInv
      <3> QED
        BY <1>4, <3>1
    <2>3. \A n \in net' : EpdgAsked(n) /\ epdg'.asked[n.sa] # None /\ epdg'.asked[n.sa].mid = n.mid =>
             n = epdg'.asked[n.sa]
      <3> SUFFICES ASSUME NEW n \in net, EpdgAsked(n), epdg'.asked[n.sa] # None, epdg'.asked[n.sa].mid = n.mid
                   PROVE  n = epdg'.asked[n.sa]
        BY <1>1, <1>4
      <3>1. CASE n.sa = m.sa
        BY <1>4, <1>5, <3>1
      <3>2. CASE n.sa # m.sa
        BY <1>4, <3>2 DEF AgreeParts, MatchInv
      <3> QED
        BY <3>1, <3>2
    <2>4. \A n \in net' \cup Saved' :
             UeAnswered(n) /\ epdg'.asked[n.sa] # None /\ epdg'.asked[n.sa].mid = n.mid =>
                n.what = epdg'.asked[n.sa].what /\ n.token = epdg'.asked[n.sa].token
      <3> SUFFICES ASSUME NEW n \in net \cup Saved, UeAnswered(n), epdg'.asked[n.sa] # None,
                          epdg'.asked[n.sa].mid = n.mid
                   PROVE  n.what = epdg'.asked[n.sa].what /\ n.token = epdg'.asked[n.sa].token
        BY <2>1
      <3>1. CASE n.sa = m.sa
        BY <1>4, <1>6, <3>1
      <3>2. CASE n.sa # m.sa
        BY <1>4, <3>2 DEF AgreeParts, MatchInv
      <3> QED
        BY <3>1, <3>2
    <2> QED
      BY <2>2, <2>3, <2>4, Zenon DEF MatchInv, UeAnswered, EpdgAsked
  <1>10. GrantedInv'
    BY <1>1, <1>3 DEF AgreeParts, GrantedInv, Awaited
  <1> QED
    BY <1>1, <1>7, <1>8, <1>9, <1>10 DEF AgreeParts

LEMMA HearAgrees ==
    ASSUME TypesIds, AgreeParts, NEW m, HearShape(m)
    PROVE  AgreeParts'
  <1> USE AgreeIs
  <1>1. /\ ue' = ue /\ pending' = pending /\ cache' = cache /\ net' = net
        /\ epdg'.said = epdg.said /\ epdg'.asks = epdg.asks /\ epdg'.expects = epdg.expects
        /\ epdg'.asked = [epdg.asked EXCEPT ![m.sa] = None]
        /\ m \in net /\ m \in Messages /\ UeAnswered(m)
        /\ epdg.asked[m.sa] # None /\ epdg.asked[m.sa].mid = m.mid
    BY DEF HearShape, EpdgStays
  <1>2. Outgoing' = Outgoing /\ Answers' = Answers /\ Saved' = Saved
    BY <1>1 DEF Outgoing, Answers, Saved
  <1>3. epdg.asked[m.sa].what = "delchild" => epdg.asked[m.sa].token < ue.key.mine
    BY <1>1 DEF AgreeParts, MatchInv, DeletesInv
  <1>4. /\ epdg'.children \subseteq epdg.children
        /\ \A k \in epdg.children : k.mine >= ue.key.mine => k \in epdg'.children
    <2>1. epdg'.children = IF epdg.asked[m.sa].what = "delchild"
                           THEN {k \in epdg.children : k.mine # epdg.asked[m.sa].token}
                           ELSE epdg.children
      BY DEF HearShape
    <2>2. epdg.asked[m.sa].token \in Int
      BY <1>1
    <2> QED
      BY <1>3, <2>1, <2>2
  <1>5. \A sa \in Gens : epdg'.asked[sa] = epdg.asked[sa] \/ epdg'.asked[sa] = None
    BY <1>1
  <1>6. ue'.key \in epdg'.children
    BY <1>1, <1>4 DEF AgreeParts
  <1>7. TokensInv'
    BY <1>1, <1>2, <1>4 DEF AgreeParts, TokensInv, Unanswered
  <1>8. DeletesInv'
    BY <1>1, <1>2, <1>5 DEF AgreeParts, DeletesInv
  <1>9. MatchInv'
    <2>1. net' \subseteq Messages /\ Saved' \subseteq Messages
      BY <1>1, <1>2
    <2> QED
      BY <1>1, <1>2, <1>5, <2>1 DEF AgreeParts, MatchInv
  <1>10. GrantedInv'
    <2> SUFFICES ASSUME NEW n \in Answers, Awaited(n)', n.what = "child"
                 PROVE  n.token = pending'.packet.token /\ Key(n.sa, n.token, n.token) \in epdg'.children
      BY <1>2 DEF GrantedInv
    <2>1. /\ pending # None /\ ~pending.answered /\ n.sa = ue.sa /\ n.mid = pending.packet.mid
          /\ pending.packet.token = ue.made /\ ue.key.mine < ue.made
      BY <1>1 DEF Awaited, AgreeParts, TokensInv
    <2>2. n.token = pending.packet.token /\ Key(n.sa, n.token, n.token) \in epdg.children
      BY <2>1 DEF AgreeParts, GrantedInv, Awaited
    <2> DEFINE k == Key(n.sa, n.token, n.token)
    <2>3. k.mine = n.token
      BY DEF Key
    <2> HIDE DEF k
    <2>4. k \in epdg.children /\ k.mine >= ue.key.mine
      BY <2>1, <2>2, <2>3 DEF k
    <2>5. k \in epdg'.children
      BY <1>4, <2>4
    <2> QED
      BY <1>1, <2>2, <2>5 DEF k
  <1> QED
    BY <1>6, <1>7, <1>8, <1>9, <1>10 DEF AgreeParts

-----------------------------------------------------------------------------
(* The replies kept, by every shape of step.                               *)

(* Three parts: the cache, what was served, and a dead ePDG.               *)
CacheKept == Up /\ ~crossed => CacheInv
Served == Holding => ServedInv
DeadSilent == ~epdg.alive => \A m \in net : m.to = "epdg"

LEMMA OnceParts == OnceInv <=> CacheKept /\ Served /\ DeadSilent
  BY DEF OnceInv, CacheKept, Served, DeadSilent

LEMMA OncePartsPrime == OnceInv' <=> CacheKept' /\ Served' /\ DeadSilent'
  BY OnceParts, PTL

LEMMA CacheIs ==
    ASSUME TypesIds
    PROVE  /\ cache \in Seq(CacheRecords) /\ Len(cache) \in Nat /\ Len(cache) <= CacheLimit
           /\ DOMAIN cache = 1 .. Len(cache)
           /\ CacheLimit \in Nat /\ CacheLimit >= 1
           /\ runs \in [Gens -> Nat]
           /\ \A i \in DOMAIN cache : cache[i].mid \in Nat /\ cache[i].reply \in Messages
  <1>1. SessionParts
    BY SessionTypes DEF TypesIds
  <1>2. cache \in Seq(CacheRecords)
    BY <1>1 DEF SessionParts
  <1>3. \A i \in DOMAIN cache : cache[i] \in CacheRecords
    BY <1>2
  <1>4. \A i \in DOMAIN cache : cache[i].mid \in Nat /\ cache[i].reply \in Messages
    BY <1>3 DEF CacheRecords
  <1> QED
    BY <1>1, <1>2, <1>4, SessionAssumption DEF SessionParts

LEMMA QuietServed ==
    ASSUME TypesIds, OnceInv, Up, QuietShape
    PROVE  OnceInv'
  <1> USE AgreeIs
  <1>1. /\ ue' = ue /\ epdg' = epdg /\ cache' = cache /\ runs' = runs /\ (crossed => crossed')
        /\ epdg.alive \/ net' \subseteq net \cup Outgoing \cup Saved
    BY DEF QuietShape
  <1>2. \A m \in net' : m \in net \/ m \in Outgoing \/ m \in Answers \/ m \in Saved
    BY DEF QuietShape, AllMessages
  <1>3. /\ \A m \in Outgoing : UeAsked(m)
        /\ \A m \in Answers : EpdgAnswered(m)
        /\ \A m \in Saved : UeAnswered(m)
    BY DEF TypesIds, IdsInv
  <1>4. CacheKept /\ Served /\ DeadSilent
    BY OnceParts
  <1>5. CacheKept'
    BY <1>1, <1>4 DEF CacheKept, CacheInv, Handled
  <1>6. Served'
    <2> SUFFICES ASSUME Holding' PROVE ServedInv'
      BY DEF Served
    <2>1. ServedInv /\ CacheInv
      BY <1>1, <1>4 DEF Served, CacheKept, Holding
    <2>2. \A m \in net' : EpdgAsked(m) => m \in net
      BY <1>2, <1>3 DEF EpdgAsked, UeAsked, EpdgAnswered, UeAnswered
    <2>3. \A m \in net' : UeAnswered(m) => m \in net \/ m \in Saved
      BY <1>2, <1>3 DEF UeAsked, EpdgAnswered, UeAnswered
    <2>4. \A m \in Saved : m.mid < runs[m.sa]
      <3> SUFFICES ASSUME NEW i \in DOMAIN cache PROVE cache[i].reply.mid < runs[cache[i].reply.sa]
        BY DEF Saved
      <3>1. cache[i].reply.sa = ue.sa /\ cache[i].reply.mid = runs[ue.sa] - Len(cache) + i - 1
        BY <2>1 DEF CacheInv, Handled
      <3>2. runs[ue.sa] \in Nat /\ i \in 1 .. Len(cache) /\ Len(cache) \in Nat
        BY CacheIs DEF UeRecords
      <3> QED
        BY <3>1, <3>2
    <2>5. \A m \in net' : UeAnswered(m) => m.mid < runs[m.sa]
      BY <2>1, <2>3, <2>4 DEF ServedInv
    <2> QED
      BY <1>1, <2>1, <2>2, <2>5 DEF ServedInv, ExchangeOf
  <1>7. DeadSilent'
    BY <1>1, <1>2, <1>3, <1>4 DEF DeadSilent, UeAsked, UeAnswered
  <1> QED
    BY <1>5, <1>6, <1>7, OncePartsPrime

(* A request of the process that stays on its IKE SA.                      *)
LEMMA RequestServed ==
    ASSUME TypesIds, OnceInv, Up, NEW m, UeAsked(m), net' \subseteq net \cup {m},
           ue'.sa = ue.sa, UNCHANGED <<epdg, runs, cache>>, crossed => crossed'
    PROVE  OnceInv'
  <1>1. CacheKept /\ Served /\ DeadSilent
    BY OnceParts
  <1>2. CacheKept'
    BY <1>1 DEF CacheKept, CacheInv, Handled
  <1>3. Served'
    BY <1>1 DEF Served, Holding, ServedInv, ExchangeOf, UeAsked, UeAnswered, EpdgAsked
  <1>4. DeadSilent'
    BY <1>1 DEF DeadSilent, UeAsked
  <1> QED
    BY <1>2, <1>3, <1>4, OncePartsPrime

LEMMA SwitchIkeServed ==
    ASSUME TypesIds, OnceInv, Up, NEW m, NEW n, SwitchIkeShape(m, n)
    PROVE  OnceInv'
  <1> USE AgreeIs, CacheIs
  <1>1. CacheKept /\ Served /\ DeadSilent
    BY OnceParts
  <1>2. /\ epdg' = epdg /\ runs' = runs /\ cache' = <<>> /\ net' \subseteq net \cup {m} /\ UeAsked(m)
        /\ ue'.sa = ue.sa + 1 /\ (crossed => crossed') /\ ue'.sa \in Gens
    BY UeFields DEF SwitchIkeShape, NextRequest, Taken
  <1>3. CacheKept'
    <2> SUFFICES ASSUME ~crossed' PROVE CacheInv'
      BY DEF CacheKept
    <2>1. CacheInv
      BY <1>1, <1>2 DEF CacheKept
    <2>2. \A sa \in Gens : sa \in Nat
      BY DEF Gens
    <2>3. \A sa \in Gens : sa >= ue'.sa => runs[sa] = 0
      BY <1>2, <2>1, <2>2 DEF CacheInv
    <2>4. Handled' = 0 /\ Len(cache') = 0 /\ DOMAIN cache' = {}
      BY <1>2, <2>2, <2>3 DEF Handled
    <2>5. \A i \in DOMAIN cache' :
            /\ cache'[i].reply.sa = ue'.sa
            /\ cache'[i].mid = Handled' - Len(cache') + i - 1 /\ cache'[i].reply.mid = cache'[i].mid
      BY <2>4
    <2>6. Len(cache') = IF Handled' <= CacheLimit THEN Handled' ELSE CacheLimit
      BY <2>4
    <2> QED
      BY <1>2, <2>1, <2>2, <2>3, <2>5, <2>6 DEF CacheInv
  <1>4. Served'
    <2>1. DOMAIN cache' = {}
      BY <1>2
    <2>2. \A sa \in Gens : sa \in Nat
      BY DEF Gens
    <2>3. SUFFICES ASSUME Holding' PROVE ServedInv'
      BY DEF Served
    <2>4. ServedInv
      BY <1>1, <1>2, <2>3 DEF Served, Holding
    <2>5. \A l \in net' : l \in net \/ l = m
      BY <1>2
    <2>6. \A l \in net' : UeAnswered(l) => l.mid < runs[l.sa]
      BY <1>2, <2>4, <2>5 DEF ServedInv, UeAsked, UeAnswered
    <2>7. \A l, k \in net' : EpdgAsked(l) /\ EpdgAsked(k) /\ l.sa = k.sa /\ l.mid = k.mid => l = k
      BY <1>2, <2>4, <2>5 DEF ServedInv, UeAsked, EpdgAsked
    <2>8. \A sa \in Gens : sa >= ue'.sa =>
            /\ epdg.asks[sa] <= runs[sa] + 1
            /\ epdg.asked[sa] = None => epdg.asks[sa] = runs[sa]
            /\ epdg.asked[sa] # None => epdg.asked[sa].mid = epdg.asks[sa] - 1
      BY <1>2, <2>2, <2>4, SMTT(30) DEF ServedInv
    <2> QED
      BY <1>2, <2>1, <2>6, <2>7, <2>8 DEF ServedInv
  <1>5. DeadSilent'
    BY <1>1, <1>2 DEF DeadSilent, UeAsked
  <1> QED
    BY <1>3, <1>4, <1>5, OncePartsPrime

LEMMA AnswerServed ==
    ASSUME TypesIds, OnceInv, Up, NEW m, NEW r, AnswerShape(m, r)
    PROVE  OnceInv'
  <1>1. CacheKept /\ Served /\ DeadSilent
    BY OnceParts
  <1>2. /\ UNCHANGED <<ue, cache, runs, crossed>> /\ net' = net \cup {r} /\ EpdgAnswered(r)
        /\ epdg'.asks = epdg.asks /\ epdg'.asked = epdg.asked /\ epdg.alive /\ epdg'.alive
    BY DEF AnswerShape, EpdgStays
  <1>3. CacheKept'
    BY <1>1, <1>2 DEF CacheKept, CacheInv, Handled
  <1>4. Served'
    BY <1>1, <1>2 DEF Served, Holding, ServedInv, ExchangeOf, EpdgAnswered, UeAnswered, EpdgAsked
  <1>5. DeadSilent'
    BY <1>2 DEF DeadSilent
  <1> QED
    BY <1>3, <1>4, <1>5, OncePartsPrime

LEMMA DieServed ==
    ASSUME TypesIds, OnceInv, Up, DieShape
    PROVE  OnceInv'
  <1>1. CacheKept
    BY OnceParts
  <1>2. /\ UNCHANGED <<ue, cache, runs, crossed>> /\ net' = {m \in net : m.to = "epdg"}
        /\ epdg'.asks = epdg.asks /\ ~epdg'.alive
    BY DEF DieShape, EpdgStays
  <1>3. CacheKept'
    BY <1>1, <1>2 DEF CacheKept, CacheInv, Handled
  <1>4. Served'
    BY <1>2 DEF Served, Holding
  <1>5. DeadSilent'
    BY <1>2 DEF DeadSilent
  <1> QED
    BY <1>3, <1>4, <1>5, OncePartsPrime

LEMMA AskServed ==
    ASSUME TypesIds, OnceInv, Up, NEW m, AskShape(m)
    PROVE  OnceInv'
  <1> USE AgreeIs, CacheIs
  <1>1. CacheKept /\ Served /\ DeadSilent
    BY OnceParts
  <1>2. /\ UNCHANGED <<ue, cache, runs, crossed>> /\ net' = net \cup {m} /\ EpdgAsked(m) /\ m \in Messages
        /\ m.mid = epdg.asks[m.sa] /\ epdg.asked[m.sa] = None
        /\ epdg'.asks = [epdg.asks EXCEPT ![m.sa] = @ + 1]
        /\ epdg'.asked = [epdg.asked EXCEPT ![m.sa] = m] /\ epdg.alive /\ epdg'.alive
    BY DEF AskShape, EpdgStays
  <1>3. /\ epdg'.asked[m.sa] = m /\ epdg'.asks[m.sa] = epdg.asks[m.sa] + 1
        /\ \A sa \in Gens : sa # m.sa => epdg'.asked[sa] = epdg.asked[sa] /\ epdg'.asks[sa] = epdg.asks[sa]
        /\ \A sa \in Gens : epdg'.asks[sa] >= epdg.asks[sa]
    BY <1>2, SMTT(30)
  <1>4. CacheKept'
    <2> SUFFICES ASSUME ~crossed' PROVE CacheInv'
      BY DEF CacheKept
    <2>1. CacheInv
      BY <1>1, <1>2 DEF CacheKept
    <2>2. \A sa \in Gens : runs[sa] <= epdg'.asks[sa]
      <3> SUFFICES ASSUME NEW sa \in Gens PROVE runs[sa] <= epdg'.asks[sa]
        OBVIOUS
      <3>1. runs[sa] <= epdg.asks[sa] /\ epdg'.asks[sa] >= epdg.asks[sa]
        BY <1>3, <2>1 DEF CacheInv
      <3>2. runs[sa] \in Nat /\ epdg.asks[sa] \in Nat /\ epdg'.asks[sa] \in Nat
        BY <1>2, SMTT(30)
      <3> QED
        BY <3>1, <3>2
    <2> QED
      BY <1>2, <2>1, <2>2 DEF CacheInv, Handled
  <1>5. Served'
    <2> SUFFICES ASSUME Holding' PROVE ServedInv'
      BY DEF Served
    <2>1. ServedInv /\ CacheInv
      BY <1>1, <1>2 DEF Served, CacheKept, Holding
    <2>2. \A n \in net : EpdgAsked(n) /\ n.sa = m.sa => n.mid < m.mid
      BY <1>2 DEF TypesIds, IdsInv
    <2>3. \A n \in net' : UeAnswered(n) => n.mid < runs[n.sa]
      BY <1>2, <2>1 DEF ServedInv, UeAnswered, EpdgAsked
    <2>4. \A n, l \in net' : EpdgAsked(n) /\ EpdgAsked(l) /\ n.sa = l.sa /\ n.mid = l.mid => n = l
      BY <1>2, <2>1, <2>2 DEF ServedInv
    <2>5. \A n \in net', i \in DOMAIN cache' :
            EpdgAsked(n) /\ n.sa = ue'.sa /\ n.mid = cache'[i].mid => cache'[i].exchange = ExchangeOf(n)
      <3> SUFFICES ASSUME NEW n \in net', NEW i \in DOMAIN cache,
                          EpdgAsked(n), n.sa = ue.sa, n.mid = cache[i].mid
                   PROVE  cache[i].exchange = ExchangeOf(n)
        BY <1>2, SMTT(30)
      <3>1. n # m
        <4> SUFFICES ASSUME n = m PROVE FALSE
          OBVIOUS
        <4>1. cache[i].mid = runs[ue.sa] - Len(cache) + i - 1 /\ i \in 1 .. Len(cache)
          BY <2>1 DEF CacheInv, Handled
        <4>2. runs[ue.sa] \in Nat /\ runs[ue.sa] <= epdg.asks[ue.sa] /\ epdg.asks[ue.sa] \in Nat
          BY <1>2, <2>1 DEF CacheInv
        <4>3. cache[i].mid < epdg.asks[ue.sa]
          BY <4>1, <4>2
        <4> QED
          BY <1>2, <4>2, <4>3
      <3> QED
        BY <1>2, <2>1, <3>1 DEF ServedInv
    <2>6. \A sa \in Gens : sa >= ue.sa =>
            /\ epdg'.asks[sa] <= runs[sa] + 1
            /\ epdg'.asked[sa] = None => epdg'.asks[sa] = runs[sa]
            /\ epdg'.asked[sa] # None => epdg'.asked[sa].mid = epdg'.asks[sa] - 1
      <3> SUFFICES ASSUME NEW sa \in Gens, sa >= ue.sa
                   PROVE  /\ epdg'.asks[sa] <= runs[sa] + 1
                          /\ epdg'.asked[sa] = None => epdg'.asks[sa] = runs[sa]
                          /\ epdg'.asked[sa] # None => epdg'.asked[sa].mid = epdg'.asks[sa] - 1
        OBVIOUS
      <3>1. CASE sa = m.sa
        <4>1. epdg.asks[sa] = runs[sa] /\ epdg.asks[sa] \in Nat
          BY <1>2, <2>1, <3>1 DEF ServedInv
        <4>2. /\ epdg'.asked[sa] = m /\ epdg'.asks[sa] = epdg.asks[sa] + 1
              /\ m # None /\ m.mid = epdg.asks[sa]
          BY <1>2, <1>3, <3>1
        <4>3. runs[sa] \in Nat
          BY <1>2
        <4> QED
          BY <4>1, <4>2, <4>3
      <3>2. CASE sa # m.sa
        BY <1>3, <2>1, <3>2 DEF ServedInv
      <3> QED
        BY <3>1, <3>2
    <2> QED
      BY <1>2, <2>3, <2>4, <2>5, <2>6 DEF ServedInv
  <1>6. DeadSilent'
    BY <1>2 DEF DeadSilent
  <1> QED
    BY <1>4, <1>5, <1>6, OncePartsPrime

LEMMA HearServed ==
    ASSUME TypesIds, OnceInv, Up, NEW m, HearShape(m)
    PROVE  OnceInv'
  <1> USE AgreeIs, CacheIs
  <1>1. CacheKept /\ Served /\ DeadSilent
    BY OnceParts
  <1>2. /\ UNCHANGED <<ue, cache, runs, crossed>> /\ net' = net /\ UeAnswered(m) /\ m \in Messages /\ m \in net
        /\ epdg.asked[m.sa] # None /\ epdg.asked[m.sa].mid = m.mid
        /\ epdg'.asks = epdg.asks
        /\ epdg'.asked = [epdg.asked EXCEPT ![m.sa] = None] /\ epdg.alive /\ epdg'.alive
    BY DEF HearShape, EpdgStays
  <1>3. CacheKept'
    BY <1>1, <1>2 DEF CacheKept, CacheInv, Handled
  <1>4. Served'
    <2> SUFFICES ASSUME Holding' PROVE ServedInv'
      BY DEF Served
    <2>1. ServedInv /\ CacheInv
      BY <1>1, <1>2 DEF Served, CacheKept, Holding
    <2>2. m.sa >= ue.sa => epdg.asks[m.sa] = runs[m.sa]
      <3> SUFFICES ASSUME m.sa >= ue.sa PROVE epdg.asks[m.sa] = runs[m.sa]
        OBVIOUS
      <3>1. m.mid < runs[m.sa] /\ m.mid = epdg.asks[m.sa] - 1 /\ runs[m.sa] <= epdg.asks[m.sa]
        BY <1>2, <2>1 DEF ServedInv, CacheInv
      <3>2. m.mid \in Nat /\ runs[m.sa] \in Nat /\ epdg.asks[m.sa] \in Nat
        BY <1>2
      <3> QED
        BY <3>1, <3>2
    <2>3. \A sa \in Gens : epdg'.asked[sa] = IF sa = m.sa THEN None ELSE epdg.asked[sa]
      BY <1>2
    <2>4. \A sa \in Gens : sa >= ue.sa =>
            /\ epdg'.asks[sa] <= runs[sa] + 1
            /\ epdg'.asked[sa] = None => epdg'.asks[sa] = runs[sa]
            /\ epdg'.asked[sa] # None => epdg'.asked[sa].mid = epdg'.asks[sa] - 1
      BY <1>2, <2>1, <2>2, <2>3, SMTT(30) DEF ServedInv
    <2> QED
      BY <1>2, <2>1, <2>4 DEF ServedInv, ExchangeOf
  <1>5. DeadSilent'
    BY <1>2 DEF DeadSilent
  <1> QED
    BY <1>3, <1>4, <1>5, OncePartsPrime

(* A request not in the cache is the last one, not handled before: one     *)
(* that was is in the cache, or the ePDG has sent too many since for it to *)
(* be under way.                                                           *)
LEMMA HandledNext ==
    ASSUME TypesIds, CacheInv, ServedInv, NEW m, NEW r, HandleShape(m, r), m.sa = ue.sa
    PROVE  /\ m.mid = Handled /\ epdg.asks[ue.sa] = Handled + 1 /\ epdg.asked[ue.sa] # None
           /\ m \in Messages /\ Handled \in Nat
  <1> USE AgreeIs, CacheIs
  <1>1. /\ m \in net /\ m \in Messages /\ EpdgAsked(m) /\ Cached(m) = {}
        /\ epdg.asks[m.sa] <= m.mid + CacheLimit
    BY DEF HandleShape, Decodes, InTime, EpdgAsked
  <1>2. /\ Handled \in Nat /\ m.mid \in Nat /\ epdg.asks[ue.sa] \in Nat /\ Len(cache) \in Nat
        /\ ue.sa \in Gens
    BY <1>1 DEF Handled
  <1>3. m.mid < epdg.asks[ue.sa] /\ epdg.asks[ue.sa] <= Handled + 1 /\ Handled <= epdg.asks[ue.sa]
    BY <1>1, <1>2, SMTT(30) DEF TypesIds, IdsInv, ServedInv, CacheInv, Handled
  <1>4. \A i \in 1 .. Len(cache) : cache[i].mid # m.mid
    <2> SUFFICES ASSUME NEW i \in 1 .. Len(cache), cache[i].mid = m.mid PROVE FALSE
      OBVIOUS
    <2>1. cache[i].exchange = ExchangeOf(m)
      BY <1>1 DEF ServedInv
    <2> QED
      BY <1>1, <2>1 DEF Cached
  <1>5. ~(m.mid < Handled)
    <2> SUFFICES ASSUME m.mid < Handled PROVE FALSE
      OBVIOUS
    <2> DEFINE i == m.mid - Handled + Len(cache) + 1
    <2>1. Len(cache) = IF Handled <= CacheLimit THEN Handled ELSE CacheLimit
      BY DEF CacheInv
    <2>2. i \in 1 .. Len(cache)
      <3>1. epdg.asks[ue.sa] <= m.mid + CacheLimit /\ CacheLimit \in Nat
        BY <1>1
      <3>2. m.mid - Handled + Len(cache) + 1 <= Len(cache)
        BY <1>2
      <3>3. m.mid - Handled + Len(cache) + 1 >= 1
        <4>1. CASE Handled <= CacheLimit
          BY <1>2, <2>1, <4>1
        <4>2. CASE ~(Handled <= CacheLimit)
          <5>1. Len(cache) = CacheLimit
            BY <2>1, <4>2
          <5>2. Handled <= m.mid + CacheLimit
            BY <1>2, <1>3, <3>1
          <5> QED
            BY <1>2, <3>1, <5>1, <5>2
        <4> QED
          BY <4>1, <4>2
      <3> QED
        BY <1>2, <3>2, <3>3
    <2>3. cache[i].mid = Handled - Len(cache) + i - 1
      BY <2>2 DEF CacheInv
    <2>4. cache[i].mid = m.mid
      BY <1>2, <2>3
    <2> HIDE DEF i
    <2> QED
      BY <1>4, <2>2, <2>4
  <1>6. m.mid = Handled /\ epdg.asks[ue.sa] = Handled + 1
    BY <1>2, <1>3, <1>5
  <1>7. epdg.asked[ue.sa] # None
    <2>1. ue.sa >= ue.sa
      BY <1>2 DEF Gens
    <2>2. epdg.asked[ue.sa] = None => epdg.asks[ue.sa] = Handled
      BY <1>2, <2>1 DEF ServedInv, Handled
    <2> QED
      BY <1>2, <1>6, <2>2
  <1> QED
    BY <1>1, <1>2, <1>6, <1>7

LEMMA HandleServed ==
    ASSUME TypesIds, OnceInv, Up, NEW m, NEW r, HandleShape(m, r)
    PROVE  OnceInv'
  <1> USE AgreeIs, CacheIs
  <1>1. CacheKept /\ Served /\ DeadSilent
    BY OnceParts
  <1>2. /\ m \in net /\ EpdgAsked(m) /\ m \in Messages /\ epdg.alive
        /\ UNCHANGED <<ue, pending, epdg>> /\ (crossed => crossed') /\ (m.sa # ue.sa => crossed')
        /\ cache' = Cache(m, r) /\ runs' = [runs EXCEPT ![m.sa] = @ + 1] /\ net' = net \cup {r}
        /\ r \in Messages /\ UeAnswered(r) /\ r.mid = m.mid
        /\ (m.sa = ue.sa => r.sa = ue.sa)
    BY <1>1 DEF HandleShape, DeadSilent, EpdgAsked, ReplySA
  <1>3. DeadSilent'
    BY <1>2 DEF DeadSilent
  <1>4. ASSUME ~crossed'
        PROVE  CacheInv' /\ (Up' => ServedInv')
    <2>1. CacheInv /\ ServedInv /\ m.sa = ue.sa
      BY <1>1, <1>2, <1>4 DEF CacheKept, Served, Holding
    <2>2. /\ m.mid = Handled /\ epdg.asks[ue.sa] = Handled + 1 /\ epdg.asked[ue.sa] # None
          /\ Handled \in Nat /\ ue.sa \in Gens
      BY <1>2, <2>1, HandledNext
    <2>3. /\ Handled' = Handled + 1
          /\ \A sa \in Gens : runs'[sa] = IF sa = ue.sa THEN Handled + 1 ELSE runs[sa]
      BY <1>2, <2>1, <2>2 DEF Handled
    <2>4. Len(cache) = IF Handled <= CacheLimit THEN Handled ELSE CacheLimit
      BY <2>1 DEF CacheInv
    <2> DEFINE last == Len(cache')
    <2>5. /\ cache' \in Seq(CacheRecords) /\ last \in Nat /\ DOMAIN cache' = 1 .. last /\ last >= 1
          /\ cache'[last].exchange = ExchangeOf(m) /\ cache'[last].mid = m.mid /\ cache'[last].reply = r
      <3>1. SessionParts
        BY SessionTypes DEF TypesIds
      <3>2. LET kept == Cache(m, r) IN
            /\ kept \in Seq(CacheRecords) /\ Len(kept) >= 1 /\ kept[Len(kept)].exchange = ExchangeOf(m)
            /\ kept[Len(kept)].mid = m.mid /\ kept[Len(kept)].reply = r
        BY <1>2, <3>1, CacheHolds, ZenonT(40)
      <3>3. /\ cache' \in Seq(CacheRecords) /\ Len(cache') >= 1
            /\ cache'[Len(cache')].exchange = ExchangeOf(m)
            /\ cache'[Len(cache')].mid = m.mid /\ cache'[Len(cache')].reply = r
        BY <1>2, <3>2
      <3> QED
        BY <3>3
    <2>6. /\ last = IF Handled + 1 <= CacheLimit THEN Handled + 1 ELSE CacheLimit
          /\ \A i \in 1 .. last - 1 :
                \E j \in DOMAIN cache : cache'[i] = cache[j] /\ j - Len(cache) = i - last + 1
      <3>1. SessionParts
        BY SessionTypes DEF TypesIds
      <3>2. CASE Len(cache) < CacheLimit
        <4>1. last = Len(cache) + 1 /\ \A i \in 1 .. Len(cache) : cache'[i] = cache[i]
          BY <1>2, <3>1, <3>2, CacheHolds
        <4>2. Len(cache) = Handled
          BY <2>2, <2>4, <3>2
        <4> HIDE DEF last
        <4>3. ASSUME NEW i \in 1 .. last - 1
              PROVE  \E j \in DOMAIN cache : cache'[i] = cache[j] /\ j - Len(cache) = i - last + 1
          <5>1. i \in DOMAIN cache /\ cache'[i] = cache[i] /\ i - Len(cache) = i - last + 1
            BY <4>1, <4>3
          <5> QED
            BY <5>1
        <4>4. last = Handled + 1 /\ Handled + 1 <= CacheLimit
          BY <2>2, <3>2, <4>1, <4>2
        <4> QED
          BY <4>3, <4>4
      <3>3. CASE Len(cache) = CacheLimit
        <4>1. last = CacheLimit /\ \A i \in 1 .. CacheLimit - 1 : cache'[i] = cache[i + 1]
          BY <1>2, <3>1, <3>3, CacheHolds
        <4>2. Handled >= CacheLimit
          BY <2>2, <2>4, <3>3
        <4> HIDE DEF last
        <4>3. ASSUME NEW i \in 1 .. last - 1
              PROVE  \E j \in DOMAIN cache : cache'[i] = cache[j] /\ j - Len(cache) = i - last + 1
          <5>1. i + 1 \in DOMAIN cache /\ cache'[i] = cache[i + 1] /\ (i + 1) - Len(cache) = i - last + 1
            BY <3>3, <4>1, <4>3
          <5> QED
            BY <5>1
        <4> QED
          BY <2>2, <4>1, <4>2, <4>3
      <3>4. Len(cache) < CacheLimit \/ Len(cache) = CacheLimit
        <4>1. Len(cache) \in Nat /\ CacheLimit \in Nat /\ Len(cache) <= CacheLimit
          OBVIOUS
        <4> QED
          BY <4>1
      <3> QED
        BY <3>2, <3>3, <3>4
    <2> HIDE DEF last
    <2>7. ASSUME NEW i \in 1 .. last
          PROVE  /\ cache'[i].reply.sa = ue.sa
                 /\ cache'[i].mid = Handled + 1 - last + i - 1
                 /\ cache'[i].reply.mid = cache'[i].mid
      <3>1. CASE i = last
        BY <1>2, <2>1, <2>2, <2>5, <3>1
      <3>2. CASE i # last
        <4>1. i \in 1 .. last - 1
          BY <2>5, <3>2
        <4>2. PICK j \in DOMAIN cache : cache'[i] = cache[j] /\ j - Len(cache) = i - last + 1
          BY <2>6, <4>1
        <4>3. /\ cache[j].reply.sa = ue.sa /\ cache[j].mid = Handled - Len(cache) + j - 1
              /\ cache[j].reply.mid = cache[j].mid
          BY <2>1 DEF CacheInv
        <4>4. j \in Int /\ Len(cache) \in Nat /\ last \in Nat /\ i \in Int /\ Handled \in Nat
          BY <2>2, <2>5
        <4> QED
          BY <4>2, <4>3, <4>4, SMTT(30)
      <3> QED
        BY <3>1, <3>2
    <2>8. \A sa \in Gens : runs'[sa] <= epdg'.asks[sa]
      BY <1>2, <2>1, <2>2, <2>3 DEF CacheInv
    <2>9. \A sa \in Gens : sa > ue'.sa => runs'[sa] = 0
      BY <1>2, <2>1, <2>3 DEF CacheInv
    <2>10. CacheInv'
      <3>1. DOMAIN cache' = 1 .. last /\ Len(cache') = last /\ Handled' = Handled + 1 /\ ue' = ue
        BY <1>2, <2>3, <2>5 DEF last
      <3>2. \A i \in DOMAIN cache' :
              /\ cache'[i].reply.sa = ue'.sa
              /\ cache'[i].mid = Handled' - Len(cache') + i - 1 /\ cache'[i].reply.mid = cache'[i].mid
        <4> SUFFICES ASSUME NEW i \in DOMAIN cache'
                     PROVE  /\ cache'[i].reply.sa = ue'.sa
                            /\ cache'[i].mid = Handled' - Len(cache') + i - 1
                            /\ cache'[i].reply.mid = cache'[i].mid
          OBVIOUS
        <4>1. i \in 1 .. last
          BY <3>1
        <4>2. /\ cache'[i].reply.sa = ue.sa
              /\ cache'[i].mid = Handled + 1 - last + i - 1
              /\ cache'[i].reply.mid = cache'[i].mid
          BY <2>7, <4>1
        <4>3. ue' = ue /\ Handled' - Len(cache') + i - 1 = Handled + 1 - last + i - 1
          BY <2>2, <2>5, <3>1, <4>1
        <4> QED
          BY <4>2, <4>3
      <3> QED
        BY <2>6, <2>8, <2>9, <3>1, <3>2 DEF CacheInv
    <2>11. ServedInv'
      <3>1. \A n \in net' : UeAnswered(n) => n.mid < runs'[n.sa]
        <4> SUFFICES ASSUME NEW n \in net', UeAnswered(n) PROVE n.mid < runs'[n.sa]
          OBVIOUS
        <4>1. CASE n = r
          BY <1>2, <2>1, <2>2, <2>3, <4>1
        <4>2. CASE n \in net
          <5>1. n.mid < runs[n.sa] /\ n.mid \in Nat /\ n.sa \in Gens /\ runs[n.sa] \in Nat
            BY <2>1, <4>2 DEF ServedInv
          <5>2. runs'[n.sa] = IF n.sa = ue.sa THEN runs[ue.sa] + 1 ELSE runs[n.sa]
            BY <2>3, <5>1 DEF Handled
          <5> QED
            BY <5>1, <5>2
        <4> QED
          BY <1>2, <4>1, <4>2
      <3>2. \A n \in net' : EpdgAsked(n) => n \in net
        BY <1>2 DEF EpdgAsked, UeAnswered
      <3>3. \A n, l \in net' : EpdgAsked(n) /\ EpdgAsked(l) /\ n.sa = l.sa /\ n.mid = l.mid => n = l
        BY <2>1, <3>2 DEF ServedInv
      <3>4. \A n \in net', i \in DOMAIN cache' :
              EpdgAsked(n) /\ n.sa = ue'.sa /\ n.mid = cache'[i].mid => cache'[i].exchange = ExchangeOf(n)
        <4> SUFFICES ASSUME NEW n \in net, NEW i \in DOMAIN cache', EpdgAsked(n), n.sa = ue.sa, n.mid = cache'[i].mid
                     PROVE  cache'[i].exchange = ExchangeOf(n)
          BY <1>2, <3>2
        <4>1. CASE i = last
          <5>1. n = m
            BY <1>2, <2>1, <2>5, <4>1 DEF ServedInv
          <5> QED
            BY <2>5, <4>1, <5>1
        <4>2. CASE i # last
          <5>1. i \in 1 .. last - 1
            BY <2>5, <4>2
          <5>2. PICK j \in DOMAIN cache : cache'[i] = cache[j]
            BY <2>6, <5>1
          <5> QED
            BY <2>1, <5>2 DEF ServedInv
        <4> QED
          BY <4>1, <4>2
      <3>5. \A sa \in Gens : sa >= ue.sa =>
              /\ epdg.asks[sa] <= runs'[sa] + 1
              /\ epdg.asked[sa] = None => epdg.asks[sa] = runs'[sa]
              /\ epdg.asked[sa] # None => epdg.asked[sa].mid = epdg.asks[sa] - 1
        <4> SUFFICES ASSUME NEW sa \in Gens, sa >= ue.sa
                     PROVE  /\ epdg.asks[sa] <= runs'[sa] + 1
                            /\ epdg.asked[sa] = None => epdg.asks[sa] = runs'[sa]
                            /\ epdg.asked[sa] # None => epdg.asked[sa].mid = epdg.asks[sa] - 1
          OBVIOUS
        <4>1. CASE sa = ue.sa
          BY <2>1, <2>2, <2>3, <4>1, SMTT(30) DEF ServedInv
        <4>2. CASE sa # ue.sa
          BY <2>1, <2>3, <4>2 DEF ServedInv
        <4> QED
          BY <4>1, <4>2
      <3> QED
        BY <1>2, <3>1, <3>3, <3>4, <3>5 DEF ServedInv
    <2> QED
      BY <2>10, <2>11
  <1> QED
    BY <1>3, <1>4, OncePartsPrime DEF CacheKept, Served, Holding

-----------------------------------------------------------------------------
(* The invariant, by the steps of the whole.                               *)

SessionInv == SessionTypeOK /\ IdsInv /\ AgreeInv /\ OnceInv

LEMMA BlankIsFine == Blank => SessionInv
  <1> SUFFICES ASSUME Blank PROVE SessionInv
    OBVIOUS
  <1>1. /\ ue = FreshUe /\ pending = None /\ cache = <<>> /\ probes = 0 /\ net = {}
        /\ epdg = FreshEpdg /\ runs = NoRuns /\ crossed = FALSE
    BY DEF Blank
  <1>2. 0 \in Gens /\ FirstKey \in Keys /\ FirstKey.mine = 0
    BY SessionAssumption, KeyFields DEF Gens, FirstKey
  <1>3. /\ ue \in UeRecords /\ ue.sa = 0 /\ ue.mid = 3 /\ ue.key = FirstKey /\ ue.made = 0
    BY <1>1, <1>2, SessionAssumption DEF FreshUe, UeRecords
  <1>4. /\ epdg \in EpdgRecords /\ epdg.children = {FirstKey}
        /\ \A sa \in Gens : epdg.said[sa] = None /\ epdg.asked[sa] = None /\ epdg.asks[sa] = 0
        /\ epdg.alive
    <2>1. /\ FreshEpdg.children = {FirstKey} /\ FreshEpdg.sas = {0} /\ FreshEpdg.alive
          /\ FreshEpdg.said = [sa \in Gens |-> None] /\ FreshEpdg.asked = [sa \in Gens |-> None]
          /\ FreshEpdg.asks = [sa \in Gens |-> 0]
          /\ FreshEpdg.expects = [sa \in Gens |-> IF sa = 0 THEN 4 ELSE 0]
      BY DEF FreshEpdg
    <2>2. FreshEpdg \in EpdgRecords
      BY <1>2 DEF FreshEpdg, EpdgRecords
    <2> QED
      BY <1>1, <2>1, <2>2
  <1>5. runs \in [Gens -> Nat] /\ \A sa \in Gens : runs[sa] = 0
    BY <1>1 DEF NoRuns
  <1>6. SessionTypeOK
    <2>1. cache \in Seq(CacheRecords) /\ Len(cache) = 0
      BY <1>1
    <2> QED
      <3>1. Len(cache) <= CacheLimit /\ probes \in 0 .. ProbeLimit
        BY <1>1, <2>1, SessionAssumption
      <3>2. crossed \in BOOLEAN /\ net \subseteq Messages
        BY <1>1
      <3>3. SessionParts
        BY <1>1, <1>3, <1>4, <1>5, <2>1, <3>1, <3>2 DEF SessionParts
      <3> QED
        BY <3>3, SessionTypes
  <1>7. Outgoing = {} /\ Answers = {} /\ Saved = {}
    BY <1>1, <1>4 DEF Outgoing, Answers, Saved
  <1>8. IdsInv
    BY <1>1, <1>4, <1>7 DEF IdsInv, Blank
  <1>9. TokensInv /\ DeletesInv /\ MatchInv /\ GrantedInv /\ ue.key \in epdg.children
    BY <1>1, <1>2, <1>3, <1>4, <1>7 DEF TokensInv, DeletesInv, MatchInv, GrantedInv
  <1>10. CacheInv
    <2>1. Handled = 0 /\ Len(cache) = 0 /\ DOMAIN cache = {}
      BY <1>1, <1>2, <1>3, <1>5 DEF Handled
    <2> QED
      BY <1>4, <1>5, <2>1, SessionAssumption DEF CacheInv
  <1>11. ServedInv
    BY <1>1, <1>4, <1>5 DEF ServedInv
  <1> QED
    BY <1>1, <1>6, <1>8, <1>9, <1>10, <1>11 DEF SessionInv, AgreeInv, OnceInv

LEMMA BlankIsFinePrime == Blank' => SessionInv'
  BY BlankIsFine, PTL

(* The steps of a tunnel that stands and goes on standing, by shape.       *)
Step ==
    \/ QuietShape
    \/ \E m : \/ \E kind \in Kinds : RekeyShape(m, kind)
              \/ ProbeShape(m) \/ AskShape(m) \/ HearShape(m)
    \/ \E m, n : \/ SwitchIkeShape(m, n) \/ SwitchChildShape(m, n)
                 \/ HandleShape(m, n) \/ AnswerShape(m, n)
    \/ DieShape

LEMMA StepKeeps ==
    ASSUME SessionInv, Up, Up', Step
    PROVE  SessionInv'
  <1> USE DEF SessionInv
  <1>1. TypesIds /\ (Holding => AgreeParts)
    BY DEF TypesIds, AgreeInv, AgreeParts
  <1>2. SUFFICES TypesIds' /\ (Holding' => AgreeParts') /\ OnceInv'
    BY DEF TypesIds, AgreeInv, AgreeParts
  <1>3. CASE QuietShape
    <2>1. Holding' => Holding
      BY <1>3 DEF QuietShape, Holding
    <2> QED
      BY <1>1, <1>3, <2>1, QuietIds, QuietAgrees, QuietServed
  <1>4. ASSUME NEW m, NEW kind \in Kinds, RekeyShape(m, kind)
        PROVE  TypesIds' /\ (Holding' => AgreeParts') /\ OnceInv'
    <2>1. /\ Holding' => Holding
          /\ UeAsked(m) /\ net' \subseteq net \cup {m} /\ ue'.sa = ue.sa
          /\ UNCHANGED <<epdg, runs, cache>> /\ (crossed => crossed')
      BY <1>4 DEF RekeyShape, NextRequest, Holding
    <2> QED
      BY <1>1, <1>4, <2>1, RekeyIds, RekeyAgrees, RequestServed
  <1>5. ASSUME NEW m, ProbeShape(m)
        PROVE  TypesIds' /\ (Holding' => AgreeParts') /\ OnceInv'
    <2>1. /\ Holding' => Holding
          /\ UeAsked(m) /\ net' \subseteq net \cup {m} /\ ue'.sa = ue.sa
          /\ UNCHANGED <<epdg, runs, cache>> /\ (crossed => crossed')
      BY <1>5 DEF ProbeShape, NextRequest, Holding
    <2> QED
      BY <1>1, <1>5, <2>1, ProbeIds, ProbeAgrees, RequestServed
  <1>6. ASSUME NEW m, AskShape(m)
        PROVE  TypesIds' /\ (Holding' => AgreeParts') /\ OnceInv'
    <2>1. Holding' => Holding
      BY <1>6 DEF AskShape, EpdgStays, Holding
    <2> QED
      BY <1>1, <1>6, <2>1, AskIds, AskAgrees, AskServed
  <1>7. ASSUME NEW m, HearShape(m)
        PROVE  TypesIds' /\ (Holding' => AgreeParts') /\ OnceInv'
    <2>1. Holding' => Holding
      BY <1>7 DEF HearShape, EpdgStays, Holding
    <2> QED
      BY <1>1, <1>7, <2>1, HearIds, HearAgrees, HearServed
  <1>8. ASSUME NEW m, NEW n, SwitchIkeShape(m, n)
        PROVE  TypesIds' /\ (Holding' => AgreeParts') /\ OnceInv'
    <2>1. Holding' => Holding
      BY <1>8 DEF SwitchIkeShape, NextRequest, Taken, Holding
    <2> QED
      BY <1>1, <1>8, <2>1, SwitchIkeIds, SwitchIkeAgrees, SwitchIkeServed
  <1>9. ASSUME NEW m, NEW n, SwitchChildShape(m, n)
        PROVE  TypesIds' /\ (Holding' => AgreeParts') /\ OnceInv'
    <2>1. /\ Holding' => Holding /\ n.sa = ue.sa
          /\ UeAsked(m) /\ net' \subseteq net \cup {m} /\ ue'.sa = ue.sa
          /\ UNCHANGED <<epdg, runs, cache>> /\ (crossed => crossed')
      BY <1>9 DEF SwitchChildShape, NextRequest, Taken, Holding
    <2> QED
      BY <1>1, <1>9, <2>1, SwitchChildIds, SwitchChildAgrees, RequestServed
  <1>10. ASSUME NEW m, NEW r, HandleShape(m, r)
         PROVE  TypesIds' /\ (Holding' => AgreeParts') /\ OnceInv'
    <2>1. Holding' => Holding /\ m.sa = ue.sa
      BY <1>10 DEF HandleShape, Holding
    <2> QED
      BY <1>1, <1>10, <2>1, HandleIds, HandleAgrees, HandleServed
  <1>11. ASSUME NEW m, NEW r, AnswerShape(m, r)
         PROVE  TypesIds' /\ (Holding' => AgreeParts') /\ OnceInv'
    <2>1. Holding' => Holding
      BY <1>11 DEF AnswerShape, EpdgStays, Holding
    <2> QED
      BY <1>1, <1>11, <2>1, AnswerIds, AnswerAgrees, AnswerServed
  <1>12. CASE DieShape
    <2>1. ~Holding'
      BY <1>12 DEF DieShape, Holding
    <2> QED
      BY <1>1, <1>12, <2>1, DieIds, DieServed
  <1> QED
    BY <1>3, <1>4, <1>5, <1>6, <1>7, <1>8, <1>9, <1>10, <1>11, <1>12 DEF Step

LEMMA ExchangeFrom ==
    ASSUME Exchange
    PROVE  attach.at \in {"init", "auth", "eap", "final"}
  BY DEF Exchange, SaInitAnswered, SaInitRepeats, SaInitCookie, AuthChallenged, AuthRepeats, SimRefuses,
         EapSucceeds, EapRepeats, FinalRefused, FinalUseless, Refused, Malformed

(* Every step attaches, goes on, or tears down.                            *)
LEMMA NextIs ==
    ASSUME SessionInv, [Next]_vars
    PROVE  \/ ~Up /\ UNCHANGED sessionVars
              /\ (Exchange \/ (Connected /\ UNCHANGED auto) \/ (Respawn /\ UNCHANGED <<auto, resolved>>)
                  \/ UNCHANGED attachVars)
           \/ Up /\ UNCHANGED attachVars /\ Step
           \/ Up /\ TearDown
  <1> SessionParts
    BY SessionTypes DEF SessionInv
  <1> IdsInv
    BY DEF SessionInv
  <1>1. CASE UNCHANGED vars
    <2>1. UNCHANGED sessionVars /\ UNCHANGED attachVars
      BY <1>1 DEF vars
    <2> QED
      BY <2>1, QuietSteps DEF Step
  <1>2. CASE Attach
    BY <1>2, ExchangeFrom DEF Attach, Connected, Respawn, Up, sessionVars
  <1>3. ASSUME NEW kind \in Kinds, RekeyDue(kind) PROVE Up /\ UNCHANGED attachVars /\ Step
    BY <1>3, RekeyDueShape DEF Step, RekeyDue, Running
  <1>4. CASE Tick
    <2>1. Retransmit => Up /\ UNCHANGED attachVars /\ Step
      BY QuietSteps DEF Step, Retransmit, Running
    <2>2. Probe => Up /\ UNCHANGED attachVars /\ Step
      BY ProbeKeepsShape DEF Step, Probe, Running
    <2>3. RekeyTimesOut \/ ProbesExhausted => Up /\ TearDown
      BY DEF RekeyTimesOut, ProbesExhausted
    <2> QED
      BY <1>4, <2>1, <2>2, <2>3 DEF Tick
  <1>5. CASE EspTraffic
    BY <1>5, QuietSteps DEF Step, EspTraffic, Running
  <1>6. ASSUME NEW m \in net, Receive(m)
        PROVE  Up /\ (TearDown \/ (UNCHANGED attachVars /\ Step))
    <2>1. HearReply(m) \/ RekeyRefused(m) \/ Repeat(m) => Up /\ UNCHANGED attachVars /\ Step
      <3>1. HearReply(m) \/ RekeyRefused(m) \/ Repeat(m) => QuietShape
        BY QuietSteps
      <3> QED
        BY <3>1 DEF Step, HearReply, RekeyRefused, Repeat, Heard, Running
    <2>2. SwitchIke(m) => Up /\ UNCHANGED attachVars /\ Step
      BY SwitchIkeKeepsShape DEF Step, SwitchIke, Heard, Running
    <2>3. SwitchChild(m) => Up /\ UNCHANGED attachVars /\ Step
      BY SwitchChildKeepsShape DEF Step, SwitchChild, Heard, Running
    <2>4. Handle(m) => Up /\ UNCHANGED attachVars /\ Step
      BY HandleKeepsShape DEF Step, Handle, Heard, Running
    <2>5. EndAsked(m) => Up /\ TearDown
      BY DEF EndAsked
    <2> QED
      BY <1>6, <2>1, <2>2, <2>3, <2>4, <2>5 DEF Receive
  <1>7. CASE Epdg
    <2>1. ASSUME NEW m \in net, EpdgAnswers(m) PROVE Up /\ UNCHANGED attachVars /\ Step
      <3>1. Step
        BY <2>1, EpdgAnswersShape DEF Step
      <3> QED
        BY <2>1, <3>1 DEF EpdgAnswers, EpdgDoes, Running
    <2>2. ASSUME NEW m \in net, EpdgAnswersAgain(m) PROVE Up /\ UNCHANGED attachVars /\ Step
      BY <2>2, QuietSteps DEF Step, EpdgAnswersAgain, EpdgDoes, Running
    <2>3. ASSUME NEW m \in net, EpdgHears(m) PROVE Up /\ UNCHANGED attachVars /\ Step
      <3>1. Step
        BY <2>3, EpdgHearsShape DEF Step
      <3> QED
        BY <2>3, <3>1 DEF EpdgHears, EpdgDoes, Running
    <2>4. ASSUME NEW sa \in Gens, NEW what \in Asks, NEW token \in -1 .. MaxProposals, EpdgAsks(sa, what, token)
          PROVE  Up /\ UNCHANGED attachVars /\ Step
      <3>1. Step
        BY <2>4, EpdgAsksShape DEF Step
      <3> QED
        BY <2>4, <3>1 DEF EpdgAsks, EpdgDoes, Running
    <2>5. EpdgDies => Up /\ UNCHANGED attachVars /\ Step
      BY EpdgDiesShape DEF Step, EpdgDies, Running
    <2> QED
      BY <1>7, <2>1, <2>2, <2>3, <2>4, <2>5 DEF Epdg
  <1> QED
    BY <1>1, <1>2, <1>3, <1>4, <1>5, <1>6, <1>7 DEF Next

LEMMA InitHolds == Init => IInv
  <1> SUFFICES ASSUME Init PROVE IInv
    OBVIOUS
  <1>1. SessionInv
    BY BlankIsFine DEF Init, Blank
  <1>2. AttachTypeOK /\ SimAccepted
    <2>1. 1 \in 1 .. Families /\ 0 \in 0 .. Families
      BY AttachAssumption
    <2> QED
      BY <2>1 DEF Init, AttachInit, AttachTypeOK, SimAccepted
  <1> QED
    BY <1>1, <1>2 DEF IInv, SessionInv

LEMMA NextKeeps == IInv /\ [Next]_vars => IInv'
  <1> SUFFICES ASSUME IInv, [Next]_vars PROVE IInv'
    OBVIOUS
  <1>1. AttachTypeOK /\ SimAccepted /\ SessionInv
    BY DEF IInv, SessionInv
  <1>2. SUFFICES AttachTypeOK' /\ SimAccepted' /\ SessionInv'
    BY DEF IInv, SessionInv
  <1>3. CASE ~Up /\ UNCHANGED sessionVars
             /\ (Exchange \/ (Connected /\ UNCHANGED auto) \/ (Respawn /\ UNCHANGED <<auto, resolved>>)
                 \/ UNCHANGED attachVars)
    <2>1. Blank
      BY <1>1, <1>3 DEF SessionInv, IdsInv
    <2>2. Blank'
      BY <1>3, <2>1 DEF Blank, sessionVars, ends
    <2> QED
      BY <1>1, <1>3, <2>2, AttachKeeps, BlankIsFinePrime
  <1>4. CASE Up /\ UNCHANGED attachVars /\ Step
    <2>1. Up'
      BY <1>4 DEF Up, attachVars
    <2> QED
      BY <1>1, <1>4, <2>1, AttachKeeps, StepKeeps
  <1>5. CASE Up /\ TearDown
    <2>1. Blank'
      BY <1>5 DEF TearDown, Blank
    <2> QED
      BY <1>1, <1>5, <2>1, AttachKeeps, BlankIsFinePrime
  <1> QED
    BY <1>1, <1>3, <1>4, <1>5, NextIs

-----------------------------------------------------------------------------
(* What the tunnel owes, for every number of rekeys, requests and          *)
(* retransmissions, every cache and every ladder of families.              *)

(* The invariant holds in every reachable state.                           *)
LEMMA InvariantHolds == Spec => []IInv
  BY InitHolds, NextKeeps, PTL DEF Spec

(* Types: every SA, id, request in flight, cached reply and book of the    *)
(* ePDG stays what it is meant to be.                                      *)
THEOREM SessionTypeCorrect == Spec => []SessionTypeOK
  <1>1. IInv => SessionTypeOK
    BY DEF IInv
  <1> QED
    BY <1>1, InvariantHolds, PTL

(* Two requests of the process on one IKE SA with the same id are the same *)
(* message, so that the ePDG can tell a retransmission from a new request  *)
(* (create_CREATE_CHILD_SA, _rekey_tick, create_INFORMATIONAL_liveness).   *)
THEOREM SameIdIsSameBytes == Spec => []SameIdSameBytes
  <1>1. IInv => SameIdSameBytes
    BY DEF IInv, IdsInv, SameIdSameBytes, Outgoing, UeAsked
  <1> QED
    BY <1>1, InvariantHolds, PTL

(* The key the process sends with is one the ePDG holds, as long as no     *)
(* message of a retired IKE SA was taken for one of the current            *)
(* (state_epdg_create_sa_response, state_delete).                          *)
THEOREM DataplaneKeepsAgreeing == Spec => []DataplaneAgrees
  <1>1. IInv => DataplaneAgrees
    BY DEF IInv, AgreeInv, Holding, DataplaneAgrees
  <1> QED
    BY <1>1, InvariantHolds, PTL

(* No handler runs twice for one request, however often it is repeated and *)
(* whatever the size of the cache (_dispatch_epdg_request).                *)
THEOREM RequestsHandledOnce == Spec => []HandledOnce
  <1>1. IInv => HandledOnce
    <2> SUFFICES ASSUME IInv, NEW sa \in Gens, ~crossed PROVE runs[sa] <= epdg.asks[sa]
      BY DEF HandledOnce
    <2>1. CASE Up
      BY <2>1 DEF IInv, OnceInv, CacheInv
    <2>2. CASE ~Up
      <3>1. runs = NoRuns /\ epdg = FreshEpdg
        BY <2>2 DEF IInv, IdsInv, Blank
      <3> QED
        BY <3>1 DEF NoRuns, FreshEpdg
    <2> QED
      BY <2>1, <2>2
  <1> QED
    BY <1>1, InvariantHolds, PTL

(* A request on the current IKE SA is never answered with the reply kept   *)
(* for one of the SA before, although the cache is keyed by exchange and   *)
(* id only (state_epdg_create_sa_response).                                *)
THEOREM RepliesAreTheirOwn == Spec => []UnshadowedUnlessCrossed
  <1>1. IInv => UnshadowedUnlessCrossed
    BY DEF IInv, OnceInv, CacheInv, UnshadowedUnlessCrossed, Unshadowed, Cached
  <1> QED
    BY <1>1, InvariantHolds, PTL

(* The line moves to another address family only after the SIM was         *)
(* accepted on this one (start_ike).                                       *)
THEOREM FamilyChangesLate == Spec => FamilyChangesAfterSimAuth
  <1>1. IInv /\ [Next]_vars => [attach.at # "exited" /\ attach'.family # attach.family => attach.eap]_vars
    <2> SUFFICES ASSUME IInv, [Next]_vars PROVE attach.at # "exited" => SameFamily \/ attach.eap
      BY DEF SameFamily
    <2>1. AttachTypeOK /\ SimAccepted /\ SessionInv
      BY DEF IInv, SessionInv
    <2> QED
      BY <2>1, NextIs, AttachKeeps
  <1> QED
    BY <1>1, InvariantHolds, PTL DEF Spec, FamilyChangesAfterSimAuth

-----------------------------------------------------------------------------
(* The tunnel implements TunnelKeys.                                       *)

Here == IF Holding THEN ue.key ELSE None
There == IF Holding THEN epdg.children ELSE {}

(* At most one key is of a given contribution.                             *)
Without(token) == {k \in epdg.children : k.mine # token}
OneLess(some) == \E k \in Keys : k # ue.key /\ some = epdg.children \ {k}

LEMMA RetiresOne ==
    ASSUME TypesIds, AgreeParts, NEW token, token # ue.key.mine
    PROVE  Without(token) = epdg.children \/ OneLess(Without(token))
  <1>1. CASE \A k \in epdg.children : k.mine # token
    BY <1>1 DEF Without
  <1>2. CASE \E k \in epdg.children : k.mine = token
    <2>1. PICK k \in epdg.children : k.mine = token
      BY <1>2
    <2>2. \A l \in epdg.children : l.mine = token <=> l = k
      BY <2>1 DEF AgreeParts, TokensInv
    <2>3. k \in Keys /\ k # ue.key
      BY <2>1, AgreeIs
    <2> QED
      BY <2>2, <2>3 DEF Without, OneLess
  <1> QED
    BY <1>1, <1>2

(* What happens to the keys while both ends hold some.                     *)
LEMMA KeysMove ==
    ASSUME TypesIds, TypesIds', AgreeParts, Holding', Step
    PROVE  \/ ue'.key = ue.key /\ epdg'.children = epdg.children
           \/ \E k \in Keys : ue'.key = ue.key /\ epdg'.children = epdg.children \cup {k}
           \/ \E k \in Keys : ue'.key = k /\ k \in epdg.children /\ epdg'.children = epdg.children
           \/ \E k \in Keys : ue'.key = ue.key /\ k # ue.key /\ epdg'.children = epdg.children \ {k}
  <1>1. CASE QuietShape
    BY <1>1 DEF QuietShape
  <1>2. ASSUME NEW m, NEW kind \in Kinds, RekeyShape(m, kind)
        PROVE  ue'.key = ue.key /\ epdg'.children = epdg.children
    BY <1>2 DEF RekeyShape, NextRequest
  <1>3. ASSUME NEW m, ProbeShape(m) \/ AskShape(m)
        PROVE  ue'.key = ue.key /\ epdg'.children = epdg.children
    BY <1>3 DEF ProbeShape, AskShape, NextRequest, EpdgStays
  <1>4. ASSUME NEW m, NEW n, SwitchIkeShape(m, n) \/ HandleShape(m, n)
        PROVE  ue'.key = ue.key /\ epdg'.children = epdg.children
    BY <1>4 DEF SwitchIkeShape, HandleShape, NextRequest
  <1>5. ASSUME NEW m, NEW n, SwitchChildShape(m, n)
        PROVE  \E k \in Keys : ue'.key = k /\ k \in epdg.children /\ epdg'.children = epdg.children
    <2>1. n.sa = ue.sa /\ epdg' = epdg /\ ue' \in UeRecords
      BY <1>5 DEF SwitchChildShape, NextRequest, Taken, Holding
    <2>2. ue'.key \in epdg'.children
      BY <1>5, <2>1, SwitchChildAgrees DEF AgreeParts
    <2> QED
      BY <2>1, <2>2, UeFields
  <1>6. ASSUME NEW m, HearShape(m)
        PROVE  \/ ue'.key = ue.key /\ epdg'.children = epdg.children
               \/ \E k \in Keys : ue'.key = ue.key /\ k # ue.key /\ epdg'.children = epdg.children \ {k}
    <2>1. /\ ue' = ue /\ m \in net /\ UeAnswered(m) /\ epdg.asked[m.sa] # None /\ epdg.asked[m.sa].mid = m.mid
          /\ epdg'.children = IF epdg.asked[m.sa].what = "delchild"
                              THEN {k \in epdg.children : k.mine # epdg.asked[m.sa].token}
                              ELSE epdg.children
      BY <1>6 DEF HearShape, EpdgStays
    <2>2. epdg.asked[m.sa].what = "delchild" => epdg.asked[m.sa].token < ue.key.mine
      BY <2>1 DEF AgreeParts, MatchInv, DeletesInv
    <2>3. epdg.asked[m.sa].what = "delchild" => epdg.asked[m.sa].token # ue.key.mine
      BY <2>1, <2>2, AgreeIs
    <2>4. CASE epdg.asked[m.sa].what # "delchild"
      BY <2>1, <2>4
    <2>5. CASE epdg.asked[m.sa].what = "delchild"
      <3> DEFINE token == epdg.asked[m.sa].token
      <3>1. epdg'.children = Without(token) /\ token # ue.key.mine
        BY <2>1, <2>3, <2>5 DEF Without
      <3> HIDE DEF token
      <3>2. epdg'.children = epdg.children \/ OneLess(epdg'.children)
        BY <3>1, RetiresOne
      <3> QED
        BY <2>1, <3>2 DEF OneLess
    <2> QED
      BY <2>4, <2>5
  <1>7. ASSUME NEW m, NEW r, AnswerShape(m, r)
        PROVE  \/ ue'.key = ue.key /\ epdg'.children = epdg.children
               \/ \E k \in Keys : ue'.key = ue.key /\ epdg'.children = epdg.children \cup {k}
               \/ \E k \in Keys : ue'.key = ue.key /\ k # ue.key /\ epdg'.children = epdg.children \ {k}
    <2>1. /\ ue' = ue /\ m \in net /\ m \in Messages /\ UeAsked(m) /\ r.what \in {m.what, "refused"}
          /\ epdg' \in EpdgRecords
          /\ epdg'.children =
                CASE r.what = "child" -> epdg.children \cup {Key(m.sa, m.token, m.token)}
                  [] r.what = "delchild" -> {k \in epdg.children : k.mine # m.token}
                  [] OTHER -> epdg.children
      BY <1>7, AgreeIs DEF AnswerShape, EpdgStays
    <2>2. CASE r.what = "child"
      <3>1. epdg'.children = epdg.children \cup {Key(m.sa, m.token, m.token)} /\ epdg'.children \subseteq Keys
        BY <2>1, <2>2, EpdgFields
      <3> QED
        BY <2>1, <3>1
    <2>3. CASE r.what = "delchild"
      <3>1. epdg'.children = Without(m.token) /\ m.what = "delchild"
        BY <2>1, <2>3 DEF Without
      <3>2. m.token < ue.key.mine
        BY <2>1, <3>1 DEF AgreeParts, DeletesInv
      <3>3. m.token # ue.key.mine
        BY <2>1, <3>2, AgreeIs
      <3>4. epdg'.children = epdg.children \/ OneLess(epdg'.children)
        BY <3>1, <3>3, RetiresOne
      <3> QED
        BY <2>1, <3>4 DEF OneLess
    <2>4. CASE r.what \notin {"child", "delchild"}
      BY <2>1, <2>4
    <2> QED
      BY <2>2, <2>3, <2>4
  <1>8. ~DieShape
    BY DEF DieShape, Holding
  <1> QED
    BY <1>1, <1>2, <1>3, <1>4, <1>5, <1>6, <1>7, <1>8 DEF Step

LEMMA StepHolds ==
    ASSUME Up, Step, Holding'
    PROVE  Holding
  <1> SUFFICES Holding' => Holding
    OBVIOUS
  <1>1. CASE QuietShape
    BY <1>1 DEF QuietShape, Holding
  <1>2. ASSUME NEW m, NEW kind \in Kinds, RekeyShape(m, kind)
        PROVE  Holding' => Holding
    BY <1>2 DEF RekeyShape, NextRequest, Holding
  <1>3. ASSUME NEW m, ProbeShape(m)
        PROVE  Holding' => Holding
    BY <1>3 DEF ProbeShape, NextRequest, Holding
  <1>4. ASSUME NEW m, AskShape(m)
        PROVE  Holding' => Holding
    BY <1>4 DEF AskShape, EpdgStays, Holding
  <1>5. ASSUME NEW m, HearShape(m)
        PROVE  Holding' => Holding
    BY <1>5 DEF HearShape, EpdgStays, Holding
  <1>6. ASSUME NEW m, NEW n, SwitchIkeShape(m, n)
        PROVE  Holding' => Holding
    BY <1>6 DEF SwitchIkeShape, NextRequest, Taken, Holding
  <1>7. ASSUME NEW m, NEW n, SwitchChildShape(m, n)
        PROVE  Holding' => Holding
    BY <1>7 DEF SwitchChildShape, NextRequest, Taken, Holding
  <1>8. ASSUME NEW m, NEW r, HandleShape(m, r)
        PROVE  Holding' => Holding
    BY <1>8 DEF HandleShape, Holding
  <1>9. ASSUME NEW m, NEW r, AnswerShape(m, r)
        PROVE  Holding' => Holding
    BY <1>9 DEF AnswerShape, EpdgStays, Holding
  <1>10. CASE DieShape
    BY <1>10 DEF DieShape, Holding
  <1> QED
    BY <1>1, <1>2, <1>3, <1>4, <1>5, <1>6, <1>7, <1>8, <1>9, <1>10 DEF Step

LEMMA TunnelStep ==
    ASSUME IInv, IInv', [Next]_vars
    PROVE  [Tunnel!Next]_(Tunnel!keyVars)
  <1>1. SessionInv /\ TypesIds /\ TypesIds' /\ (Holding => AgreeParts)
    BY DEF IInv, SessionInv, TypesIds, AgreeInv, AgreeParts
  <1>2. /\ Holding => Here = ue.key /\ There = epdg.children /\ Here # None
        /\ ~Holding => Here = None /\ There = {}
        /\ Holding' => Here' = ue'.key /\ There' = epdg'.children
        /\ ~Holding' => Here' = None /\ There' = {}
    BY <1>1, AgreeIs, KeyIs DEF Here, There
  <1>3. SUFFICES
          \/ Here' = Here /\ There' = There
          \/ \E k \in Keys :
               \/ Here = None /\ Here' = k /\ There' = {k}
               \/ Here # None /\ There' = There \cup {k} /\ Here' = Here
               \/ Here # None /\ k \in There /\ Here' = k /\ There' = There
               \/ k # Here /\ There' = There \ {k} /\ Here' = Here
          \/ Here # None /\ Here' = None /\ There' = {}
    BY Zenon DEF Tunnel!Next, Tunnel!keyVars, Tunnel!Establish, Tunnel!Offer, Tunnel!Switch, Tunnel!Retire,
           Tunnel!Break, Here, There
  <1>4. CASE ~Holding'
    BY <1>2, <1>4
  <1>5. CASE Holding' /\ ~Up
    <2>1. Blank /\ UNCHANGED sessionVars
      BY <1>1, <1>5, NextIs DEF SessionInv, IdsInv
    <2>2. ue' = FreshUe /\ epdg' = FreshEpdg
      BY <2>1 DEF Blank, sessionVars, ends
    <2>3. ue'.key = FirstKey /\ epdg'.children = {FirstKey} /\ FirstKey \in Keys
      BY <2>2, SessionAssumption, KeyFields DEF FreshUe, FreshEpdg, FirstKey, Gens
    <2>4. ~Holding
      BY <1>5 DEF Holding
    <2> QED
      BY <1>2, <1>5, <2>3, <2>4
  <1>6. CASE Holding' /\ Up
    <2>1. Step
      <3>1. ~TearDown
        <4> SUFFICES ASSUME TearDown PROVE FALSE
          OBVIOUS
        <4>1. Exit("none") /\ attach'.at = "connected"
          BY <1>6 DEF TearDown, Holding, Up
        <4>2. attach'.at = "exited"
          BY <4>1, ExitType DEF IInv
        <4> QED
          BY <4>1, <4>2
      <3> QED
        BY <1>1, <1>6, <3>1, NextIs
    <2>2. Holding
      BY <1>6, <2>1, StepHolds
    <2> QED
      BY <1>1, <1>2, <1>6, <2>1, <2>2, KeysMove
  <1> QED
    BY <1>4, <1>5, <1>6

LEMMA TunnelInit == Init => Tunnel!Init
  <1> SUFFICES ASSUME Init PROVE ~Holding
    BY DEF Tunnel!Init
  <1> QED
    BY DEF Init, AttachInit, Holding, Up

(* The session implements TunnelKeys: this end sends with keys the other   *)
(* end holds, and moves to a key only after the other end has it, through  *)
(* every exchange of the two.                                              *)
THEOREM KeysAreKept == Spec => KeepsKeys
  <1>1. IInv /\ IInv' /\ [Next]_vars => [Tunnel!Next]_(Tunnel!keyVars)
    BY TunnelStep
  <1> QED
    BY <1>1, TunnelInit, InvariantHolds, PTL DEF Spec, KeepsKeys, Tunnel!Spec

=============================================================================
