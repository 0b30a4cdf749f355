--------------------------- MODULE SnapshotProofs ---------------------------
(***************************************************************************)
(* Proofs about the components that look at shared state in one critical   *)
(* section and act on what they saw later: a publisher on the handler it   *)
(* found, an evaluation on its copy of the policies, a reader of secrets   *)
(* on the answer of AWS, the aggregator on the time it last let a          *)
(* fingerprint through, the Kafka collector on the offsets it fetched      *)
(* before it reads the ends. Each invariant says how far what was seen may *)
(* lag behind what is.                                                     *)
(*                                                                         *)
(* The secrets client may also lock itself out in that way; MonitorStuck   *)
(* is that state, and it is never left.                                    *)
(***************************************************************************)
EXTENDS EventBus, PolicyEngine, SecretsCache, Aggregator, KafkaLag, DataLemmas

-----------------------------------------------------------------------------
(* The event bus.  While a call has not looked yet, what is subscribed now *)
(* is among what the call was offered.                                     *)
BusFunctions ==
  /\ busShut \in BOOLEAN
  /\ subscribed \in BusHandlers \cup {"none"}
  /\ publisher \in [Publishers -> [at : {"idle", "open", "found"},
                                   handler : BusHandlers \cup {"none"}]]
  /\ offered \in [Publishers -> SUBSET (BusHandlers \cup {"none"})]

OffersAreCurrent ==
  \A p \in Publishers : publisher[p].at = "open" => subscribed \in offered[p]

BusInv == BusFunctions /\ OffersAreCurrent /\ DeliveryIsCurrent

LEMMA BusInitInv == BusInit => BusInv
<1> SUFFICES ASSUME BusInit PROVE BusInv
  OBVIOUS
<1>1. NoCall \in [at : {"idle", "open", "found"}, handler : BusHandlers \cup {"none"}]
  BY DEF NoCall
<1>2. BusFunctions
  BY <1>1 DEF BusInit, BusFunctions
<1>3. \A p \in Publishers : publisher[p].at = "idle"
  BY DEF BusInit, NoCall
<1> QED BY <1>2, <1>3 DEF BusInv, OffersAreCurrent, DeliveryIsCurrent, Calling

LEMMA OfferKeepsInv ==
  ASSUME BusInv, NEW h \in BusHandlers \cup {"none"}, subscribed' = h, Offer(h),
         UNCHANGED <<busShut, publisher, late>>
  PROVE  BusInv'
<1>1. offered' \in [Publishers -> SUBSET (BusHandlers \cup {"none"})]
  BY DEF BusInv, BusFunctions, Offer
<1>2. \A p \in Publishers : Calling(p) => offered'[p] = offered[p] \cup {h}
  BY DEF Offer
<1>3. OffersAreCurrent'
  BY <1>2 DEF OffersAreCurrent, Calling
<1>4. DeliveryIsCurrent'
  BY <1>2 DEF BusInv, DeliveryIsCurrent, Calling
<1> QED BY <1>1, <1>3, <1>4 DEF BusInv, BusFunctions

LEMMA PublisherKeepsInv ==
  ASSUME BusInv, NEW p \in Publishers, Publish(p) \/ LooksUpHandler(p) \/ Delivers(p)
  PROVE  BusInv'
<1>1. CASE Publish(p)
  <2>1. publisher' = [publisher EXCEPT ![p].at = "open"]
        /\ offered' = [offered EXCEPT ![p] = {subscribed}]
        /\ late' = late \ {p} /\ UNCHANGED <<busShut, subscribed>>
    BY <1>1 DEF Publish
  <2>2. BusFunctions'
    BY <2>1 DEF BusInv, BusFunctions
  <2>3. publisher'[p].at = "open" /\ offered'[p] = {subscribed}
        /\ \A q \in Publishers \ {p} : publisher'[q] = publisher[q]
                                       /\ offered'[q] = offered[q]
    BY <2>1 DEF BusInv, BusFunctions
  <2> QED BY <2>1, <2>2, <2>3 DEF BusInv, OffersAreCurrent, DeliveryIsCurrent, Calling
<1>2. CASE LooksUpHandler(p)
  <2>1. publisher[p].at = "open"
        /\ publisher' = [publisher EXCEPT ![p] = [at |-> "found", handler |-> subscribed]]
        /\ UNCHANGED <<busShut, subscribed, offered, late>>
    BY <1>2 DEF LooksUpHandler
  <2>2. BusFunctions'
    BY <2>1 DEF BusInv, BusFunctions
  <2>3. publisher'[p] = [at |-> "found", handler |-> subscribed]
        /\ \A q \in Publishers \ {p} : publisher'[q] = publisher[q]
    BY <2>1 DEF BusInv, BusFunctions
  <2> QED BY <2>1, <2>2, <2>3 DEF BusInv, OffersAreCurrent, DeliveryIsCurrent, Calling
<1>3. CASE Delivers(p)
  <2>1. publisher' = [publisher EXCEPT ![p] = NoCall]
        /\ UNCHANGED <<busShut, subscribed, offered, late>>
    BY <1>3 DEF Delivers
  <2>2. BusFunctions'
    BY <2>1 DEF BusInv, BusFunctions, NoCall
  <2>3. publisher'[p] = NoCall
        /\ \A q \in Publishers \ {p} : publisher'[q] = publisher[q]
    BY <2>1 DEF BusInv, BusFunctions
  <2> QED BY <2>1, <2>2, <2>3
          DEF BusInv, OffersAreCurrent, DeliveryIsCurrent, Calling, NoCall
<1> QED BY <1>1, <1>2, <1>3

LEMMA BusStepKeepsInv == BusInv /\ [BusNext]_busVars => BusInv'
<1> SUFFICES ASSUME BusInv, [BusNext]_busVars PROVE BusInv'
  OBVIOUS
<1>1. ASSUME NEW h \in BusHandlers, Subscribe(h) PROVE BusInv'
  BY <1>1, OfferKeepsInv DEF Subscribe
<1>2. CASE Unsubscribe
  BY <1>2, OfferKeepsInv DEF Unsubscribe
<1>3. CASE CloseBus
  BY <1>3 DEF CloseBus, BusInv, BusFunctions, OffersAreCurrent, DeliveryIsCurrent, Calling
<1>4. ASSUME NEW p \in Publishers, Publish(p) \/ LooksUpHandler(p) \/ Delivers(p)
      PROVE  BusInv'
  BY <1>4, PublisherKeepsInv
<1>5. CASE UNCHANGED busVars
  BY <1>5 DEF busVars, BusInv, BusFunctions, OffersAreCurrent, DeliveryIsCurrent, Calling
<1> QED BY <1>1, <1>2, <1>3, <1>4, <1>5 DEF BusNext

(* For any publishers and handlers, a call of Publish delivers to a        *)
(* handler subscribed at some moment of it, and no call that began after   *)
(* Close delivers (bus.go 80-142).                                         *)
THEOREM BusDelivers == BusSpec => []DeliveryIsCurrent
<1>1. BusInv => DeliveryIsCurrent
  BY DEF BusInv
<1> QED BY <1>1, BusInitInv, BusStepKeepsInv, PTL DEF BusSpec

-----------------------------------------------------------------------------
(* The policy engine.  Before the copy, the policies enabled all the while *)
(* are among those enabled now and those among the ones enabled at some    *)
(* moment; after it, the copy stands between the two.                      *)
PolicyFunctions ==
  /\ evaluator \in [Evaluators -> {"idle", "parsed", "evaluating", "returned"}]
  /\ resource \in [Evaluators -> SUBSET Policies]
  /\ copied \in [Evaluators -> SUBSET Policies]
  /\ always \in [Evaluators -> SUBSET Policies]
  /\ sometime \in [Evaluators -> SUBSET Policies]
  /\ found \in [Evaluators -> SUBSET Policies]
  /\ enabled \subseteq Policies /\ defined \subseteq Policies

CopyBetween(e) ==
  /\ evaluator[e] = "parsed" => always[e] \subseteq enabled /\ enabled \subseteq sometime[e]
  /\ evaluator[e] = "evaluating" =>
       always[e] \subseteq copied[e] /\ copied[e] \subseteq sometime[e]

Reports(e) ==
  evaluator[e] = "returned" =>
    /\ always[e] \cap Implemented \cap resource[e] \subseteq found[e]
    /\ found[e] \subseteq sometime[e] \cap Implemented \cap resource[e]

PolicyInv == PolicyFunctions /\ \A e \in Evaluators : CopyBetween(e) /\ Reports(e)

LEMMA PolicyInitInv == PolicyInit => PolicyInv
BY DEF PolicyInit, PolicyInv, PolicyFunctions, CopyBetween, Reports

LEMMA WitnessKeepsInv ==
  ASSUME PolicyInv, NEW now \in SUBSET Policies, Witness(now),
         defined' \subseteq Policies, UNCHANGED <<evaluator, resource, copied, found>>
  PROVE  PolicyInv'
<1>1. PolicyFunctions'
  <2>1. enabled' = now
    BY DEF Witness
  <2>2. always' \in [Evaluators -> SUBSET Policies]
    BY DEF Witness, PolicyInv, PolicyFunctions
  <2>3. sometime' \in [Evaluators -> SUBSET Policies]
    BY DEF Witness, PolicyInv, PolicyFunctions
  <2> QED BY <2>1, <2>2, <2>3 DEF PolicyInv, PolicyFunctions
<1>2. ASSUME NEW e \in Evaluators PROVE CopyBetween(e)' /\ Reports(e)'
  <2>1. enabled' = now /\ always'[e] = always[e] \cap now
        /\ (evaluator[e] # "idle" => sometime'[e] = sometime[e] \cup now)
    BY DEF Witness
  <2>2. CopyBetween(e) /\ Reports(e)
    BY DEF PolicyInv
  <2> QED BY <2>1, <2>2 DEF CopyBetween, Reports
<1> QED BY <1>1, <1>2 DEF PolicyInv

(* What a call of Evaluate does concerns its own record only.              *)
LEMMA OthersEvaluate ==
  ASSUME PolicyInv, PolicyFunctions', NEW e \in Evaluators,
         UNCHANGED enabled,
         \A d \in Evaluators \ {e} :
           /\ evaluator'[d] = evaluator[d] /\ resource'[d] = resource[d]
           /\ copied'[d] = copied[d] /\ always'[d] = always[d]
           /\ sometime'[d] = sometime[d] /\ found'[d] = found[d],
         CopyBetween(e)', Reports(e)'
  PROVE  PolicyInv'
<1>1. ASSUME NEW d \in Evaluators \ {e} PROVE CopyBetween(d)' /\ Reports(d)'
  BY <1>1 DEF PolicyInv, CopyBetween, Reports
<1> QED BY <1>1 DEF PolicyInv

LEMMA EvaluationKeepsInv ==
  ASSUME PolicyInv, NEW e \in Evaluators,
         \/ EvaluateBegins(e) \/ CopyEnabled(e) \/ EvaluateEnds(e) \/ EvaluateReturns(e)
  PROVE  PolicyInv'
<1>0. PolicyFunctions /\ CopyBetween(e)
  BY DEF PolicyInv
<1>1. CASE EvaluateBegins(e)
  <2>1. PICK breached \in SUBSET Policies : resource' = [resource EXCEPT ![e] = breached]
    BY <1>1 DEF EvaluateBegins
  <2>2. evaluator' = [evaluator EXCEPT ![e] = "parsed"]
        /\ always' = [always EXCEPT ![e] = enabled]
        /\ sometime' = [sometime EXCEPT ![e] = enabled]
        /\ found' = [found EXCEPT ![e] = {}] /\ UNCHANGED <<defined, enabled, copied>>
    BY <1>1 DEF EvaluateBegins
  <2>3. PolicyFunctions'
    BY <1>0, <2>1, <2>2 DEF PolicyFunctions
  <2>4. CopyBetween(e)' /\ Reports(e)'
    BY <1>0, <2>2 DEF PolicyFunctions, CopyBetween, Reports
  <2> QED BY <1>0, <2>1, <2>2, <2>3, <2>4, OthersEvaluate DEF PolicyFunctions
<1>2. CASE CopyEnabled(e)
  <2>1. evaluator[e] = "parsed" /\ evaluator' = [evaluator EXCEPT ![e] = "evaluating"]
        /\ copied' = [copied EXCEPT ![e] = enabled]
        /\ UNCHANGED <<defined, enabled, resource, always, sometime, found>>
    BY <1>2 DEF CopyEnabled
  <2>2. PolicyFunctions'
    BY <1>0, <2>1 DEF PolicyFunctions
  <2>3. CopyBetween(e)' /\ Reports(e)'
    BY <1>0, <2>1 DEF PolicyFunctions, CopyBetween, Reports
  <2> QED BY <1>0, <2>1, <2>2, <2>3, OthersEvaluate DEF PolicyFunctions
<1>3. CASE EvaluateEnds(e)
  <2>1. evaluator[e] = "evaluating" /\ evaluator' = [evaluator EXCEPT ![e] = "returned"]
        /\ found' = [found EXCEPT ![e] = copied[e] \cap Implemented \cap resource[e]]
        /\ UNCHANGED <<defined, enabled, resource, copied, always, sometime>>
    BY <1>3 DEF EvaluateEnds
  <2>2. PolicyFunctions'
    BY <1>0, <2>1 DEF PolicyFunctions
  <2>3. CopyBetween(e)' /\ Reports(e)'
    BY <1>0, <2>1 DEF PolicyFunctions, CopyBetween, Reports
  <2> QED BY <1>0, <2>1, <2>2, <2>3, OthersEvaluate DEF PolicyFunctions
<1>4. CASE EvaluateReturns(e)
  <2>1. evaluator' = [evaluator EXCEPT ![e] = "idle"]
        /\ resource' = [resource EXCEPT ![e] = {}] /\ copied' = [copied EXCEPT ![e] = {}]
        /\ always' = [always EXCEPT ![e] = {}] /\ sometime' = [sometime EXCEPT ![e] = {}]
        /\ found' = [found EXCEPT ![e] = {}] /\ UNCHANGED <<defined, enabled>>
    BY <1>4 DEF EvaluateReturns
  <2>2. PolicyFunctions'
    BY <1>0, <2>1 DEF PolicyFunctions
  <2>3. CopyBetween(e)' /\ Reports(e)'
    BY <1>0, <2>1 DEF PolicyFunctions, CopyBetween, Reports
  <2> QED BY <1>0, <2>1, <2>2, <2>3, OthersEvaluate DEF PolicyFunctions
<1> QED BY <1>1, <1>2, <1>3, <1>4

LEMMA PolicyStepKeepsInv == PolicyInv /\ [PolicyNext]_policyVars => PolicyInv'
<1> SUFFICES ASSUME PolicyInv, [PolicyNext]_policyVars PROVE PolicyInv'
  OBVIOUS
<1>0. enabled \subseteq Policies /\ defined \subseteq Policies
  BY DEF PolicyInv, PolicyFunctions
<1>1. ASSUME NEW p \in Policies, AddPolicy(p) PROVE PolicyInv'
  <2>1. PICK now \in {enabled \cup {p}, enabled \ {p}} : Witness(now)
    BY <1>1 DEF AddPolicy
  <2>2. now \in SUBSET Policies /\ defined' \subseteq Policies
        /\ UNCHANGED <<evaluator, resource, copied, found>>
    BY <1>0, <1>1, <2>1 DEF AddPolicy
  <2> QED BY <2>1, <2>2, WitnessKeepsInv
<1>2. ASSUME NEW p \in Policies, RemovePolicy(p) PROVE PolicyInv'
  <2>1. Witness(enabled \ {p}) /\ enabled \ {p} \in SUBSET Policies
        /\ defined' \subseteq Policies /\ UNCHANGED <<evaluator, resource, copied, found>>
    BY <1>0, <1>2 DEF RemovePolicy
  <2> QED BY <2>1, WitnessKeepsInv
<1>3. ASSUME NEW e \in Evaluators,
             \/ EvaluateBegins(e) \/ CopyEnabled(e) \/ EvaluateEnds(e) \/ EvaluateReturns(e)
      PROVE  PolicyInv'
  BY <1>3, EvaluationKeepsInv
<1>4. ASSUME NEW e \in Evaluators, InputRefused(e) PROVE PolicyInv'
  BY <1>4 DEF InputRefused, PolicyInv, PolicyFunctions, CopyBetween, Reports
<1>5. CASE UNCHANGED policyVars
  BY <1>5 DEF policyVars, PolicyInv, PolicyFunctions, CopyBetween, Reports
<1> QED BY <1>1, <1>2, <1>3, <1>4, <1>5 DEF PolicyNext

(* For any policies and evaluations, a call reports what its input         *)
(* breaches of the policies with a check that were enabled all the while,  *)
(* and nothing of those without one or enabled at no moment of it: which   *)
(* policies a report speaks for, not that all have a check (engine.go      *)
(* 82-156).                                                                *)
THEOREM ReportsAreOfTheirTime == PolicySpec => []ReportIsOfItsTime
<1>1. PolicyInv => ReportIsOfItsTime
  BY DEF PolicyInv, ReportIsOfItsTime, Reports
<1> QED BY <1>1, PolicyInitInv, PolicyStepKeepsInv, PTL DEF PolicySpec
-----------------------------------------------------------------------------
(* The cache of secrets.  An answer under way, once it is stale, was asked *)
(* for before the rotation that made it so, and no call outlasts           *)
(* FetchLimit; hence an entry is dated at most FetchLimit after its        *)
(* version was superseded.                                                 *)
Superseded(v) == rotations[v + 1]

SecretsTypes ==
  /\ secretNow \in Nat
  /\ rotations \in Seq(Nat) /\ SecretVersion >= 1
  /\ cached \in [version : 0 .. SecretVersion, at : 0 .. secretNow]
  /\ served \in [version : 0 .. SecretVersion, at : 0 .. secretNow]
  /\ reader \in [Readers -> {"idle", "asking", "storing"}]
  /\ fetched \in [Readers -> [version : 0 .. SecretVersion, at : 0 .. secretNow]]

CallsAreShort ==
  \A r \in Readers :
    /\ reader[r] # "idle" => secretNow <= fetched[r].at + FetchLimit
    /\ reader[r] = "storing" /\ fetched[r].version \notin {0, SecretVersion} =>
         fetched[r].at <= Superseded(fetched[r].version)

EntryIsRecent ==
  cached.version \notin {0, SecretVersion} =>
    cached.at <= Superseded(cached.version) + FetchLimit

SecretsInv == SecretsTypes /\ CallsAreShort /\ EntryIsRecent /\ SecretsAreRecent

LEMMA SecretsInitInv == SecretsInit => SecretsInv
<1> SUFFICES ASSUME SecretsInit PROVE SecretsInv
  OBVIOUS
<1>1. rotations = <<1>> /\ secretNow = 1 /\ SecretVersion = 1
  BY DEF SecretsInit, SecretVersion
<1>2. Nothing \in [version : 0 .. 1, at : 0 .. 1] /\ Nothing.version = 0
  BY DEF Nothing
<1>3. SecretsTypes
  BY <1>1, <1>2 DEF SecretsInit, SecretsTypes
<1>4. cached.version = 0 /\ served.version = 0 /\ \A r \in Readers : reader[r] = "idle"
  BY <1>2 DEF SecretsInit
<1> QED BY <1>3, <1>4 DEF SecretsInv, CallsAreShort, EntryIsRecent, SecretsAreRecent

(* A reader that is not idle is one that may still be asking.              *)
LEMMA GetSecretKeepsInv ==
  ASSUME SecretsInv, NEW r \in Readers, GetSecret(r) PROVE SecretsInv'
<1>0. /\ CacheTTL \in Nat \ {0} /\ FetchLimit \in Nat \ {0}
      /\ UNCHANGED <<secretNow, rotations>> /\ SecretVersion' = SecretVersion
      /\ SecretsTypes /\ CallsAreShort /\ EntryIsRecent /\ SecretsAreRecent
  BY SecretsAssumption DEF GetSecret, SecretsInv, SecretVersion
<1>1. CASE CacheHit(r)
  <2>1. StillFresh(cached) /\ served' = [version |-> cached.version, at |-> secretNow]
        /\ UNCHANGED <<cached, reader, fetched>>
    BY <1>1 DEF CacheHit
  <2>2. cached.version \in 0 .. SecretVersion /\ cached.at \in 0 .. secretNow
        /\ secretNow \in Nat
    BY <1>0 DEF SecretsTypes
  <2>3. SecretsTypes'
    BY <1>0, <2>1, <2>2 DEF SecretsTypes
  <2>4. CallsAreShort' /\ EntryIsRecent'
    BY <1>0, <2>1 DEF CallsAreShort, EntryIsRecent, Superseded
  <2>5. SecretsAreRecent'
    <3> SUFFICES ASSUME cached.version \notin {0, SecretVersion}
                 PROVE  secretNow < rotations[cached.version + 1] + CacheTTL + FetchLimit
      BY <1>0, <2>1 DEF SecretsAreRecent
    <3>1. rotations[cached.version + 1] \in Nat
      <4>1. cached.version + 1 \in 1 .. Len(rotations)
        BY <1>0, <2>2 DEF SecretsTypes, SecretVersion
      <4> QED BY <1>0, <4>1 DEF SecretsTypes
    <3>2. cached.at <= rotations[cached.version + 1] + FetchLimit
      BY <1>0 DEF EntryIsRecent, Superseded
    <3> QED BY <1>0, <2>1, <2>2, <3>1, <3>2 DEF StillFresh
  <2> QED BY <2>3, <2>4, <2>5 DEF SecretsInv
<1>2. CASE CacheMiss(r)
  <2>1. reader' = [reader EXCEPT ![r] = "asking"]
        /\ fetched' = [fetched EXCEPT ![r] = [version |-> 0, at |-> secretNow]]
        /\ UNCHANGED <<cached, served>>
    BY <1>2 DEF CacheMiss
  <2>2. secretNow \in Nat /\ 0 \in 0 .. SecretVersion /\ secretNow \in 0 .. secretNow
    BY <1>0 DEF SecretsTypes, SecretVersion
  <2>3. SecretsTypes'
    BY <1>0, <2>1, <2>2 DEF SecretsTypes
  <2>4. CallsAreShort'
    <3>1. reader'[r] = "asking" /\ fetched'[r].at = secretNow
          /\ \A q \in Readers \ {r} : reader'[q] = reader[q] /\ fetched'[q] = fetched[q]
      BY <1>0, <2>1 DEF SecretsTypes
    <3> QED BY <1>0, <2>2, <3>1 DEF CallsAreShort, Superseded
  <2>5. EntryIsRecent' /\ SecretsAreRecent'
    BY <1>0, <2>1 DEF EntryIsRecent, Superseded, SecretsAreRecent
  <2> QED BY <2>3, <2>4, <2>5 DEF SecretsInv
<1> QED BY <1>1, <1>2 DEF GetSecret

LEMMA FetchKeepsInv ==
  ASSUME SecretsInv, NEW r \in Readers, AwsAnswers(r) \/ AwsFails(r) PROVE SecretsInv'
<1>0. /\ UNCHANGED <<secretNow, rotations, cached, served>>
      /\ SecretVersion' = SecretVersion
      /\ SecretsTypes /\ CallsAreShort /\ EntryIsRecent /\ SecretsAreRecent
  BY DEF AwsAnswers, AwsFails, SecretsInv, SecretVersion
<1>1. SecretVersion \in Nat /\ Nothing \in [version : 0 .. SecretVersion, at : 0 .. secretNow]
  <2>1. SecretVersion \in Nat /\ secretNow \in Nat
    BY <1>0 DEF SecretsTypes, SecretVersion
  <2> QED BY <2>1 DEF Nothing
<1>2. SecretsTypes'
  <2>1. reader' \in [Readers -> {"idle", "asking", "storing"}]
    BY <1>0 DEF AwsAnswers, AwsFails, SecretsTypes
  <2>2. fetched' \in [Readers -> [version : 0 .. SecretVersion, at : 0 .. secretNow]]
    <3>1. SecretVersion \in 0 .. SecretVersion
      BY <1>1
    <3>2. CASE AwsAnswers(r)
      BY <1>0, <3>1, <3>2 DEF AwsAnswers, SecretsTypes
    <3>3. CASE AwsFails(r)
      BY <1>0, <1>1, <3>3 DEF AwsFails, SecretsTypes
    <3> QED BY <3>2, <3>3
  <2> QED BY <1>0, <2>1, <2>2 DEF SecretsTypes
<1>3. CallsAreShort'
  <2>1. \A q \in Readers \ {r} : reader'[q] = reader[q] /\ fetched'[q] = fetched[q]
    BY <1>0 DEF SecretsTypes, AwsAnswers, AwsFails
  <2>2. \/ reader'[r] = "idle"
        \/ /\ reader[r] # "idle" /\ fetched'[r].at = fetched[r].at
           /\ fetched'[r].version = SecretVersion
    BY <1>0 DEF SecretsTypes, AwsAnswers, AwsFails
  <2> QED BY <1>0, <2>1, <2>2 DEF CallsAreShort, Superseded
<1>4. EntryIsRecent' /\ SecretsAreRecent'
  BY <1>0 DEF EntryIsRecent, Superseded, SecretsAreRecent
<1> QED BY <1>2, <1>3, <1>4 DEF SecretsInv

LEMMA StoreKeepsInv ==
  ASSUME SecretsInv, NEW r \in Readers, StoreSecret(r) PROVE SecretsInv'
<1>0. /\ CacheTTL \in Nat \ {0} /\ FetchLimit \in Nat \ {0}
      /\ UNCHANGED <<secretNow, rotations>> /\ SecretVersion' = SecretVersion
      /\ SecretsTypes /\ CallsAreShort
  BY SecretsAssumption DEF StoreSecret, SecretsInv, SecretVersion
<1>1. /\ reader[r] = "storing"
      /\ cached' = [version |-> fetched[r].version, at |-> secretNow]
      /\ served' = [version |-> fetched[r].version, at |-> secretNow]
      /\ reader' = [reader EXCEPT ![r] = "idle"]
      /\ fetched' = [fetched EXCEPT ![r] = Nothing]
  BY DEF StoreSecret
<1>2. fetched[r].version \in 0 .. SecretVersion /\ fetched[r].at \in 0 .. secretNow
      /\ secretNow \in Nat /\ SecretVersion \in Nat
  BY <1>0 DEF SecretsTypes, SecretVersion
<1>3. SecretsTypes'
  <2>1. Nothing \in [version : 0 .. SecretVersion, at : 0 .. secretNow]
    BY <1>2 DEF Nothing
  <2> QED BY <1>0, <1>1, <1>2, <2>1 DEF SecretsTypes
<1>4. CallsAreShort'
  <2>1. reader'[r] = "idle"
        /\ \A q \in Readers \ {r} : reader'[q] = reader[q] /\ fetched'[q] = fetched[q]
    BY <1>0, <1>1 DEF SecretsTypes
  <2> QED BY <1>0, <2>1 DEF CallsAreShort, Superseded
<1>5. ASSUME fetched[r].version \notin {0, SecretVersion}
      PROVE  /\ rotations[fetched[r].version + 1] \in Nat
             /\ secretNow <= rotations[fetched[r].version + 1] + FetchLimit
  <2>1. rotations[fetched[r].version + 1] \in Nat
    <3>1. fetched[r].version + 1 \in 1 .. Len(rotations)
      BY <1>2, <1>5 DEF SecretVersion
    <3> QED BY <1>0, <3>1 DEF SecretsTypes
  <2>2. secretNow <= fetched[r].at + FetchLimit
        /\ fetched[r].at <= rotations[fetched[r].version + 1]
    BY <1>0, <1>1, <1>5 DEF CallsAreShort, Superseded
  <2> QED BY <1>0, <1>2, <2>1, <2>2
<1>6. EntryIsRecent'
  BY <1>0, <1>1, <1>5 DEF EntryIsRecent, Superseded
<1>7. SecretsAreRecent'
  BY <1>0, <1>1, <1>2, <1>5 DEF SecretsAreRecent
<1> QED BY <1>3, <1>4, <1>6, <1>7 DEF SecretsInv

(* A rotation dates the versions it supersedes, which are the current one: *)
(* nothing that is known of it is later than now.                          *)
LEMMA RotateKeepsInv == ASSUME SecretsInv, RotateSecret PROVE SecretsInv'
<1>0. /\ CacheTTL \in Nat \ {0} /\ FetchLimit \in Nat \ {0}
      /\ rotations' = Append(rotations, secretNow)
      /\ UNCHANGED <<secretNow, cached, reader, fetched, served>>
      /\ SecretsTypes /\ CallsAreShort /\ EntryIsRecent /\ SecretsAreRecent
  BY SecretsAssumption DEF RotateSecret, SecretsInv
<1>1. /\ SecretVersion \in Nat /\ secretNow \in Nat
      /\ SecretVersion' = SecretVersion + 1
      /\ rotations' \in Seq(Nat)
      /\ rotations'[SecretVersion + 1] = secretNow
      /\ \A v \in 1 .. SecretVersion : rotations'[v] = rotations[v]
  BY <1>0 DEF SecretsTypes, SecretVersion
<1>2. /\ cached.version \in 0 .. SecretVersion /\ cached.at \in 0 .. secretNow
      /\ served.version \in 0 .. SecretVersion /\ served.at \in 0 .. secretNow
      /\ \A r \in Readers : /\ fetched[r].version \in 0 .. SecretVersion
                            /\ fetched[r].at \in 0 .. secretNow
  BY <1>0 DEF SecretsTypes
<1>3. SecretsTypes'
  <2>1. 0 .. SecretVersion \subseteq 0 .. SecretVersion' /\ SecretVersion' >= 1
    BY <1>1
  <2>2. /\ cached' \in [version : 0 .. SecretVersion', at : 0 .. secretNow]
        /\ served' \in [version : 0 .. SecretVersion', at : 0 .. secretNow]
    BY <1>0, <2>1 DEF SecretsTypes
  <2>3. /\ fetched' \in [Readers -> [version : 0 .. SecretVersion', at : 0 .. secretNow]]
        /\ reader' \in [Readers -> {"idle", "asking", "storing"}]
    BY <1>0, <2>1 DEF SecretsTypes
  <2>4. secretNow' = secretNow
    BY <1>0
  <2> QED BY <1>1, <2>1, <2>2, <2>3, <2>4 DEF SecretsTypes
<1>4. \A v \in 0 .. SecretVersion :
        v # SecretVersion => rotations'[v + 1] = rotations[v + 1]
  BY <1>1
<1>5. CallsAreShort'
  <2> SUFFICES ASSUME NEW r \in Readers, reader[r] = "storing",
                      fetched[r].version \notin {0, SecretVersion + 1}
               PROVE  fetched[r].at <= rotations'[fetched[r].version + 1]
    BY <1>0, <1>1 DEF CallsAreShort, Superseded
  <2>1. CASE fetched[r].version = SecretVersion
    BY <1>1, <1>2, <2>1
  <2>2. CASE fetched[r].version # SecretVersion
    BY <1>0, <1>2, <1>4, <2>2 DEF CallsAreShort, Superseded
  <2> QED BY <2>1, <2>2
<1>6. EntryIsRecent'
  <2> SUFFICES ASSUME cached.version \notin {0, SecretVersion + 1}
               PROVE  cached.at <= rotations'[cached.version + 1] + FetchLimit
    BY <1>0, <1>1 DEF EntryIsRecent, Superseded
  <2>1. CASE cached.version = SecretVersion
    <3>1. rotations'[cached.version + 1] = secretNow
      BY <1>1, <2>1
    <3>2. cached.at <= secretNow + FetchLimit
      <4>1. CacheTTL \in Nat \ {0} /\ FetchLimit \in Nat \ {0}
        BY <1>0
      <4>2. cached.at \in 0 .. secretNow /\ secretNow \in Nat
        BY <1>1, <1>2
      <4> QED BY <4>1, <4>2
    <3> QED BY <3>1, <3>2
  <2>2. CASE cached.version # SecretVersion
    BY <1>0, <1>2, <1>4, <2>2 DEF EntryIsRecent, Superseded
  <2> QED BY <2>1, <2>2
<1>7. SecretsAreRecent'
  <2> SUFFICES ASSUME served.version \notin {0, SecretVersion + 1}
               PROVE  served.at < rotations'[served.version + 1] + CacheTTL + FetchLimit
    BY <1>0, <1>1 DEF SecretsAreRecent
  <2>1. CASE served.version = SecretVersion
    <3>1. rotations'[served.version + 1] = secretNow
      BY <1>1, <2>1
    <3>2. served.at < secretNow + CacheTTL + FetchLimit
      <4>1. CacheTTL \in Nat \ {0} /\ FetchLimit \in Nat \ {0}
        BY <1>0
      <4>2. served.at \in 0 .. secretNow /\ secretNow \in Nat
        BY <1>1, <1>2
      <4> QED BY <4>1, <4>2
    <3> QED BY <3>1, <3>2
  <2>2. CASE served.version # SecretVersion
    BY <1>0, <1>2, <1>4, <2>2 DEF SecretsAreRecent
  <2> QED BY <2>1, <2>2
<1> QED BY <1>3, <1>5, <1>6, <1>7 DEF SecretsInv

LEMMA TickKeepsSecrets == ASSUME SecretsInv, SecretTick PROVE SecretsInv'
<1>0. /\ FetchLimit \in Nat \ {0} /\ secretNow' = secretNow + 1
      /\ \A r \in Readers : reader[r] # "idle" => secretNow - fetched[r].at < FetchLimit
      /\ UNCHANGED <<rotations, cached, reader, fetched, served>>
      /\ SecretVersion' = SecretVersion
      /\ SecretsTypes /\ CallsAreShort /\ EntryIsRecent /\ SecretsAreRecent
  BY SecretsAssumption DEF SecretTick, SecretsInv, SecretVersion
<1>1. secretNow \in Nat /\ \A r \in Readers : fetched[r].at \in 0 .. secretNow
  BY <1>0 DEF SecretsTypes
<1>2. SecretsTypes'
  <2>1. 0 .. secretNow \subseteq 0 .. secretNow' /\ secretNow' \in Nat
    BY <1>0, <1>1
  <2> QED BY <1>0, <2>1 DEF SecretsTypes
<1>3. CallsAreShort'
  BY <1>0, <1>1 DEF CallsAreShort, Superseded
<1>4. EntryIsRecent' /\ SecretsAreRecent'
  BY <1>0 DEF EntryIsRecent, Superseded, SecretsAreRecent
<1> QED BY <1>2, <1>3, <1>4 DEF SecretsInv

LEMMA SecretsStepKeepsInv == SecretsInv /\ [SecretsNext]_secretVars => SecretsInv'
<1> SUFFICES ASSUME SecretsInv, [SecretsNext]_secretVars PROVE SecretsInv'
  OBVIOUS
<1>1. ASSUME NEW r \in Readers,
             GetSecret(r) \/ AwsAnswers(r) \/ AwsFails(r) \/ StoreSecret(r)
      PROVE  SecretsInv'
  BY <1>1, GetSecretKeepsInv, FetchKeepsInv, StoreKeepsInv
<1>2. CASE \/ TrackSecret \/ StartSecrets \/ StopSecrets \/ StopSecretsReturns
           \/ MonitorWakes \/ MonitorChecks \/ MonitorEnds \/ UNCHANGED secretVars
  <2>1. UNCHANGED <<secretNow, rotations, cached, reader, fetched, served>>
    BY <1>2 DEF TrackSecret, StartSecrets, StopSecrets, StopSecretsReturns, MonitorWakes,
                MonitorChecks, MonitorEnds, secretVars
  <2> QED BY <2>1 DEF SecretsInv, SecretsTypes, CallsAreShort, EntryIsRecent,
                      SecretsAreRecent, SecretVersion, Superseded
<1>3. CASE RotateSecret \/ SecretTick
  BY <1>3, RotateKeepsInv, TickKeepsSecrets
<1> QED BY <1>1, <1>2, <1>3 DEF SecretsNext

(* For any readers, cache life and length of a call, GetSecret returns a   *)
(* version that is current or was less than both together ago, although    *)
(* the cache may go back to an older version (client.go 160-200).          *)
THEOREM SecretsStayRecent == SecretsSpec => []SecretsAreRecent
<1>1. SecretsInv => SecretsAreRecent
  BY DEF SecretsInv
<1> QED BY <1>1, SecretsInitInv, SecretsStepKeepsInv, PTL DEF SecretsSpec
-----------------------------------------------------------------------------
(* The aggregator.  An entry of the table is the date of an event let      *)
(* through, and the table has one at least as late for every event let     *)
(* through less than a window ago: what pruning drops is older.            *)
AggTypes ==
  /\ aggNow \in Nat
  /\ \A fp \in DOMAIN seen : seen[fp] \in 0 .. aggNow
  /\ aggLog \in Seq([fp : Fingerprints, at : Nat, passed : BOOLEAN])
  /\ \A k \in 1 .. Len(aggLog) : aggLog[k].at <= aggNow

EntriesAreEvents ==
  \A fp \in DOMAIN seen : \E j \in 1 .. Len(aggLog) :
    aggLog[j].fp = fp /\ aggLog[j].passed /\ aggLog[j].at = seen[fp]

RecentAreSeen ==
  \A j \in 1 .. Len(aggLog) :
    aggLog[j].passed /\ aggNow - aggLog[j].at < DedupWindow =>
      aggLog[j].fp \in DOMAIN seen /\ aggLog[j].at <= seen[aggLog[j].fp]

AggInv == AggTypes /\ EntriesAreEvents /\ RecentAreSeen /\ DedupExact

LEMMA AggInitInv == AggInit => AggInv
<1> SUFFICES ASSUME AggInit PROVE AggInv
  OBVIOUS
<1>1. aggNow = 0 /\ DOMAIN seen = {} /\ aggLog = <<>> /\ Len(aggLog) = 0
  BY DEF AggInit
<1>2. AggTypes
  BY <1>1 DEF AggTypes
<1> QED BY <1>1, <1>2 DEF AggInv, EntriesAreEvents, RecentAreSeen, DedupExact

LEMMA AggFacts ==
  ASSUME AggInv
  PROVE  /\ aggNow \in Nat /\ DedupWindow \in Nat /\ Len(aggLog) \in Nat
         /\ \A f \in DOMAIN seen : seen[f] \in 0 .. aggNow
         /\ \A j \in 1 .. Len(aggLog) : aggLog[j].at \in Nat /\ aggLog[j].at <= aggNow
<1>1. /\ aggLog \in Seq([fp : Fingerprints, at : Nat, passed : BOOLEAN])
      /\ \A j \in 1 .. Len(aggLog) : aggLog[j].at <= aggNow
  BY DEF AggInv, AggTypes
<1>2. ASSUME NEW j \in 1 .. Len(aggLog)
      PROVE  aggLog[j] \in [fp : Fingerprints, at : Nat, passed : BOOLEAN]
  <2> DEFINE Events == [fp : Fingerprints, at : Nat, passed : BOOLEAN]
  <2>1. aggLog \in Seq(Events)
    BY <1>1
  <2> HIDE DEF Events
  <2>2. aggLog[j] \in Events
    BY <2>1
  <2> QED BY <2>2 DEF Events
<1>3. Len(aggLog) \in Nat /\ \A j \in 1 .. Len(aggLog) : aggLog[j].at \in Nat
  BY <1>1, <1>2
<1>4. aggNow \in Nat /\ \A f \in DOMAIN seen : seen[f] \in 0 .. aggNow
  BY DEF AggInv, AggTypes
<1> QED BY <1>1, <1>3, <1>4, AggregatorAssumption

(* What the table answers is what the log says.                            *)
LEMMA TableIsTrue ==
  ASSUME AggInv, NEW fp \in Fingerprints
  PROVE  Duplicate(fp) <=>
           \E j \in 1 .. Len(aggLog) :
             aggLog[j].fp = fp /\ aggLog[j].passed /\ aggNow - aggLog[j].at < DedupWindow
<1>0. /\ aggNow \in Nat /\ DedupWindow \in Nat
      /\ \A f \in DOMAIN seen : seen[f] \in 0 .. aggNow
      /\ \A j \in 1 .. Len(aggLog) : aggLog[j].at \in Nat
  BY AggFacts
<1>1. ASSUME Duplicate(fp)
      PROVE  \E j \in 1 .. Len(aggLog) :
               aggLog[j].fp = fp /\ aggLog[j].passed /\ aggNow - aggLog[j].at < DedupWindow
  BY <1>1 DEF Duplicate, AggInv, EntriesAreEvents
<1>2. ASSUME NEW j \in 1 .. Len(aggLog), aggLog[j].fp = fp, aggLog[j].passed,
             aggNow - aggLog[j].at < DedupWindow
      PROVE  Duplicate(fp)
  <2>1. fp \in DOMAIN seen /\ aggLog[j].at <= seen[fp]
    BY <1>2 DEF AggInv, RecentAreSeen
  <2> QED BY <1>0, <1>2, <2>1 DEF Duplicate
<1> QED BY <1>1, <1>2

LEMMA AggTickKeepsInv == ASSUME AggInv, AggTick PROVE AggInv'
<1>0. /\ aggNow \in Nat /\ aggNow' = aggNow + 1 /\ UNCHANGED <<seen, aggLog>>
      /\ DedupWindow \in Nat
      /\ \A j \in 1 .. Len(aggLog) : aggLog[j].at \in Nat /\ aggLog[j].at <= aggNow
      /\ \A fp \in DOMAIN seen : seen[fp] \in 0 .. aggNow
  BY AggFacts DEF AggTick
<1>1. AggTypes'
  BY <1>0 DEF AggInv, AggTypes
<1>2. EntriesAreEvents' /\ DedupExact'
  <2>1. EntriesAreEvents /\ DedupExact /\ UNCHANGED <<seen, aggLog>>
    BY <1>0 DEF AggInv
  <2>2. EntriesAreEvents'
    BY <2>1 DEF EntriesAreEvents
  <2>3. DedupExact'
    BY <2>1 DEF DedupExact
  <2> QED BY <2>2, <2>3
<1>3. RecentAreSeen'
  <2>1. \A j \in 1 .. Len(aggLog) : aggNow' - aggLog[j].at < DedupWindow =>
                                       aggNow - aggLog[j].at < DedupWindow
    BY <1>0
  <2>2. RecentAreSeen /\ UNCHANGED <<seen, aggLog>>
    BY <1>0 DEF AggInv
  <2> QED BY <2>1, <2>2 DEF RecentAreSeen
<1> QED BY <1>1, <1>2, <1>3 DEF AggInv

(* What Process leaves in the table of an event that was let through: its  *)
(* own entry, and of the others' those it had and that are not too old.    *)
LEMMA TableAfter ==
  ASSUME AggInv, NEW fp \in Fingerprints
  PROVE  LET table == SeenAfter(fp)
         IN /\ DOMAIN table \subseteq DOMAIN seen \cup {fp}
            /\ fp \in DOMAIN table /\ table[fp] = aggNow
            /\ \A f \in DOMAIN table \ {fp} : table[f] = seen[f]
            /\ \A f \in DOMAIN seen \ {fp} :
                 aggNow - seen[f] <= DedupWindow => f \in DOMAIN table
<1>0. aggNow \in Nat /\ DedupWindow \in Nat
  BY AggregatorAssumption DEF AggInv, AggTypes
<1>1. /\ DOMAIN Updated(fp) = DOMAIN seen \cup {fp} /\ Updated(fp)[fp] = aggNow
      /\ \A f \in DOMAIN seen \ {fp} : Updated(fp)[f] = seen[f]
  BY DEF Updated
<1>2. CASE SeenAfter(fp) = Updated(fp)
  BY <1>1, <1>2
<1>3. CASE SeenAfter(fp) = Pruned(Updated(fp))
  <2> DEFINE stays == {f \in DOMAIN Updated(fp) : aggNow - Updated(fp)[f] <= DedupWindow}
  <2>1. SeenAfter(fp) = [f \in stays |-> Updated(fp)[f]]
    BY <1>3 DEF Pruned, Restrict
  <2>2. fp \in stays
    BY <1>0, <1>1
  <2>3. \A f \in DOMAIN seen \ {fp} : aggNow - seen[f] <= DedupWindow => f \in stays
    BY <1>1
  <2> QED BY <1>1, <2>1, <2>2, <2>3
<1> QED BY <1>2, <1>3 DEF SeenAfter

LEMMA ProcessKeepsInv == ASSUME AggInv, NEW fp \in Fingerprints, Process(fp) PROVE AggInv'
<1> DEFINE n == Len(aggLog)
           event == [fp |-> fp, at |-> aggNow, passed |-> ~Duplicate(fp)]
<1>0. /\ aggNow \in Nat /\ DedupWindow \in Nat /\ aggNow' = aggNow /\ n \in Nat
      /\ aggLog \in Seq([fp : Fingerprints, at : Nat, passed : BOOLEAN])
      /\ \A f \in DOMAIN seen : seen[f] \in 0 .. aggNow
      /\ \A j \in 1 .. n : aggLog[j].at \in Nat /\ aggLog[j].at <= aggNow
  BY AggFacts DEF Process, AggInv, AggTypes
<1>1. event \in [fp : Fingerprints, at : Nat, passed : BOOLEAN]
  BY <1>0 DEF Duplicate
<1>2. aggLog' = Append(aggLog, event)
  BY DEF Process
<1> HIDE DEF event
<1>3. /\ aggLog' \in Seq([fp : Fingerprints, at : Nat, passed : BOOLEAN])
      /\ Len(aggLog') = n + 1 /\ aggLog'[n + 1] = event
      /\ \A j \in 1 .. n : aggLog'[j] = aggLog[j]
  BY <1>0, <1>1, <1>2
<1>4. event.fp = fp /\ event.at = aggNow /\ (event.passed <=> ~Duplicate(fp))
  BY DEF event
<1>5. \A j \in 1 .. Len(aggLog') : j \in 1 .. n \/ j = n + 1
  BY <1>0, <1>3
<1>6. \A k \in 1 .. n : k \in 1 .. Len(aggLog') /\ \A j \in 1 .. k - 1 : j \in 1 .. n
  BY <1>0, <1>3
<1>7. n + 1 \in 1 .. Len(aggLog')
  BY <1>0, <1>3
<1>8. ASSUME NEW k \in 1 .. Len(aggLog') PROVE aggLog'[k].at <= aggNow
  <2>1. CASE k \in 1 .. n
    BY <1>0, <1>3, <2>1
  <2>2. CASE k = n + 1
    <3>1. aggLog'[k].at = aggNow
      BY <1>3, <1>4, <2>2
    <3> QED BY <1>0, <3>1
  <2> QED BY <1>5, <2>1, <2>2
<1>9. DedupExact'
  <2> SUFFICES ASSUME NEW k \in 1 .. Len(aggLog')
               PROVE  aggLog'[k].passed <=>
                        \A j \in 1 .. k - 1 :
                          aggLog'[j].fp = aggLog'[k].fp /\ aggLog'[j].passed =>
                            aggLog'[k].at - aggLog'[j].at >= DedupWindow
    BY DEF DedupExact
  <2>1. CASE k \in 1 .. n
    <3>1. aggLog'[k] = aggLog[k] /\ \A j \in 1 .. k - 1 : aggLog'[j] = aggLog[j]
      BY <1>3, <1>6, <2>1
    <3> QED BY <2>1, <3>1 DEF AggInv, DedupExact
  <2>2. CASE k = n + 1
    <3>1. 1 .. k - 1 = 1 .. n
      BY <1>0, <2>2
    <3>2. Duplicate(fp) <=> \E j \in 1 .. n :
            aggLog[j].fp = fp /\ aggLog[j].passed /\ aggNow - aggLog[j].at < DedupWindow
      BY TableIsTrue
    <3>3. \A j \in 1 .. n : aggNow - aggLog[j].at < DedupWindow
                             <=> ~(aggNow - aggLog[j].at >= DedupWindow)
      BY <1>0
    <3> QED BY <1>3, <1>4, <2>2, <3>1, <3>2, <3>3
  <2> QED BY <1>5, <2>1, <2>2
<1>10. CASE Duplicate(fp)
  <2>1. seen' = seen /\ ~event.passed
    BY <1>4, <1>10 DEF Process
  <2>2. AggTypes'
    <3>1. \A f \in DOMAIN seen' : seen'[f] \in 0 .. aggNow
      BY <1>0, <2>1
    <3> QED BY <1>0, <1>3, <1>8, <3>1 DEF AggTypes
  <2>3. EntriesAreEvents'
    <3> SUFFICES ASSUME NEW f \in DOMAIN seen
                 PROVE  \E j \in 1 .. Len(aggLog') :
                          aggLog'[j].fp = f /\ aggLog'[j].passed /\ aggLog'[j].at = seen[f]
      BY <2>1 DEF EntriesAreEvents
    <3>1. PICK j \in 1 .. n : aggLog[j].fp = f /\ aggLog[j].passed /\ aggLog[j].at = seen[f]
      BY DEF AggInv, EntriesAreEvents
    <3> QED BY <1>3, <1>6, <3>1
  <2>4. RecentAreSeen'
    BY <1>0, <1>3, <1>5, <2>1 DEF AggInv, RecentAreSeen
  <2> QED BY <1>9, <2>2, <2>3, <2>4 DEF AggInv
<1>11. CASE ~Duplicate(fp)
  <2>1. seen' = SeenAfter(fp) /\ event.passed
    BY <1>4, <1>11 DEF Process
  <2>2. /\ DOMAIN seen' \subseteq DOMAIN seen \cup {fp}
        /\ fp \in DOMAIN seen' /\ seen'[fp] = aggNow
        /\ \A f \in DOMAIN seen' \ {fp} : seen'[f] = seen[f]
        /\ \A f \in DOMAIN seen \ {fp} :
             aggNow - seen[f] <= DedupWindow => f \in DOMAIN seen'
    BY <2>1, TableAfter
  <2>3. AggTypes'
    <3>1. \A f \in DOMAIN seen' : seen'[f] \in 0 .. aggNow
      BY <1>0, <2>2
    <3> QED BY <1>0, <1>3, <1>8, <3>1 DEF AggTypes
  <2>4. EntriesAreEvents'
    <3> SUFFICES ASSUME NEW f \in DOMAIN seen'
                 PROVE  \E j \in 1 .. Len(aggLog') :
                          aggLog'[j].fp = f /\ aggLog'[j].passed /\ aggLog'[j].at = seen'[f]
      BY DEF EntriesAreEvents
    <3>1. CASE f = fp
      BY <1>3, <1>4, <1>7, <2>1, <2>2, <3>1
    <3>2. CASE f # fp
      <4>1. f \in DOMAIN seen /\ seen'[f] = seen[f]
        BY <2>2, <3>2
      <4>2. PICK j \in 1 .. n : aggLog[j].fp = f /\ aggLog[j].passed /\ aggLog[j].at = seen[f]
        BY <4>1 DEF AggInv, EntriesAreEvents
      <4> QED BY <1>3, <1>6, <4>1, <4>2
    <3> QED BY <3>1, <3>2
  <2>5. RecentAreSeen'
    <3> SUFFICES ASSUME NEW j \in 1 .. Len(aggLog'), aggLog'[j].passed,
                        aggNow - aggLog'[j].at < DedupWindow
                 PROVE  aggLog'[j].fp \in DOMAIN seen'
                        /\ aggLog'[j].at <= seen'[aggLog'[j].fp]
      BY <1>0 DEF RecentAreSeen
    <3>1. CASE j = n + 1
      BY <1>0, <1>3, <1>4, <2>2, <3>1
    <3>2. CASE j \in 1 .. n
      <4>1. aggLog'[j] = aggLog[j] /\ aggLog[j].at \in Nat /\ aggLog[j].at <= aggNow
        BY <1>0, <1>3, <3>2
      <4>2. aggLog[j].fp \in DOMAIN seen /\ aggLog[j].at <= seen[aggLog[j].fp]
        BY <3>2, <4>1 DEF AggInv, RecentAreSeen
      <4>3. CASE aggLog[j].fp = fp
        BY <2>2, <4>1, <4>3
      <4>4. CASE aggLog[j].fp # fp
        <5>1. aggNow - seen[aggLog[j].fp] <= DedupWindow
          BY <1>0, <4>1, <4>2
        <5> QED BY <2>2, <4>1, <4>2, <4>4, <5>1
      <4> QED BY <4>3, <4>4
    <3> QED BY <1>5, <3>1, <3>2
  <2> QED BY <1>9, <2>3, <2>4, <2>5 DEF AggInv
<1> QED BY <1>10, <1>11

LEMMA AggStepKeepsInv == AggInv /\ [AggNext]_aggVars => AggInv'
<1> SUFFICES ASSUME AggInv, [AggNext]_aggVars PROVE AggInv'
  OBVIOUS
<1>1. CASE AggTick
  BY <1>1, AggTickKeepsInv
<1>2. ASSUME NEW fp \in Fingerprints, Process(fp) PROVE AggInv'
  BY <1>2, ProcessKeepsInv
<1>3. CASE UNCHANGED aggVars
  BY <1>3 DEF aggVars, AggInv, AggTypes, EntriesAreEvents, RecentAreSeen, DedupExact
<1> QED BY <1>1, <1>2, <1>3 DEF AggNext

(* For any fingerprints, window and size of the table, an event is let     *)
(* through exactly when none of its fingerprint was let through less than  *)
(* a window before: pruning changes no answer (aggregator.go 41-115).      *)
THEOREM DedupIsExact == AggSpec => []DedupExact
<1>1. AggInv => DedupExact
  BY DEF AggInv
<1> QED BY <1>1, AggInitInv, AggStepKeepsInv, PTL DEF AggSpec

-----------------------------------------------------------------------------
(* The types of these four components.                                     *)

(* The calls under way.                                                    *)
Callers == {p \in Publishers : Calling(p)}

(* Every event consumed was published by a call that has returned.         *)
BusCounts ==
  /\ published \in 0 .. MaxPublished /\ consumed \in Nat
  /\ consumed + Cardinality(Callers) <= published
  /\ late \subseteq Publishers

BusTyped == BusInv /\ BusCounts

(* The types of the bus.                                                   *)
LEMMA CallersFinite == IsFiniteSet(Callers) /\ Cardinality(Callers) \in Nat
<1>1. Callers \subseteq Publishers
  BY DEF Callers
<1> QED BY <1>1, BusAssumption, FS_Subset, FS_CardinalityType

LEMMA BusTypedInit == BusInit => BusTyped
<1> SUFFICES ASSUME BusInit PROVE BusTyped
  OBVIOUS
<1>1. Callers = {}
  BY DEF BusInit, Callers, Calling, NoCall
<1>2. Cardinality(Callers) = 0
  BY <1>1, FS_EmptySet
<1> QED BY <1>2, BusInitInv, BusAssumption DEF BusInit, BusTyped, BusCounts

LEMMA BusTypedTypes == BusTyped => BusTypeOK
BY CallersFinite DEF BusTyped, BusInv, BusFunctions, BusCounts, BusTypeOK

LEMMA BusCountsKept == BusTyped /\ [BusNext]_busVars => BusCounts'
<1> SUFFICES ASSUME BusTyped, [BusNext]_busVars PROVE BusCounts'
  OBVIOUS
<1>0. /\ publisher \in [Publishers -> [at : {"idle", "open", "found"},
                                       handler : BusHandlers \cup {"none"}]]
      /\ Cardinality(Callers) \in Nat /\ IsFiniteSet(Callers)
      /\ published \in 0 .. MaxPublished /\ consumed \in Nat /\ MaxPublished \in Nat
      /\ consumed + Cardinality(Callers) <= published
      /\ late \subseteq Publishers
  BY CallersFinite, BusAssumption DEF BusTyped, BusInv, BusFunctions, BusCounts
<1>1. ASSUME UNCHANGED <<publisher, published, consumed, late>> PROVE BusCounts'
  <2>1. Callers' = Callers
    BY <1>1 DEF Callers, Calling
  <2> QED BY <1>0, <1>1, <2>1 DEF BusCounts
<1>2. ASSUME NEW p \in Publishers, Publish(p) PROVE BusCounts'
  <2>1. /\ p \notin Callers /\ published' = published + 1 /\ published < MaxPublished
        /\ publisher'[p].at = "open" /\ consumed' = consumed /\ late' \subseteq Publishers
        /\ \A q \in Publishers \ {p} : publisher'[q] = publisher[q]
    BY <1>0, <1>2 DEF Publish, Callers
  <2>2. Callers' = Callers \cup {p}
    BY <2>1 DEF Callers, Calling
  <2>3. Cardinality(Callers') = Cardinality(Callers) + 1
    BY <1>0, <2>1, <2>2, FS_AddElement
  <2> QED BY <1>0, <2>1, <2>3 DEF BusCounts
<1>3. ASSUME NEW p \in Publishers, LooksUpHandler(p) PROVE BusCounts'
  <2>1. /\ publisher[p].at = "open" /\ publisher'[p].at = "found"
        /\ \A q \in Publishers \ {p} : publisher'[q] = publisher[q]
        /\ UNCHANGED <<published, consumed, late>>
    BY <1>0, <1>3 DEF LooksUpHandler
  <2>2. Callers' = Callers
    BY <2>1 DEF Callers, Calling
  <2> QED BY <1>0, <2>1, <2>2 DEF BusCounts
<1>4. ASSUME NEW p \in Publishers, Delivers(p) PROVE BusCounts'
  <2>1. /\ publisher[p].at = "found" /\ publisher'[p].at = "idle"
        /\ \A q \in Publishers \ {p} : publisher'[q] = publisher[q]
        /\ UNCHANGED <<published, late>> /\ consumed' \in {consumed, consumed + 1}
    BY <1>0, <1>4 DEF Delivers, NoCall
  <2>2. p \in Callers /\ Callers' = Callers \ {p}
    BY <2>1 DEF Callers, Calling
  <2>3. Cardinality(Callers') = Cardinality(Callers) - 1
    BY <1>0, <2>2, FS_RemoveElement
  <2> QED BY <1>0, <2>1, <2>3, CallersFinite DEF BusCounts
<1> QED BY <1>1, <1>2, <1>3, <1>4 DEF BusNext, Subscribe, Unsubscribe, CloseBus, busVars

LEMMA BusTypedKept == BusTyped /\ [BusNext]_busVars => BusTyped'
BY BusStepKeepsInv, BusCountsKept DEF BusTyped

(* The bounds of the policy engine: its list never outgrows its limit.     *)
PolicyBounds ==
  /\ enabled \subseteq defined
  /\ violations \in Seq(Implemented) /\ Len(violations) <= MaxViolations
  /\ evalCount \in 0 .. MaxEvaluations

PolicyTyped == PolicyInv /\ PolicyBounds

(* A list cut to its newest entries fits.                                  *)
LEMMA NewestFits ==
  ASSUME NEW seq \in Seq(Implemented)
  PROVE  Newest(seq) \in Seq(Implemented) /\ Len(Newest(seq)) <= MaxViolations
<1> DEFINE n == Len(seq)
           m == n - MaxViolations + 1
<1>1. n \in Nat /\ MaxViolations \in Nat \ {0}
  BY PolicyAssumption
<1>2. CASE n <= MaxViolations
  BY <1>1, <1>2 DEF Newest
<1>3. CASE n > MaxViolations
  <2>1. m \in 1 .. n /\ n - m + 1 = MaxViolations
    BY <1>1, <1>3
  <2> HIDE DEF m
  <2>2. SubSeq(seq, m, n) \in Seq(Implemented) /\ Len(SubSeq(seq, m, n)) = n - m + 1
    BY <2>1
  <2> QED BY <1>1, <1>3, <2>1, <2>2 DEF Newest, m
<1> QED BY <1>1, <1>2, <1>3

LEMMA PolicyTypedInit == PolicyInit => PolicyTyped
BY PolicyInitInv, PolicyAssumption DEF PolicyInit, PolicyTyped, PolicyBounds

LEMMA PolicyTypedTypes == PolicyTyped => PolicyTypeOK
BY DEF PolicyTyped, PolicyInv, PolicyFunctions, PolicyBounds, PolicyTypeOK

LEMMA PolicyBoundsKept == PolicyBounds /\ [PolicyNext]_policyVars => PolicyBounds'
<1> SUFFICES ASSUME PolicyBounds, [PolicyNext]_policyVars PROVE PolicyBounds'
  OBVIOUS
<1>0. MaxEvaluations \in Nat
  BY PolicyAssumption
<1>1. ASSUME NEW p \in Policies, AddPolicy(p) \/ RemovePolicy(p) PROVE PolicyBounds'
  BY <1>1 DEF AddPolicy, RemovePolicy, Witness, PolicyBounds
<1>2. ASSUME NEW e \in Evaluators,
             EvaluateBegins(e) \/ InputRefused(e) \/ CopyEnabled(e) \/ EvaluateReturns(e)
      PROVE  PolicyBounds'
  <2>1. UNCHANGED <<defined, enabled, violations>>
        /\ (evalCount' = evalCount \/ (evalCount < MaxEvaluations /\ evalCount' = evalCount + 1))
    BY <1>2, Zenon DEF EvaluateBegins, InputRefused, CopyEnabled, EvaluateReturns
  <2> QED BY <1>0, <2>1 DEF PolicyBounds
<1>3. ASSUME NEW e \in Evaluators, EvaluateEnds(e) PROVE PolicyBounds'
  <2> DEFINE breached == copied[e] \cap Implemented \cap resource[e]
  <2>1. PICK batch \in SetToSeqs(breached) : violations' = Newest(violations \o batch)
    BY <1>3, Zenon DEF EvaluateEnds
  <2>2. IsFiniteSet(breached)
    BY PolicyAssumption, FS_Subset
  <2>3. batch \in Seq(breached)
    BY <2>1, <2>2, ListingFacts
  <2>4. batch \in Seq(Implemented) /\ violations \in Seq(Implemented)
    BY <2>3 DEF PolicyBounds
  <2>5. violations \o batch \in Seq(Implemented)
    BY <2>4
  <2>6. violations' \in Seq(Implemented) /\ Len(violations') <= MaxViolations
    BY <2>1, <2>5, NewestFits
  <2>7. UNCHANGED <<defined, enabled, evalCount>>
    BY <1>3 DEF EvaluateEnds
  <2> QED BY <2>6, <2>7 DEF PolicyBounds
<1>4. CASE UNCHANGED policyVars
  BY <1>4 DEF policyVars, PolicyBounds
<1> QED BY <1>1, <1>2, <1>3, <1>4 DEF PolicyNext

LEMMA PolicyTypedKept == PolicyTyped /\ [PolicyNext]_policyVars => PolicyTyped'
BY PolicyStepKeepsInv, PolicyBoundsKept, Zenon DEF PolicyTyped

(* The life of the secrets client, which its cache does not depend on; no  *)
(* rotation is in the future.                                              *)
SecretsLife ==
  /\ secretErr \in BOOLEAN /\ secretsRunning \in BOOLEAN /\ rotationDue \in BOOLEAN
  /\ secretLock \in {"free", "stop"}
  /\ monitor \in {"none", "waiting", "checking", "done"}

SecretsPast ==
  /\ \A v \in 1 .. Len(rotations) : rotations[v] <= secretNow
  /\ lastRotated \in 0 .. secretNow

SecretsTyped == SecretsInv /\ SecretsLife /\ SecretsPast

LEMMA SecretsTypedInit == SecretsInit => SecretsTyped
<1> SUFFICES ASSUME SecretsInit PROVE SecretsTyped
  OBVIOUS
<1>1. SecretsLife
  BY Zenon DEF SecretsInit, SecretsLife
<1>2. SecretsPast
  BY DEF SecretsInit, SecretsPast
<1> QED BY <1>1, <1>2, SecretsInitInv, Zenon DEF SecretsTyped

LEMMA SecretsTypedTypes == SecretsTyped => SecretsTypeOK
<1> SUFFICES ASSUME SecretsTyped PROVE SecretsTypeOK
  OBVIOUS
<1>1. cached.version \in 0 .. SecretVersion /\ reader \in [Readers -> {"idle", "asking", "storing"}]
  BY DEF SecretsTyped, SecretsInv, SecretsTypes
<1> QED BY <1>1, Zenon DEF SecretsTyped, SecretsLife, SecretsPast, SecretsTypeOK

LEMMA SecretsLifeKept == SecretsLife /\ [SecretsNext]_secretVars => SecretsLife'
<1> SUFFICES ASSUME SecretsLife, [SecretsNext]_secretVars PROVE SecretsLife'
  OBVIOUS
<1> USE DEF SecretsLife
<1>1. ASSUME NEW r \in Readers, GetSecret(r) \/ AwsAnswers(r) \/ AwsFails(r) \/ StoreSecret(r)
      PROVE  SecretsLife'
  BY <1>1, Zenon DEF GetSecret, AwsAnswers, AwsFails, StoreSecret
<1>2. CASE TrackSecret \/ StartSecrets \/ StopSecrets \/ StopSecretsReturns
  BY <1>2, Zenon DEF TrackSecret, StartSecrets, StopSecrets, StopSecretsReturns
<1>3. CASE MonitorWakes \/ MonitorChecks \/ MonitorEnds
  BY <1>3, Zenon DEF MonitorWakes, MonitorChecks, MonitorEnds, CheckRotation
<1>4. CASE RotateSecret \/ SecretTick
  BY <1>4, Zenon DEF RotateSecret, SecretTick
<1>5. CASE UNCHANGED secretVars
  BY <1>5, Zenon DEF secretVars
<1> QED BY <1>1, <1>2, <1>3, <1>4, <1>5 DEF SecretsNext

LEMMA SecretsPastKept == SecretsInv /\ SecretsPast /\ [SecretsNext]_secretVars => SecretsPast'
<1> SUFFICES ASSUME SecretsInv, SecretsPast, [SecretsNext]_secretVars PROVE SecretsPast'
  OBVIOUS
<1>0. /\ secretNow \in Nat /\ rotations \in Seq(Nat) /\ Len(rotations) >= 1
      /\ \A v \in 1 .. Len(rotations) : rotations[v] <= secretNow
      /\ lastRotated \in 0 .. secretNow
  BY DEF SecretsInv, SecretsTypes, SecretVersion, SecretsPast
<1>1. ASSUME UNCHANGED <<secretNow, rotations, lastRotated>> PROVE SecretsPast'
  BY <1>0, <1>1 DEF SecretsPast
<1>2. CASE TrackSecret
  BY <1>0, <1>2 DEF TrackSecret, SecretsPast, SecretVersion
<1>3. CASE RotateSecret
  <2>1. Len(rotations') = Len(rotations) + 1 /\ rotations'[Len(rotations) + 1] = secretNow
        /\ \A v \in 1 .. Len(rotations) : rotations'[v] = rotations[v]
    BY <1>0, <1>3 DEF RotateSecret
  <2>2. UNCHANGED <<secretNow, lastRotated>>
    BY <1>3 DEF RotateSecret
  <2> QED BY <1>0, <2>1, <2>2 DEF SecretsPast
<1>4. CASE SecretTick
  BY <1>0, <1>4 DEF SecretTick, SecretsPast
<1> QED BY <1>1, <1>2, <1>3, <1>4 DEF SecretsNext, secretVars, GetSecret, AwsAnswers, AwsFails,
      StoreSecret, StartSecrets, StopSecrets, StopSecretsReturns, MonitorWakes, MonitorChecks,
      MonitorEnds

LEMMA SecretsTypedKept == SecretsTyped /\ [SecretsNext]_secretVars => SecretsTyped'
BY SecretsStepKeepsInv, SecretsLifeKept, SecretsPastKept, Zenon DEF SecretsTyped

(* The types of the aggregator: the table has entries of events only,      *)
(* which are of fingerprints, and the clock is bounded.                    *)
AggTyped == AggInv /\ aggNow <= MaxAggTime

LEMMA AggTypedInit == AggInit => AggTyped
BY AggInitInv, AggregatorAssumption DEF AggInit, AggTyped

LEMMA AggTypedKept == AggTyped /\ [AggNext]_aggVars => AggTyped'
<1> SUFFICES ASSUME AggTyped, [AggNext]_aggVars PROVE AggTyped'
  OBVIOUS
<1>1. AggInv'
  BY AggStepKeepsInv DEF AggTyped
<1>2. aggNow \in Nat /\ aggNow <= MaxAggTime
  BY DEF AggTyped, AggInv, AggTypes
<1>3. aggNow' <= MaxAggTime
  <2>1. CASE AggTick
    BY <1>2, <2>1, AggregatorAssumption DEF AggTick
  <2>2. CASE UNCHANGED aggNow
    BY <1>2, <2>2
  <2> QED BY <2>1, <2>2, Zenon DEF AggNext, Process, aggVars
<1> QED BY <1>1, <1>3 DEF AggTyped

(* What stands in a list is of its elements.                               *)
LEMMA EntryIn ==
  ASSUME NEW S, NEW s \in Seq(S), NEW k \in 1 .. Len(s) PROVE s[k] \in S
OBVIOUS

LEMMA AggTypedTypes == AggTyped => AggTypeOK
<1> SUFFICES ASSUME AggTyped PROVE AggTypeOK
  OBVIOUS
<1>1. /\ AggTypes /\ EntriesAreEvents /\ aggNow \in 0 .. MaxAggTime
      /\ aggNow \in Nat /\ aggLog \in Seq([fp : Fingerprints, at : Nat, passed : BOOLEAN])
      /\ \A k \in 1 .. Len(aggLog) : aggLog[k].at <= aggNow
  BY AggregatorAssumption DEF AggTyped, AggInv, AggTypes
<1>2. ASSUME NEW k \in 1 .. Len(aggLog)
      PROVE  aggLog[k] \in [fp : Fingerprints, at : 0 .. aggNow, passed : BOOLEAN]
  <2>1. aggLog[k] \in [fp : Fingerprints, at : Nat, passed : BOOLEAN]
    BY <1>1, EntryIn, Zenon
  <2>2. aggLog[k].at \in 0 .. aggNow
    BY <1>1, <2>1
  <2> QED BY <2>1, <2>2
<1>3. ASSUME NEW fp \in DOMAIN seen PROVE fp \in Fingerprints
  <2>1. PICK j \in 1 .. Len(aggLog) : aggLog[j].fp = fp
    BY <1>1 DEF EntriesAreEvents
  <2> QED BY <1>2, <2>1
<1> QED BY <1>1, <1>2, <1>3 DEF AggTypes, AggTypeOK

(* The state of the bus has its types: no more is consumed than was        *)
(* published (bus.go 80-142).                                              *)
THEOREM BusTypesHold == BusSpec => []BusTypeOK
BY BusTypedInit, BusTypedKept, BusTypedTypes, PTL DEF BusSpec

(* The state of the policy engine has its types: the list of violations    *)
(* never outgrows its limit (engine.go 82-136).                            *)
THEOREM PolicyTypesHold == PolicySpec => []PolicyTypeOK
BY PolicyTypedInit, PolicyTypedKept, PolicyTypedTypes, PTL DEF PolicySpec

(* The state of the secrets client has its types: no rotation it knows of  *)
(* is in the future (client.go 100-260).                                   *)
THEOREM SecretsTypesHold == SecretsSpec => []SecretsTypeOK
BY SecretsTypedInit, SecretsTypedKept, SecretsTypedTypes, PTL DEF SecretsSpec

(* The state of the aggregator has its types: its table holds fingerprints *)
(* of events that came (aggregator.go 41-115).                             *)
THEOREM AggTypesHold == AggSpec => []AggTypeOK
BY AggTypedInit, AggTypedKept, AggTypedTypes, PTL DEF AggSpec

-----------------------------------------------------------------------------
(* A Stop that waits, under the lock, for the monitor, which waits for it. *)
MonitorStuck == secretLock = "stop" /\ monitor = "checking"

(* A call of GetSecret that has met them.                                  *)
ReaderStuck(r) == MonitorStuck /\ reader[r] \in {"asking", "storing"}

LEMMA MonitorStuckKept ==
  ASSUME NEW r \in Readers, SecretsTyped, [SecretsNext]_secretVars, MonitorStuck
  PROVE  MonitorStuck' /\ (ReaderStuck(r) => ReaderStuck(r)')
<1>1. secretLock = "stop" /\ monitor = "checking"
      /\ reader \in [Readers -> {"idle", "asking", "storing"}]
  BY DEF MonitorStuck, SecretsTyped, SecretsInv, SecretsTypes
<1>2. /\ \A p \in Readers : ~GetSecret(p) /\ ~AwsFails(p) /\ ~StoreSecret(p)
      /\ ~TrackSecret /\ ~StartSecrets /\ ~StopSecrets /\ ~StopSecretsReturns
      /\ ~MonitorWakes /\ ~MonitorChecks /\ ~MonitorEnds
  BY <1>1 DEF GetSecret, AwsFails, StoreSecret, TrackSecret, StartSecrets, StopSecrets,
     StopSecretsReturns, MonitorWakes, MonitorChecks, MonitorEnds
<1>3. ASSUME NEW p \in Readers, AwsAnswers(p)
      PROVE  /\ UNCHANGED <<secretLock, monitor>>
             /\ reader' = [reader EXCEPT ![p] = "storing"]
  BY <1>3 DEF AwsAnswers
<1>4. RotateSecret \/ SecretTick \/ UNCHANGED secretVars => UNCHANGED <<secretLock, monitor, reader>>
  BY DEF RotateSecret, SecretTick, secretVars
<1> QED BY <1>1, <1>2, <1>3, <1>4 DEF SecretsNext, MonitorStuck, ReaderStuck

(* Once Stop waits under the lock for a monitor that has come to its check *)
(* and waits for that lock, neither ever goes on, and no call of GetSecret *)
(* that is then under way returns (aws-secrets/client.go 121-132,          *)
(* 160-260): StartSecrets, MonitorWakes, StopSecrets lead there.           *)
THEOREM MonitorStuckForEver ==
  ASSUME NEW r \in Readers
  PROVE  SecretsSpec => /\ [](MonitorStuck => []MonitorStuck)
                        /\ [](ReaderStuck(r) => []ReaderStuck(r))
<1>1. SecretsTyped /\ MonitorStuck /\ [SecretsNext]_secretVars => MonitorStuck'
  BY MonitorStuckKept
<1>2. SecretsTyped /\ ReaderStuck(r) /\ [SecretsNext]_secretVars => ReaderStuck(r)'
  BY MonitorStuckKept DEF ReaderStuck
<1> QED BY <1>1, <1>2, SecretsTypedInit, SecretsTypedKept, PTL DEF SecretsSpec

-----------------------------------------------------------------------------
(* The lag of a consumer group. What the collector adds up grows while it  *)
(* does, and never shrinks.                                                *)
(* The recursion behind a sum.                                             *)
SumsUp(g, f, D) ==
  \A s \in SUBSET D : g[s] = IF s = {} THEN 0
                             ELSE f[CHOOSE x \in s : TRUE] + g[s \ {CHOOSE x \in s : TRUE}]

(* A function that satisfies the recursion exists,                         *)
LEMMA SumExists ==
  ASSUME NEW D, IsFiniteSet(D), NEW f \in [D -> Int]
  PROVE  \E g \in [SUBSET D -> Int] : SumsUp(g, f, D)
<1> DEFINE pick == [s \in SUBSET D |-> CHOOSE x \in s : TRUE]
           step == [x \in D |-> [k \in Int |-> f[x] + k]]
<1>1. Picks(pick, D)
  BY DEF Picks
<1>2. step \in [D -> [Int -> Int]] /\ 0 \in Int
  OBVIOUS
<1>3. \A s \in SUBSET D : pick[s] = CHOOSE x \in s : TRUE
  OBVIOUS
<1>4. \A x \in D : \A k \in Int : step[x][k] = f[x] + k
  OBVIOUS
<1> HIDE DEF pick, step
<1>5. PICK g \in [SUBSET D -> Int] : IsFold(g, D, 0, step, pick)
  BY <1>1, <1>2, FoldExists
<1>6. ASSUME NEW s \in SUBSET D
      PROVE  g[s] = IF s = {} THEN 0
                    ELSE f[CHOOSE x \in s : TRUE] + g[s \ {CHOOSE x \in s : TRUE}]
  <2>1. s # {} => pick[s] \in D /\ g[s \ {pick[s]}] \in Int
    BY <1>1 DEF Picks
  <2>2. g[s] = IF s = {} THEN 0 ELSE step[pick[s]][g[s \ {pick[s]}]]
    BY <1>5 DEF IsFold
  <2>3. g[s] = IF s = {} THEN 0 ELSE f[pick[s]] + g[s \ {pick[s]}]
    BY <1>4, <2>1, <2>2
  <2> QED BY <1>3, <2>3
<1> QED BY <1>6 DEF SumsUp

(* a sum is its value,                                                     *)
LEMMA SumIs ==
  ASSUME NEW D, IsFiniteSet(D), NEW f \in [D -> Int], NEW g \in [SUBSET D -> Int],
         SumsUp(g, f, D), NEW S \in SUBSET D
  PROVE  SumOver(f, S) = g[S]
<1> DEFINE Choice(s) == CHOOSE x \in s : TRUE
           Body(k, s) == IF s = {} THEN 0 ELSE f[Choice(s)] + k[s \ {Choice(s)}]
           IsIt(k) == k = [s \in SUBSET S |-> Body(k, s)]
           h == CHOOSE k : IsIt(k)
           r == [s \in SUBSET S |-> g[s]]
<1>1. SumOver(f, S) = h[S]
  BY Zenon DEF SumOver, MapThenSumSet, MapThenFoldSet
<1>2. \A s \in SUBSET S : s # {} => Choice(s) \in s
  OBVIOUS
<1>3. ASSUME NEW s \in SUBSET S PROVE r[s] = Body(r, s)
  BY <1>2 DEF SumsUp
<1>4. IsIt(r)
  BY <1>3, Zenon
<1>5. IsIt(h)
  <2> HIDE DEF IsIt
  <2> QED BY <1>4
<1>6. \A s \in SUBSET S : h[s] = Body(h, s)
  BY <1>5
<1> HIDE DEF h, r
<1> DEFINE T == {s \in SUBSET S : h[s] = g[s]}
<1>7. ASSUME NEW s \in SUBSET S, \A u \in SUBSET s : u # s => u \in T PROVE s \in T
  <2>1. CASE s = {}
    BY <1>6, <2>1 DEF SumsUp
  <2>2. CASE s # {}
    <3>1. Choice(s) \in s /\ s \ {Choice(s)} \in T
      BY <1>2, <1>7, <2>2
    <3>2. g[s] = f[Choice(s)] + g[s \ {Choice(s)}]
      BY <2>2 DEF SumsUp
    <3> QED BY <1>6, <2>2, <3>1, <3>2
  <2> QED BY <2>1, <2>2
<1>8. IsFiniteSet(S)
  BY FS_Subset
<1>9. SUBSET S \subseteq T
  <2> HIDE DEF T
  <2> QED BY <1>7, <1>8, SubsetInduction
<1> QED BY <1>1, <1>9

(* and so a sum takes out one place after the other.                       *)
LEMMA SumChosen ==
  ASSUME NEW D, IsFiniteSet(D), NEW f \in [D -> Int]
  PROVE  /\ SumOver(f, {}) = 0
         /\ \A S \in SUBSET D :
              /\ SumOver(f, S) \in Int
              /\ S # {} => \E c \in S : SumOver(f, S) = f[c] + SumOver(f, S \ {c})
<1>1. PICK g \in [SUBSET D -> Int] : SumsUp(g, f, D)
  BY SumExists
<1>2. \A S \in SUBSET D : SumOver(f, S) = g[S]
  BY <1>1, SumIs
<1>3. SumOver(f, {}) = 0
  BY <1>1, <1>2 DEF SumsUp
<1>4. ASSUME NEW S \in SUBSET D, S # {}
      PROVE  \E c \in S : SumOver(f, S) = f[c] + SumOver(f, S \ {c})
  <2> DEFINE c == CHOOSE x \in S : TRUE
  <2>1. c \in S /\ S \ {c} \in SUBSET D
    BY <1>4
  <2>2. g[S] = f[c] + g[S \ {c}]
    BY <1>1, <1>4 DEF SumsUp
  <2> HIDE DEF c
  <2> QED BY <1>2, <2>1, <2>2
<1> QED BY <1>2, <1>3, <1>4

(* Any place may be taken out of a sum first.                              *)
LEMMA SumWithout ==
  ASSUME NEW D, IsFiniteSet(D), NEW f \in [D -> Int], NEW S \in SUBSET D, NEW x \in S
  PROVE  SumOver(f, S) = f[x] + SumOver(f, S \ {x})
<1> DEFINE T == {s \in SUBSET D : \A y \in s : SumOver(f, s) = f[y] + SumOver(f, s \ {y})}
<1>1. \A s \in SUBSET D : SumOver(f, s) \in Int
  BY SumChosen
<1>2. ASSUME NEW s \in SUBSET D, \A u \in SUBSET s : u # s => u \in T PROVE s \in T
  <2> SUFFICES ASSUME NEW y \in s PROVE SumOver(f, s) = f[y] + SumOver(f, s \ {y})
    OBVIOUS
  <2>1. PICK c \in s : SumOver(f, s) = f[c] + SumOver(f, s \ {c})
    BY SumChosen
  <2>2. CASE y = c
    BY <2>1, <2>2
  <2>3. CASE y # c
    <3>1. s \ {c} \in T /\ s \ {y} \in T /\ y \in s \ {c} /\ c \in s \ {y}
      BY <1>2, <2>3
    <3>2. /\ SumOver(f, s \ {c}) = f[y] + SumOver(f, (s \ {c}) \ {y})
          /\ SumOver(f, s \ {y}) = f[c] + SumOver(f, (s \ {y}) \ {c})
      BY <3>1
    <3>3. (s \ {c}) \ {y} = (s \ {y}) \ {c}
      OBVIOUS
    <3> DEFINE rest == SumOver(f, (s \ {y}) \ {c})
    <3>4. f[c] \in Int /\ f[y] \in Int /\ rest \in Int
      BY <1>1
    <3>5. SumOver(f, s \ {c}) = f[y] + rest /\ SumOver(f, s \ {y}) = f[c] + rest
      BY <3>2, <3>3
    <3> HIDE DEF rest
    <3> QED BY <2>1, <3>4, <3>5
  <2> QED BY <2>2, <2>3
<1>3. SUBSET D \subseteq T
  <2> HIDE DEF T
  <2> QED BY <1>2, SubsetInduction
<1> QED BY <1>3

(* A sum of natural numbers is one.                                        *)
LEMMA SumNatural ==
  ASSUME NEW D, IsFiniteSet(D), NEW f \in [D -> Nat], NEW S \in SUBSET D
  PROVE  SumOver(f, S) \in Nat
<1>0. f \in [D -> Int]
  OBVIOUS
<1> DEFINE T == {s \in SUBSET D : SumOver(f, s) \in Nat}
<1>1. ASSUME NEW s \in SUBSET D, \A u \in SUBSET s : u # s => u \in T PROVE s \in T
  <2>1. CASE s = {}
    BY <1>0, <2>1, SumChosen
  <2>2. CASE s # {}
    <3>1. PICK c \in s : SumOver(f, s) = f[c] + SumOver(f, s \ {c})
      BY <1>0, <2>2, SumChosen
    <3>2. s \ {c} \in T
      BY <1>1
    <3> QED BY <3>1, <3>2
  <2> QED BY <2>1, <2>2
<1>2. SUBSET D \subseteq T
  <2> HIDE DEF T
  <2> QED BY <1>1, SubsetInduction
<1> QED BY <1>2

(* The difference of two sums is the sum of the differences, and a sum     *)
(* grows with what is summed.                                              *)
LEMMA SumDifference ==
  ASSUME NEW D, IsFiniteSet(D), NEW f \in [D -> Int], NEW g \in [D -> Int], NEW d \in [D -> Int],
         \A x \in D : d[x] = f[x] - g[x], NEW S \in SUBSET D
  PROVE  SumOver(d, S) = SumOver(f, S) - SumOver(g, S)
<1> DEFINE T == {s \in SUBSET D : SumOver(d, s) = SumOver(f, s) - SumOver(g, s)}
<1>1. ASSUME NEW s \in SUBSET D, \A u \in SUBSET s : u # s => u \in T PROVE s \in T
  <2>1. CASE s = {}
    BY <2>1, SumChosen
  <2>2. CASE s # {}
    <3>1. PICK c \in s : TRUE
      BY <2>2
    <3>2. /\ SumOver(f, s) = f[c] + SumOver(f, s \ {c})
          /\ SumOver(g, s) = g[c] + SumOver(g, s \ {c})
          /\ SumOver(d, s) = d[c] + SumOver(d, s \ {c})
      BY SumWithout
    <3>3. s \ {c} \in T /\ d[c] = f[c] - g[c]
      BY <1>1
    <3>4. /\ f[c] \in Int /\ g[c] \in Int
          /\ SumOver(f, s \ {c}) \in Int /\ SumOver(g, s \ {c}) \in Int
      BY SumChosen
    <3> QED BY <3>2, <3>3, <3>4
  <2> QED BY <2>1, <2>2
<1>2. SUBSET D \subseteq T
  <2> HIDE DEF T
  <2> QED BY <1>1, SubsetInduction
<1> QED BY <1>2

LEMMA SumGrows ==
  ASSUME NEW D, IsFiniteSet(D), NEW f \in [D -> Int], NEW g \in [D -> Int],
         \A x \in D : f[x] <= g[x], NEW S \in SUBSET D
  PROVE  SumOver(f, S) <= SumOver(g, S)
<1> DEFINE d == [x \in D |-> g[x] - f[x]]
<1>1. d \in [D -> Nat] /\ d \in [D -> Int] /\ \A x \in D : d[x] = g[x] - f[x]
  OBVIOUS
<1> HIDE DEF d
<1>2. SumOver(d, S) = SumOver(g, S) - SumOver(f, S) /\ SumOver(d, S) \in Nat
  BY <1>1, SumDifference, SumNatural
<1>3. SumOver(f, S) \in Int /\ SumOver(g, S) \in Int
  BY SumChosen
<1> QED BY <1>2, <1>3

(* What each partition would add to the lag, as it stands.                 *)
Gap == [p \in Partitions |-> produced[p] - offsets[p]]

LagTypes ==
  /\ produced \in [Partitions -> 0 .. MaxOffset]
  /\ committed \in [Partitions -> 0 .. MaxOffset]
  /\ offsets \in [Partitions -> -1 .. MaxOffset]
  /\ \A p \in Partitions : offsets[p] <= committed[p] /\ committed[p] <= produced[p]
  /\ lagPoll \in {"idle", "reading"}
  /\ toRead \in SUBSET Partitions
  /\ total \in Nat /\ before \in Nat
  /\ missed \in BOOLEAN /\ alerting \in BOOLEAN
  /\ kept \in [Numbers -> 0 .. MaxOffset + 1]
  /\ lagReport \in [total : Nat, before : Nat, allRead : BOOLEAN, high : BOOLEAN]

(* What was read, and what the ends still to be read would add as they     *)
(* stand, is not below the lag of the partitions answered for.             *)
EnoughLeft ==
  lagPoll = "reading" /\ ~missed => before <= total + SumOver(Gap, toRead)

LagInv == LagTypes /\ EnoughLeft /\ LagNotUnderstated

LEMMA NumbersFinite == IsFiniteSet(Partitions) /\ IsFiniteSet(Numbers)
<1> DEFINE f == [p \in Partitions |-> Number(p)]
<1>1. f \in Surjection(Partitions, Numbers)
  <2>1. f \in [Partitions -> Numbers] /\ \A n \in Numbers : \E p \in Partitions : f[p] = n
    BY DEF Numbers
  <2> HIDE DEF f
  <2> QED BY <2>1 DEF Surjection
<1> HIDE DEF f
<1> QED BY <1>1, LagAssumption, FS_Surjection

LEMMA GapFacts ==
  ASSUME LagTypes, NEW S \in SUBSET Partitions
  PROVE  Gap \in [Partitions -> 0 .. MaxOffset + 1] /\ SumOver(Gap, S) \in Nat
<1>1. Gap \in [Partitions -> 0 .. MaxOffset + 1]
  BY LagAssumption DEF Gap, LagTypes
<1>2. Gap \in [Partitions -> Nat]
  BY <1>1
<1> QED BY <1>1, <1>2, NumbersFinite, SumNatural

LEMMA LagInitInv == LagInit => LagInv
<1> SUFFICES ASSUME LagInit PROVE LagInv
  OBVIOUS
<1>1. 0 \in 0 .. MaxOffset /\ 0 \in -1 .. MaxOffset /\ 0 \in 0 .. MaxOffset + 1 /\ NoReport.allRead = FALSE
  BY LagAssumption DEF NoReport
<1>2. LagTypes
  <2>1. lagReport \in [total : Nat, before : Nat, allRead : BOOLEAN, high : BOOLEAN]
    BY DEF LagInit, NoReport
  <2>2. /\ produced \in [Partitions -> 0 .. MaxOffset]
        /\ committed \in [Partitions -> 0 .. MaxOffset]
        /\ offsets \in [Partitions -> -1 .. MaxOffset]
        /\ kept \in [Numbers -> 0 .. MaxOffset + 1]
        /\ \A p \in Partitions : offsets[p] <= committed[p] /\ committed[p] <= produced[p]
    BY <1>1 DEF LagInit
  <2> QED BY <2>1, <2>2, Zenon DEF LagInit, LagTypes
<1> QED BY <1>1, <1>2 DEF LagInit, LagInv, EnoughLeft, LagNotUnderstated

LEMMA GroupStepsKeepInv ==
  ASSUME LagInv, NEW p \in Partitions, Produce(p) \/ Commit(p)
  PROVE  LagInv'
<1>1. /\ LagTypes /\ EnoughLeft /\ LagNotUnderstated /\ MaxOffset \in Nat
      /\ UNCHANGED <<pollVars, kept, alerting, lagReport>>
  BY LagAssumption DEF LagInv, Produce, Commit
<1>2. LagTypes' /\ \A q \in Partitions : produced[q] <= produced'[q]
  <2>1. CASE Produce(p)
    BY <1>1, <2>1 DEF LagTypes, Produce, pollVars
  <2>2. CASE Commit(p)
    BY <1>1, <2>2 DEF LagTypes, Commit, pollVars
  <2> QED BY <2>1, <2>2
<1>3. SumOver(Gap, toRead) <= SumOver(Gap', toRead)
  <2>1. Gap \in [Partitions -> Int] /\ Gap' \in [Partitions -> Int]
    BY <1>1, <1>2 DEF Gap, LagTypes
  <2>2. \A q \in Partitions : Gap[q] <= Gap'[q]
    BY <1>1, <1>2 DEF Gap, LagTypes, pollVars
  <2> HIDE DEF Gap
  <2> QED BY <1>1, <2>1, <2>2, NumbersFinite, SumGrows DEF LagTypes
<1>4. EnoughLeft'
  <2>1. /\ toRead \in SUBSET Partitions /\ total \in Nat /\ before \in Nat
        /\ UNCHANGED <<lagPoll, missed, before, total, toRead>>
    BY <1>1 DEF LagTypes, pollVars
  <2>2. SumOver(Gap, toRead) \in Nat /\ SumOver(Gap, toRead)' \in Nat
    <3>1. Gap' \in [Partitions -> Nat]
      BY <1>2, LagAssumption DEF Gap, LagTypes
    <3>2. SumOver(Gap', toRead) \in Nat
      BY <2>1, <3>1, NumbersFinite, SumNatural
    <3> QED BY <1>1, <2>1, <3>2, GapFacts
  <2> QED BY <1>1, <1>3, <2>1, <2>2 DEF EnoughLeft
<1> QED BY <1>1, <1>2, <1>4 DEF LagInv, LagNotUnderstated

(* A partition that was answered with an error, or not at all, is not      *)
(* given more than was committed.                                          *)
LEMMA FetchKeepsLagInv == ASSUME LagInv, FetchOffsets PROVE LagInv'
<1>1. /\ LagTypes /\ LagNotUnderstated /\ lagPoll' = "reading"
      /\ total' = 0 /\ missed' = FALSE
      /\ UNCHANGED <<produced, committed, kept, alerting, lagReport>>
  BY DEF LagInv, FetchOffsets, groupVars
<1>2. PICK answered \in SUBSET Partitions : \E failed \in SUBSET answered :
        /\ offsets' = [p \in Partitions |->
                         IF p \in failed THEN -1 ELSE IF p \in answered THEN committed[p] ELSE 0]
        /\ toRead' = answered
        /\ before' = SumOver(Lag, answered)
  BY DEF FetchOffsets
<1>3. /\ offsets' \in [Partitions -> -1 .. MaxOffset]
      /\ \A p \in Partitions : offsets'[p] <= committed[p] /\ committed[p] <= produced[p]
  BY <1>1, <1>2, LagAssumption DEF LagTypes
<1>4. /\ Gap' \in [Partitions -> Int]
      /\ Lag \in [Partitions -> Nat] /\ Lag \in [Partitions -> Int]
      /\ \A p \in Partitions : Lag[p] <= Gap'[p]
  BY <1>1, <1>3, LagAssumption DEF LagTypes, Gap, Lag
<1>5. before' <= SumOver(Gap', answered) /\ before' \in Nat /\ SumOver(Gap', answered) \in Int
  <2> DEFINE g == Gap'
  <2>1. g \in [Partitions -> Int] /\ \A p \in Partitions : Lag[p] <= g[p]
    BY <1>4
  <2> HIDE DEF g
  <2>2. SumOver(Lag, answered) <= SumOver(g, answered) /\ SumOver(g, answered) \in Int
    BY <1>4, <2>1, NumbersFinite, SumGrows, SumChosen
  <2>3. SumOver(Lag, answered) \in Nat
    BY <1>4, NumbersFinite, SumNatural
  <2> QED BY <1>2, <2>2, <2>3 DEF g
<1>6. LagTypes'
  <2>1. before' \in Nat /\ toRead' \in SUBSET Partitions /\ total' \in Nat
    BY <1>1, <1>2, <1>5
  <2>2. \A p \in Partitions : offsets'[p] <= committed'[p] /\ committed'[p] <= produced'[p]
    BY <1>1, <1>3
  <2> QED BY <1>1, <1>3, <2>1, <2>2, Zenon DEF LagTypes
<1>7. EnoughLeft'
  BY <1>1, <1>2, <1>5 DEF EnoughLeft
<1> QED BY <1>1, <1>6, <1>7 DEF LagInv, LagNotUnderstated

LEMMA FetchFailsKeepsInv == ASSUME LagInv, FetchFails PROVE LagInv'
<1>1. /\ LagTypes /\ EnoughLeft /\ lagReport' = Report(GroupLag, FALSE)
      /\ UNCHANGED <<groupVars, pollVars, kept, alerting>>
  BY DEF LagInv, FetchFails
<1>2. GroupLag \in Nat
  <2>1. kept \in [Numbers -> Nat]
    BY <1>1 DEF LagTypes
  <2> QED BY <2>1, NumbersFinite, SumNatural DEF GroupLag
<1>3. /\ lagReport' \in [total : Nat, before : Nat, allRead : BOOLEAN, high : BOOLEAN]
      /\ lagReport'.allRead = FALSE
  BY <1>1, <1>2 DEF Report, LagTypes
<1>4. LagTypes'
  BY <1>1, <1>3 DEF LagTypes, groupVars, pollVars
<1>5. EnoughLeft'
  BY <1>1 DEF EnoughLeft, Gap, groupVars, pollVars
<1> QED BY <1>3, <1>4, <1>5 DEF LagInv, LagNotUnderstated

LEMMA ReadsEndKeepsInv == ASSUME LagInv, NEW p \in Partitions, ReadsEnd(p) PROVE LagInv'
<1> DEFINE lag == produced[p] - offsets[p]
<1>1. /\ LagTypes /\ EnoughLeft /\ LagNotUnderstated /\ lagPoll = "reading" /\ p \in toRead
      /\ toRead' = toRead \ {p} /\ total' = total + lag
      /\ UNCHANGED <<produced, committed, lagPoll, offsets, missed, before, lagReport>>
      /\ IF lag > 0 THEN UpdateLag(Number(p), lag) ELSE UNCHANGED <<kept, alerting>>
  BY DEF LagInv, ReadsEnd, groupVars
<1>2. lag \in 0 .. MaxOffset + 1 /\ Number(p) \in Numbers
  BY <1>1, LagAssumption DEF LagTypes, Numbers
<1> HIDE DEF lag
<1>3. kept' \in [Numbers -> 0 .. MaxOffset + 1] /\ alerting' \in BOOLEAN
  <2>1. CASE lag > 0
    <3>1. kept' = [kept EXCEPT ![Number(p)] = lag] /\ alerting' \in BOOLEAN
      BY <1>1, <2>1 DEF UpdateLag
    <3> QED BY <1>1, <1>2, <3>1 DEF LagTypes
  <2>2. CASE ~(lag > 0)
    BY <1>1, <2>2 DEF LagTypes
  <2> QED BY <2>1, <2>2
<1>4. LagTypes'
  <2>1. total' \in Nat /\ toRead' \in SUBSET Partitions
    BY <1>1, <1>2 DEF LagTypes
  <2> QED BY <1>1, <1>3, <2>1 DEF LagTypes
<1>5. EnoughLeft'
  <2>1. /\ toRead \in SUBSET Partitions /\ toRead' \in SUBSET Partitions
        /\ total \in Nat /\ before \in Nat
    BY <1>1 DEF LagTypes
  <2>2. Gap' = Gap /\ Gap[p] = lag /\ Gap \in [Partitions -> Int]
    <3>1. Gap \in [Partitions -> 0 .. MaxOffset + 1]
      BY <1>1, GapFacts
    <3>2. Gap' = Gap /\ Gap[p] = lag
      BY <1>1 DEF Gap, lag
    <3> QED BY <3>1, <3>2
  <2>3. SumOver(Gap, toRead) = lag + SumOver(Gap, toRead \ {p})
    BY <1>1, <2>1, <2>2, NumbersFinite, SumWithout
  <2>4. SumOver(Gap, toRead \ {p}) \in Nat
    BY <1>1, <2>1, GapFacts
  <2> QED BY <1>1, <1>2, <2>1, <2>2, <2>3, <2>4 DEF EnoughLeft
<1> QED BY <1>1, <1>4, <1>5 DEF LagInv, LagNotUnderstated

LEMMA ReportKeepsInv == ASSUME LagInv, ReportsLag PROVE LagInv'
<1>1. /\ LagTypes /\ EnoughLeft /\ lagPoll = "reading" /\ toRead = {}
      /\ lagPoll' = "idle" /\ lagReport' = Report(total, ~missed)
      /\ offsets' = [p \in Partitions |-> 0] /\ total' = 0 /\ missed' = FALSE /\ before' = 0
      /\ UNCHANGED <<produced, committed, toRead, kept, alerting>>
  BY DEF LagInv, ReportsLag, groupVars
<1>2. /\ lagReport' \in [total : Nat, before : Nat, allRead : BOOLEAN, high : BOOLEAN]
      /\ lagReport'.allRead = ~missed /\ lagReport'.total = total
      /\ lagReport'.before = before /\ lagReport'.high = (total > LagThreshold)
  BY <1>1, LagAssumption DEF Report, LagTypes
<1>3. LagTypes'
  <2>1. offsets' \in [Partitions -> -1 .. MaxOffset] /\ 0 \in Nat /\ FALSE \in BOOLEAN
    BY <1>1, LagAssumption
  <2>2. \A p \in Partitions : committed[p] \in Nat
    BY <1>1, LagAssumption DEF LagTypes
  <2>3. \A p \in Partitions : offsets'[p] <= committed'[p] /\ committed'[p] <= produced'[p]
    BY <1>1, <2>2 DEF LagTypes
  <2> QED BY <1>1, <1>2, <2>1, <2>3, Zenon DEF LagTypes
<1>4. LagNotUnderstated'
  <2>1. SumOver(Gap, {}) = 0
    <3>0. Gap \in [Partitions -> 0 .. MaxOffset + 1]
      BY <1>1, GapFacts
    <3>1. Gap \in [Partitions -> Int]
      BY <3>0
    <3> QED BY <3>1, NumbersFinite, SumChosen
  <2>2. ~missed => before <= total
    BY <1>1, <2>1 DEF EnoughLeft, LagTypes
  <2> QED BY <1>1, <1>2, <2>2, LagAssumption DEF LagNotUnderstated, LagTypes
<1> QED BY <1>1, <1>3, <1>4 DEF LagInv, EnoughLeft

LEMMA LagStepKeepsInv == LagInv /\ [LagNext]_lagVars => LagInv'
<1> SUFFICES ASSUME LagInv, [LagNext]_lagVars PROVE LagInv'
  OBVIOUS
<1>1. CASE UNCHANGED lagVars
  BY <1>1 DEF lagVars, groupVars, pollVars, LagInv, LagTypes, EnoughLeft, Gap, LagNotUnderstated
<1>2. ASSUME NEW p \in Partitions, SkipsPartition(p) PROVE LagInv'
  BY <1>2 DEF SkipsPartition, groupVars, LagInv, LagTypes, EnoughLeft, LagNotUnderstated
<1> QED BY <1>1, <1>2, GroupStepsKeepInv, FetchKeepsLagInv, FetchFailsKeepsInv, ReadsEndKeepsInv,
           ReportKeepsInv DEF LagNext

(* A poll that could read every partition in Kafka's answer never reports  *)
(* less than the lag these had when the offsets were fetched, and the      *)
(* alert follows the report (kafka/collector.go 139-206).                  *)
THEOREM LagHolds == LagSpec => [](LagNotUnderstated /\ LagTypeOK)
<1>1. LagInv => LagNotUnderstated /\ LagTypeOK
  BY DEF LagInv, LagTypes, LagTypeOK
<1> QED BY <1>1, LagInitInv, LagStepKeepsInv, PTL DEF LagSpec
=============================================================================
