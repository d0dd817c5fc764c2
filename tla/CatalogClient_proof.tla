-------------------------- MODULE CatalogClient_proof --------------------------
(***************************************************************************)
(* Theorems about CatalogClient, for every command, every catalog, and any *)
(* order and failure of the answers.                                       *)
(***************************************************************************)
EXTENDS CatalogClient, FiniteSetTheorems, WellFoundedInduction, SequenceTheorems, TLAPS

(* A non-empty set of natural numbers has a least element: the proofs by    *)
(* induction below take the least counterexample.                          *)
LEMMA LeastNat ==
    ASSUME NEW T, T \subseteq Nat, T # {}
    PROVE  \E n \in T : \A m \in T : n <= m
<1>1. IsWellFoundedOn(OpToRel(<, Nat), Nat)
    BY Zenon, NatLessThanWellFounded
<1>2. PICK n \in T : \A m \in T : ~(<<m, n>> \in OpToRel(<, Nat))
    BY Zenon, <1>1, WFMin
<1>3. \A m, k \in Nat : m < k => <<m, k>> \in OpToRel(<, Nat)
    BY Zenon DEF OpToRel
<1>4. \A m \in T : ~(m < n)
    BY Zenon, <1>2, <1>3
<1>5. n \in Nat
    OBVIOUS
<1> QED
    BY <1>4, <1>5

LEMMA MinFacts ==
    ASSUME NEW T, T \subseteq Nat, T # {}
    PROVE  Min(T) \in T /\ \A m \in T : Min(T) <= m
BY LeastNat DEF Min

(* And a bounded one has a greatest.                                        *)
LEMMA GreatestNat ==
    ASSUME NEW T, T \subseteq Nat, T # {}, NEW bound \in Nat, \A n \in T : n <= bound
    PROVE  \E n \in T : \A m \in T : m <= n
<1> DEFINE above == {b \in Nat : \A n \in T : n <= b}
<1>1. PICK n \in above : \A m \in above : n <= m
    BY LeastNat
<1>2. n \in Nat /\ \A m \in T : m <= n
    OBVIOUS
<1>3. CASE n \in T
    BY <1>2, <1>3
<1>4. CASE n \notin T
    <2>1. \A m \in T : m <= n - 1
        BY <1>2, <1>4
    <2>2. n - 1 \in Nat
        <3>1. PICK m \in T : TRUE
            OBVIOUS
        <3>2. m \in Nat /\ m <= n - 1
            BY <2>1
        <3> QED
            BY <1>2, <3>2
    <2> QED
        BY <1>1, <1>2, <2>1, <2>2
<1> QED
    BY <1>3, <1>4

-----------------------------------------------------------------------------
(* What was heard.                                                         *)

HeardInv == situation \in Situations /\ heard \in Seq(ToSet(heard))

(* An answer is appended to what was heard, and nothing else is.            *)
LEMMA HearFacts ==
    ASSUME HeardInv, NEW call, NEW answer, Hear(call, answer)
    PROVE  /\ HeardInv' /\ situation' = situation /\ result = None /\ call \in waiting
           /\ LastHeard' = [call |-> call, answer |-> answer]
           /\ Len(heard) \in Nat /\ Len(heard') = Len(heard) + 1
           /\ \A i \in 1..Len(heard) : heard'[i] = heard[i]
           /\ \A route : Heard(route)' = IF call.route = route THEN Heard(route) \cup {answer}
                                         ELSE Heard(route)
<1> DEFINE event == [call |-> call, answer |-> answer]
<1>1. heard' = Append(heard, event) /\ situation' = situation
    BY DEF Hear
<1> HIDE DEF event
<1>2. heard \in Seq(ToSet(heard)) /\ Len(heard) \in Nat /\ DOMAIN heard = 1..Len(heard)
    BY LenProperties DEF HeardInv
<1>3. /\ heard' \in Seq(ToSet(heard) \cup {event})
      /\ Len(heard') = Len(heard) + 1
      /\ heard'[Len(heard) + 1] = event
      /\ \A i \in 1..Len(heard) : heard'[i] = heard[i]
    BY <1>1, <1>2
<1>4. DOMAIN heard' = 1..Len(heard) + 1
    BY <1>2, <1>3, LenProperties
<1>5. heard' \in Seq(ToSet(heard'))
    <2>1. \A i \in 1..Len(heard') : heard'[i] \in ToSet(heard')
        BY <1>3, <1>4 DEF ToSet
    <2>2. heard' \in [1..Len(heard') -> ToSet(heard')]
        BY <1>3, <2>1, LenProperties
    <2> QED
        BY <1>2, <1>3, <2>2
<1>6. ASSUME NEW route
      PROVE  Heard(route)' = IF call.route = route THEN Heard(route) \cup {answer} ELSE Heard(route)
    <2>1. \A i : i \in 1..Len(heard') <=> i \in 1..Len(heard) \/ i = Len(heard) + 1
        BY <1>2, <1>3
    <2>2. event.call = call /\ event.answer = answer
        BY DEF event
    <2> QED
        BY <1>3, <2>1, <2>2 DEF Heard
<1>7. LastHeard' = event
    BY <1>3 DEF LastHeard
<1> QED
    BY <1>1, <1>2, <1>3, <1>5, <1>6, <1>7 DEF HeardInv, Hear, event

LEMMA AnswerParts ==
    \A status, says, body :
       /\ Answer(status, says, body).status = status
       /\ Answer(status, says, body).says = says
       /\ Answer(status, says, body).body = body
BY DEF Answer

(* A call is answered with its document, a failure, or a refusal.           *)
LEMMA AnswerFacts ==
    ASSUME NEW call, call.route \notin {"page", "metadata"}, NEW answer \in Answers(call)
    PROVE  \/ answer.body = None
           \/ answer.status = "200" /\ answer.body = situation.documents[call.route]
<1> DEFINE nothing == ""
           documents == IF Understood(call) /\ Document(call) # None
                        THEN {Answer("200", nothing, Document(call))} ELSE {}
           refusals == IF call.route \in {"load table", "delegated"} THEN {NotIceberg} ELSE {}
           untrusted == IF call.route = "mint" THEN {Serverless} ELSE {}
<1>0. Answers(call) = Failures \cup documents \cup refusals \cup untrusted
    BY Zenon DEF Answers
<1>2. Document(call) = situation.documents[call.route]
    BY Zenon DEF Document
<1>3. answer \in documents => answer = Answer("200", nothing, Document(call))
    BY Zenon
<1>4. answer \in refusals => answer = NotIceberg
    BY Zenon
<1>5. answer \in untrusted => answer = Serverless
    BY Zenon
<1>6. answer \in Failures => \E status : answer = Answer(status, nothing, None)
    BY Zenon DEF Failures
<1> HIDE DEF nothing, documents, refusals, untrusted
<1>7. answer \in Failures \/ answer \in documents \/ answer \in refusals \/ answer \in untrusted
    BY Zenon, <1>0
<1>8. answer \in Failures => answer.body = None
    BY <1>6, AnswerParts
<1>9. NotIceberg.body = None /\ Serverless.body = None
    BY Zenon DEF NotIceberg, Serverless, Answer
<1>10. answer \in documents => answer.status = "200" /\ answer.body = situation.documents[call.route]
    BY <1>2, <1>3, AnswerParts
<1> QED
    BY Zenon, <1>4, <1>5, <1>7, <1>8, <1>9, <1>10

-----------------------------------------------------------------------------
(* The config a credential is chosen for.                                  *)

(* loadCredentials: the first credential with keys, or none has.            *)
LEMMA CredentialOptionsFacts ==
    ASSUME NEW credentials \in Seq(StorageCredential)
    PROVE  LET lease == CredentialOptions(credentials) IN
           IF lease # None
           THEN /\ Usable(lease)
                /\ \E i \in 1..Len(credentials) :
                     /\ lease = credentials[i].config
                     /\ \A j \in 1..i - 1 : ~Usable(credentials[j].config)
           ELSE \A c \in ToSet(credentials) : ~Usable(c.config)
<1> DEFINE usable == {i \in 1..Len(credentials) : AwsOptions(credentials[i].config) # None}
<1>1. Len(credentials) \in Nat /\ DOMAIN credentials = 1..Len(credentials)
    BY LenProperties
<1>2. \A i \in 1..Len(credentials) : credentials[i].config # None
    <2>1. \A i \in 1..Len(credentials) : credentials[i] \in StorageCredential
        BY <1>1, ElementOfSeq
    <2> QED
        BY <2>1, NoneAssumption DEF StorageCredential
<1>3. \A i \in 1..Len(credentials) :
        AwsOptions(credentials[i].config) = IF Usable(credentials[i].config) THEN credentials[i].config ELSE None
    BY DEF AwsOptions
<1>4. \A i : i \in usable <=> i \in 1..Len(credentials) /\ Usable(credentials[i].config)
    BY <1>2, <1>3
<1>5. CASE usable = {}
    <2>1. CredentialOptions(credentials) = None
        BY <1>5 DEF CredentialOptions
    <2>2. \A c \in ToSet(credentials) : ~Usable(c.config)
        BY <1>1, <1>4, <1>5 DEF ToSet
    <2> QED
        BY <2>1, <2>2
<1>6. CASE usable # {}
    <2>1. usable \subseteq Nat
        BY <1>1
    <2>2. CredentialOptions(credentials) = AwsOptions(credentials[Min(usable)].config)
        BY <1>6 DEF CredentialOptions
    <2> HIDE DEF usable
    <2>3. Min(usable) \in usable /\ \A i \in usable : Min(usable) <= i
        BY <1>6, <2>1, MinFacts
    <2> DEFINE i == Min(usable)
    <2>4. i \in 1..Len(credentials) /\ Usable(credentials[i].config) /\ credentials[i].config # None
        BY <1>2, <1>4, <2>3
    <2>5. CredentialOptions(credentials) = credentials[i].config
        BY <1>3, <2>2, <2>4
    <2>6. ASSUME NEW j \in 1..i - 1
          PROVE  ~Usable(credentials[j].config)
        <3>1. j \in 1..Len(credentials) /\ ~(i <= j)
            BY <1>1, <2>4
        <3> QED
            BY <1>4, <2>3, <3>1
    <2> HIDE DEF i
    <2> QED
        BY <2>4, <2>5, <2>6
<1> QED
    BY <1>5, <1>6

(* A delegated load: of the longest prefixes of the location, the last.     *)
LEMMA MatchingConfigFacts ==
    ASSUME NEW document, document.credentials \in Seq(StorageCredential),
           document.location \in Seq(STRING)
    PROVE  LET config == Else(MatchingConfig(document.credentials, document.location),
                              document.config)
           IN  /\ Fits(config, document)
               /\ \/ config = document.config
                  \/ config \in {c.config : c \in ToSet(document.credentials)}
<1> DEFINE credentials == document.credentials
           location == document.location
           size(i) == Len(credentials[i].prefix)
           covering == {i \in 1..Len(credentials) : Covers(credentials[i], location)}
           Longer(i, j) == \/ size(i) < size(j)
                           \/ size(i) = size(j) /\ i <= j
           best == CHOOSE j \in covering : \A i \in covering : Longer(i, j)
<1>1. /\ Len(credentials) \in Nat /\ DOMAIN credentials = 1..Len(credentials)
      /\ Len(location) \in Nat
    BY LenProperties
<1>2. \A i \in 1..Len(credentials) : credentials[i] \in StorageCredential
    BY <1>1, ElementOfSeq
<1>3. \A i \in 1..Len(credentials) :
        credentials[i].config # None /\ credentials[i].prefix \in Seq(STRING)
    BY <1>2, NoneAssumption DEF StorageCredential
<1>4. \A i \in 1..Len(credentials) : size(i) \in Nat
    BY <1>3, LenProperties
<1>5. \A i \in covering : size(i) <= Len(location)
    BY DEF Covers, IsPrefix
<1>6. MatchingConfig(credentials, location) =
        IF covering = {} THEN None ELSE credentials[best].config
    BY Zenon DEF MatchingConfig
<1>7. {c \in ToSet(credentials) : Covers(c, location)} = {credentials[i] : i \in covering}
    BY <1>1 DEF ToSet
<1>8. CASE covering = {}
    <2>1. Else(MatchingConfig(credentials, location), document.config) = document.config
        BY <1>6, <1>8 DEF Else
    <2>2. {c \in ToSet(credentials) : Covers(c, location)} = {}
        BY <1>7, <1>8
    <2> QED
        BY <2>1, <2>2 DEF Fits
<1>9. CASE covering # {}
    <2> DEFINE sizes == {size(i) : i \in covering}
    <2>1. covering \subseteq Nat /\ covering \subseteq 1..Len(credentials)
        BY <1>1
    <2>2. sizes \subseteq Nat /\ sizes # {}
        BY <1>4, <1>9
    <2>3. \A n \in sizes : n <= Len(location)
        BY <1>5
    <2> HIDE DEF sizes, covering, size
    <2>4. PICK n \in sizes : \A m \in sizes : m <= n
        BY <1>1, <2>2, <2>3, GreatestNat
    <2> DEFINE longest == {i \in covering : size(i) = n}
    <2>5. longest \subseteq Nat /\ longest # {}
        BY <2>1, <2>4 DEF sizes
    <2>6. \A i \in longest : i <= Len(credentials)
        <3>1. longest \subseteq 1..Len(credentials)
            BY <2>1
        <3> HIDE DEF longest
        <3> QED
            BY <1>1, <3>1
    <2> HIDE DEF longest
    <2>7. PICK j \in longest : \A i \in longest : i <= j
        BY <1>1, <2>5, <2>6, GreatestNat
    <2>8. j \in covering /\ size(j) = n
        BY <2>7 DEF longest
    <2>9. \A i \in covering : size(i) <= n /\ size(i) \in Nat
        BY <1>4, <2>1, <2>4 DEF sizes
    <2>10. ASSUME NEW i \in covering
           PROVE  Longer(i, j)
        <3>1. size(i) <= n /\ size(i) \in Nat /\ n \in Nat
            BY <2>2, <2>9
        <3>2. size(i) = n => i <= j
            <4>1. size(i) = n => i \in longest
                BY DEF longest
            <4> QED
                BY Zenon, <2>7, <4>1
        <3> QED
            BY <2>8, <3>1, <3>2
    <2> HIDE DEF Longer
    <2>11. best \in covering /\ \A i \in covering : Longer(i, best)
        BY Zenon, <2>8, <2>10
    <2> HIDE DEF best
    <2>12. \A i \in covering : size(i) <= size(best)
        BY <2>9, <2>11 DEF Longer
    <2>13. best \in 1..Len(credentials) /\ credentials[best].config # None
        BY <1>3, <2>1, <2>11
    <2>14. Else(MatchingConfig(credentials, location), document.config) = credentials[best].config
        BY <1>6, <1>9, <2>13 DEF Else
    <2>15. credentials[best] \in ToSet(credentials) /\ Covers(credentials[best], location)
        BY <1>1, <2>11, <2>13 DEF ToSet, covering
    <2>16. ASSUME NEW d \in ToSet(credentials), Covers(d, location)
           PROVE  Len(d.prefix) <= Len(credentials[best].prefix)
        <3>1. PICK i \in covering : d = credentials[i]
            BY Zenon, <1>7, <2>16
        <3> QED
            BY <2>12, <3>1 DEF size
    <2> QED
        BY <2>14, <2>15, <2>16 DEF Fits
<1> QED
    BY <1>8, <1>9

-----------------------------------------------------------------------------
(* get credentials: one call at a time.                                    *)

Leasing == situation.op = "get credentials"

LeaseRoutes == {"credentials", "delegated", "record", "mint"}

(* The routes are tried one after another, the mint last: while another is  *)
(* asked there is no record yet, and no document of default storage once   *)
(* the mint is asked; and what ends the command is the last answer.        *)
OneRoute == \E route \in LeaseRoutes : waiting \subseteq {Call(route)}
MintLast == /\ waiting # {} /\ Call("mint") \notin waiting => Heard("record") = {} /\ Heard("mint") = {}
            /\ Call("mint") \in waiting => Heard("mint") = {}
NoDefault == \A document \in Bodies("record") :
               DefaultStorage(document) => Heard("mint") = {} /\ Call("mint") \notin waiting
Told == Ok => IF result.value # None
              THEN Leased(result.value, LastHeard.call, LastHeard.answer.body)
              ELSE NoLease(LastHeard.call, LastHeard.answer)

LeaseInv == Leasing => OneRoute /\ MintLast /\ NoDefault /\ Told

LEMMA CallParts == \A route : Call(route).route = route
BY DEF Call

(* What such a command does: it starts with one of two calls, and goes on   *)
(* with three of the steps.                                                *)
LEMMA LeasingCalls ==
    ASSUME Leasing
    PROVE  FirstCalls = {Call("record")} \/ FirstCalls = {Call("credentials")}
BY Zenon DEF Leasing, FirstCalls, Listing

LEMMA LeasingSteps ==
    ASSUME Leasing, NEW call, call.route \in LeaseRoutes, NEW answer
    PROVE  /\ ~ListPage(call, answer) /\ ~GetOne(call, answer) /\ ~TableRecordRead(call, answer)
           /\ ~MetadataRead(call, answer) /\ ~LoadTable(call, answer) /\ ~CheckRecord(call, answer)
<1>1. call.route \notin {"page", "one", "metadata", "load table"}
    BY Zenon DEF LeaseRoutes
<1>2. ~ListPage(call, answer) /\ ~GetOne(call, answer) /\ ~MetadataRead(call, answer)
    BY Zenon, <1>1 DEF ListPage, GetOne, MetadataRead
<1>3. ~LoadTable(call, answer)
    BY Zenon, <1>1 DEF LoadTable
<1>4. ~TableRecordRead(call, answer) /\ ~CheckRecord(call, answer)
    BY Zenon DEF TableRecordRead, CheckRecord, Leasing
<1> QED
    BY <1>2, <1>3, <1>4

LEMMA FailFacts ==
    ASSUME NEW reason, Fail(reason), reason # None
    PROVE  waiting' = {} /\ ~Ok'
BY DEF Fail, Finish, Ok

LEMMA ReturnFacts ==
    ASSUME NEW value, Return(value)
    PROVE  waiting' = {} /\ result'.value = value
BY DEF Return, Finish

LEMMA NoBodies == ASSUME NEW route, Heard(route) = {} PROVE Bodies(route) = {}
BY DEF Bodies

(* What is vended is a lease of the answer, or the answer says there is none.*)
LEMMA VendedFacts ==
    ASSUME situation \in Situations, Leasing,
           NEW call, call.route \in {"mint", "credentials", "delegated"},
           NEW answer \in Answers(call), answer.status = "200", answer.body # None
    PROVE  LET lease == Vended(call, answer.body) IN
           IF lease # None THEN Leased(lease, call, answer.body) ELSE NoLease(call, answer)
<1>1. answer.body = situation.documents[call.route]
    BY Zenon, AnswerFacts
<1>2. /\ situation.documents.mint.aws # None => Usable(situation.documents.mint.aws)
      /\ situation.documents.credentials \in Seq(StorageCredential)
      /\ situation.documents.delegated.credentials \in Seq(StorageCredential)
      /\ situation.documents.delegated.location \in Seq(STRING)
      /\ situation.documents.delegated.config \in Config
    BY Zenon, SituationsAssumption DEF Leasing
<1>3. CASE call.route = "mint"
    <2>1. answer.body = situation.documents.mint
        BY Zenon, <1>1, <1>3
    <2>2. Vended(call, answer.body) = answer.body.aws
        BY Zenon, <1>3 DEF Vended
    <2>3. CASE answer.body.aws # None
        BY Zenon, <1>2, <1>3, <2>1, <2>2, <2>3 DEF Leased
    <2>4. CASE answer.body.aws = None
        BY Zenon, <1>3, <2>2, <2>4 DEF NoLease
    <2> QED
        BY <2>3, <2>4
<1>4. CASE call.route = "credentials"
    <2>1. answer.body = situation.documents.credentials
        BY Zenon, <1>1, <1>4
    <2> DEFINE lease == CredentialOptions(answer.body)
    <2>2. Vended(call, answer.body) = lease
        BY Zenon, <1>4 DEF Vended
    <2>3. IF lease # None
          THEN /\ Usable(lease)
               /\ \E i \in 1..Len(answer.body) :
                    /\ lease = answer.body[i].config
                    /\ \A j \in 1..i - 1 : ~Usable(answer.body[j].config)
          ELSE \A c \in ToSet(answer.body) : ~Usable(c.config)
        BY <1>2, <2>1, CredentialOptionsFacts
    <2> HIDE DEF lease
    <2>4. CASE lease # None
        BY Zenon, <1>4, <2>2, <2>3, <2>4 DEF Leased
    <2>5. CASE lease = None
        BY Zenon, <1>4, <2>2, <2>3, <2>5 DEF NoLease
    <2> QED
        BY Zenon, <2>4, <2>5
<1>5. CASE call.route = "delegated"
    <2>1. answer.body = situation.documents.delegated
        BY Zenon, <1>1, <1>5
    <2> DEFINE document == answer.body
               config == Else(MatchingConfig(document.credentials, document.location), document.config)
    <2>2. Vended(call, document) = AwsOptions(config)
        BY Zenon, <1>5 DEF Vended
    <2>3. /\ Fits(config, document)
          /\ config \in {document.config} \cup {c.config : c \in ToSet(document.credentials)}
        BY <1>2, <2>1, MatchingConfigFacts
    <2> HIDE DEF config
    <2>6. config # None
        <3>1. \A c \in ToSet(document.credentials) : c \in StorageCredential
            BY <1>2, <2>1, ElementOfSeq, LenProperties DEF ToSet
        <3> QED
            BY <1>2, <2>1, <2>3, <3>1, NoneAssumption DEF StorageCredential
    <2>4. CASE Usable(config)
        <3>1. AwsOptions(config) = config
            BY <2>4 DEF AwsOptions
        <3> QED
            BY Zenon, <1>5, <2>2, <2>3, <2>4, <2>6, <3>1 DEF Leased
    <2>5. CASE ~Usable(config)
        <3>1. AwsOptions(config) = None
            BY <2>5 DEF AwsOptions
        <3>2. NoLease(call, answer)
            BY Zenon, <1>5, <2>3, <2>5 DEF NoLease
        <3> QED
            BY Zenon, <2>2, <3>1, <3>2
    <2> QED
        BY <2>4, <2>5
<1> QED
    BY <1>3, <1>4, <1>5
LEMMA NoCall == ASSUME waiting' = {} PROVE OneRoute' /\ MintLast'
BY DEF OneRoute, MintLast, LeaseRoutes

LEMMA LeaseStart ==
    ASSUME HeardInv, Leasing, LeaseInv, Start
    PROVE  OneRoute' /\ MintLast' /\ NoDefault' /\ Told'
<1>1. /\ result = None /\ waiting = {} /\ heard = <<>> /\ heard' = heard /\ situation' = situation
      /\ \/ Fail("name")
         \/ waiting' = (waiting \ {None}) \cup FirstCalls /\ result' = result
    BY Zenon DEF Start, Then, Leasing
<1>2. \A route : Heard(route) = {} /\ Heard(route)' = {}
    BY <1>1 DEF Heard
<1>3. NoDefault' /\ MintLast'
    BY <1>2, NoBodies DEF NoDefault, MintLast, Bodies
<1>4. CASE Fail("name")
    <2>1. "name" # None
        BY NoneAssumption DEF Reasons
    <2>2. waiting' = {} /\ ~Ok'
        BY Zenon, <1>4, <2>1, FailFacts
    <2> QED
        BY <1>3, <2>2 DEF OneRoute, LeaseRoutes, Told
<1>5. CASE waiting' = (waiting \ {None}) \cup FirstCalls /\ result' = result
    <2>1. waiting' = {Call("record")} \/ waiting' = {Call("credentials")}
        BY <1>1, <1>5, LeasingCalls
    <2>2. OneRoute'
        BY <2>1 DEF OneRoute, LeaseRoutes
    <2>3. ~Ok'
        BY <1>1, <1>5 DEF Ok
    <2> QED
        BY <1>3, <2>2, <2>3 DEF Told
<1> QED
    BY <1>1, <1>4, <1>5

(* Before an answer, of a call in flight.                                   *)
LEMMA LeaseBefore ==
    ASSUME HeardInv, Leasing, LeaseInv, NEW call, NEW answer, Hear(call, answer)
    PROVE  /\ call.route \in LeaseRoutes /\ waiting = {call} /\ call = Call(call.route)
           /\ call.route # "mint" => Heard("record") = {} /\ Heard("mint") = {}
           /\ call.route = "mint" => Heard("mint") = {}
<1>1. call \in waiting
    BY DEF Hear
<1>2. PICK route \in LeaseRoutes : waiting \subseteq {Call(route)}
    BY DEF LeaseInv, OneRoute
<1>3. call = Call(route) /\ waiting = {call} /\ call.route = route
    BY <1>1, <1>2, CallParts
<1>4. call.route # "mint" => Call("mint") \notin waiting
    BY <1>3, CallParts
<1> QED
    BY <1>1, <1>2, <1>3, <1>4 DEF LeaseInv, MintLast

(* The command fails, and no record was read before.                        *)
LEMMA LeaseRefused ==
    ASSUME HeardInv, Leasing, LeaseInv, NEW call, NEW answer, Refused(call, answer)
    PROVE  OneRoute' /\ MintLast' /\ NoDefault' /\ Told'
<1>1. Hear(call, answer)
    BY Zenon DEF Refused
<1>2. call.route \in LeaseRoutes /\ (call.route # "mint" => Heard("record") = {} /\ Heard("mint") = {})
    BY <1>1, LeaseBefore
<1>3. call.route = "record" /\ JsonError(answer) # None /\ Fail(JsonError(answer))
    BY Zenon, <1>2 DEF Refused, LeaseRoutes
<1>4. waiting' = {} /\ ~Ok'
    BY Zenon, <1>3, FailFacts
<1>5. Heard("mint")' = {}
    BY <1>1, <1>2, <1>3, HearFacts
<1> QED
    BY <1>4, <1>5 DEF OneRoute, MintLast, NoDefault, Told, LeaseRoutes

LEMMA LeaseVendRecord ==
    ASSUME HeardInv, Leasing, LeaseInv, NEW call, NEW answer, VendRecord(call, answer)
    PROVE  OneRoute' /\ MintLast' /\ NoDefault' /\ Told'
<1>1. /\ Hear(call, answer) /\ call.route = "record" /\ JsonError(answer) = None
      /\ \/ ~Vendable(answer.body) /\ Return(None)
         \/ /\ Vendable(answer.body) /\ result' = result
            /\ waiting' = (waiting \ {call}) \cup {Call("mint")}
    BY Zenon DEF VendRecord, Then
<1>2. waiting = {call} /\ Heard("record") = {} /\ Heard("mint") = {}
    BY <1>1, LeaseBefore
<1>3. /\ Heard("mint")' = {} /\ Heard("record")' = {answer}
      /\ LastHeard' = [call |-> call, answer |-> answer]
    BY <1>1, <1>2, HearFacts
<1>4. answer.status = "200" /\ answer.body # None
    BY <1>1, NoneAssumption DEF JsonError, Reasons
<1>5. Bodies("record")' = {answer.body}
    BY <1>3, <1>4 DEF Bodies
<1>6. CASE ~Vendable(answer.body) /\ Return(None)
    <2>1. waiting' = {} /\ result'.value = None
        BY <1>6, ReturnFacts
    <2>2. NoLease(call, answer)
        BY Zenon, <1>1, <1>4, <1>6 DEF NoLease, Vendable, DefaultStorage, NonEmpty, Else
    <2>3. Told'
        BY Zenon, <1>3, <2>1, <2>2 DEF Told
    <2> QED
        BY <1>3, <2>1, <2>3 DEF OneRoute, MintLast, NoDefault, LeaseRoutes
<1>7. CASE /\ Vendable(answer.body) /\ result' = result
           /\ waiting' = (waiting \ {call}) \cup {Call("mint")}
    <2>1. waiting' = {Call("mint")}
        BY <1>2, <1>7
    <2>2. ~DefaultStorage(answer.body)
        BY Zenon, <1>7 DEF Vendable
    <2>3. ~Ok'
        BY <1>1, <1>7 DEF Ok, Hear
    <2>4. NoDefault'
        BY <1>5, <2>2 DEF NoDefault, DefaultStorage
    <2>5. OneRoute'
        BY <2>1 DEF OneRoute, LeaseRoutes
    <2> QED
        BY <1>3, <2>1, <2>3, <2>4, <2>5 DEF MintLast, Told
<1> QED
    BY <1>1, <1>6, <1>7

LEMMA LeaseVend ==
    ASSUME HeardInv, Leasing, LeaseInv, NEW call, NEW answer \in Answers(call), Vend(call, answer)
    PROVE  OneRoute' /\ MintLast' /\ NoDefault' /\ Told'
<1> DEFINE next == Call(IF call.route = "credentials" THEN "delegated" ELSE "record")
<1>1. /\ Hear(call, answer) /\ call.route \in {"mint", "credentials", "delegated"}
      /\ \/ VendError(call, answer) # None /\ Fail(VendError(call, answer))
         \/ NothingVended(call, answer) /\ Return(None)
         \/ /\ VendError(call, answer) = None /\ ~NothingVended(call, answer)
            /\ answer.status = "200" /\ Return(Vended(call, answer.body))
         \/ /\ VendError(call, answer) = None /\ ~NothingVended(call, answer)
            /\ answer.status # "200" /\ result' = result
            /\ waiting' = (waiting \ {call}) \cup {next}
    BY Zenon DEF Vend, Then
<1>2. /\ call.route \in LeaseRoutes /\ waiting = {call} /\ call = Call(call.route)
      /\ call.route # "mint" => Heard("record") = {} /\ Heard("mint") = {}
      /\ call.route = "mint" => Heard("mint") = {}
    BY Zenon, <1>1, LeaseBefore
<1>3. /\ call.route # "mint" => Heard("mint")' = {} /\ Heard("record")' = {}
      /\ Heard("record")' = Heard("record")
      /\ LastHeard' = [call |-> call, answer |-> answer]
    BY <1>1, <1>2, HearFacts
<1>4. Bodies("record")' = Bodies("record") /\ (Heard("record") = {} => Bodies("record") = {})
    BY <1>3, NoBodies DEF Bodies
<1>5. call.route = "mint" => \A document \in Bodies("record") : ~DefaultStorage(document)
    BY <1>2 DEF LeaseInv, NoDefault
<1>6. NoDefault'
    <2>1. CASE call.route = "mint"
        BY <1>4, <1>5, <2>1 DEF NoDefault, DefaultStorage
    <2>2. CASE call.route # "mint"
        BY <1>2, <1>4, <2>2 DEF NoDefault
    <2> QED
        BY <2>1, <2>2
<1>7. waiting' = {} => OneRoute' /\ MintLast'
    BY Zenon, NoCall
<1>8. CASE VendError(call, answer) # None /\ Fail(VendError(call, answer))
    <2>1. waiting' = {} /\ ~Ok'
        BY Zenon, <1>8, FailFacts
    <2> QED
        BY <1>6, <1>7, <2>1 DEF Told
<1>9. CASE NothingVended(call, answer) /\ Return(None)
    <2>1. waiting' = {} /\ result'.value = None
        BY <1>9, ReturnFacts
    <2>2. NoLease(call, answer)
        BY Zenon, <1>9 DEF NoLease, NothingVended
    <2>3. Told'
        BY Zenon, <1>3, <2>1, <2>2 DEF Told
    <2> QED
        BY <1>6, <1>7, <2>1, <2>3
<1>10. CASE /\ VendError(call, answer) = None /\ ~NothingVended(call, answer)
            /\ answer.status = "200" /\ Return(Vended(call, answer.body))
    <2>1. waiting' = {} /\ result'.value = Vended(call, answer.body)
        BY <1>10, ReturnFacts
    <2>2. answer.body # None
        BY <1>10, NoneAssumption DEF VendError, Reasons
    <2>3. IF Vended(call, answer.body) # None
          THEN Leased(Vended(call, answer.body), call, answer.body) ELSE NoLease(call, answer)
        BY <1>1, <1>10, <2>2, VendedFacts DEF HeardInv
    <2>4. Told'
        BY Zenon, <1>3, <2>1, <2>3 DEF Told
    <2> QED
        BY <1>6, <1>7, <2>1, <2>4
<1>11. CASE /\ VendError(call, answer) = None /\ ~NothingVended(call, answer)
            /\ answer.status # "200" /\ result' = result
            /\ waiting' = (waiting \ {call}) \cup {next}
    <2>1. waiting' = {next} /\ ~Ok'
        BY <1>1, <1>2, <1>11 DEF Ok, Hear
    <2>2. call.route # "mint"
        BY <1>11, NoneAssumption DEF VendError, Reasons
    <2>3. OneRoute' /\ Call("mint") \notin waiting'
        BY <2>1, CallParts DEF OneRoute, LeaseRoutes
    <2> QED
        BY <1>3, <1>6, <2>1, <2>2, <2>3 DEF MintLast, Told
<1> QED
    BY Zenon, <1>1, <1>8, <1>9, <1>10, <1>11

-----------------------------------------------------------------------------
(* What is heard, and the lease, after every step.                         *)

LEMMA Unchanged ==
    ASSUME HeardInv, LeaseInv, UNCHANGED vars
    PROVE  HeardInv' /\ LeaseInv'
<1>1. /\ situation' = situation /\ waiting' = waiting /\ heard' = heard /\ result' = result
    BY DEF vars
<1>2. HeardInv'
    BY <1>1 DEF HeardInv
<1>3. Leasing' = Leasing
    BY Zenon, <1>1 DEF Leasing
<1>4. OneRoute' = OneRoute
    BY Zenon, <1>1 DEF OneRoute
<1>5. MintLast' = MintLast
    BY Zenon, <1>1 DEF MintLast, Heard
<1>6. NoDefault' = NoDefault
    <2>1. Heard("mint")' = Heard("mint") /\ Bodies("record")' = Bodies("record")
        BY Zenon, <1>1 DEF Heard, Bodies
    <2>2. (Call("mint") \notin waiting)' = (Call("mint") \notin waiting)
        BY Zenon, <1>1
    <2> QED
        BY <2>1, <2>2 DEF NoDefault, DefaultStorage
<1>7. Told' = Told
    BY Zenon, <1>1 DEF Told, Ok, LastHeard
<1> QED
    BY <1>2, <1>3, <1>4, <1>5, <1>6, <1>7 DEF LeaseInv

(* Every step of a command but the first hears an answer.                   *)
LEMMA CallStep ==
    ASSUME NEW call \in waiting, NEW answer \in Answers(call),
           \/ Refused(call, answer) \/ ListPage(call, answer) \/ GetOne(call, answer)
           \/ TableRecordRead(call, answer) \/ MetadataRead(call, answer)
           \/ LoadTable(call, answer)
           \/ CheckRecord(call, answer) \/ VendRecord(call, answer) \/ Vend(call, answer)
    PROVE  Hear(call, answer)
BY Zenon DEF Refused, ListPage, GetOne, TableRecordRead, MetadataRead, LoadTable, CheckRecord,
             VendRecord, Vend

LEMMA LeaseNext ==
    ASSUME HeardInv, LeaseInv, [Next]_vars
    PROVE  HeardInv' /\ LeaseInv'
<1>1. CASE Start
    <2>1. situation' = situation /\ heard' = heard
        BY Zenon, <1>1 DEF Start
    <2>2. HeardInv' /\ Leasing' = Leasing
        BY <2>1 DEF HeardInv, Leasing
    <2> QED
        BY Zenon, <1>1, <2>2, LeaseStart DEF LeaseInv
<1>2. ASSUME NEW call \in waiting, NEW answer \in Answers(call),
             \/ Refused(call, answer) \/ ListPage(call, answer) \/ GetOne(call, answer)
             \/ TableRecordRead(call, answer) \/ MetadataRead(call, answer)
             \/ LoadTable(call, answer)
             \/ CheckRecord(call, answer) \/ VendRecord(call, answer) \/ Vend(call, answer)
      PROVE  HeardInv' /\ LeaseInv'
    <2>1. Hear(call, answer)
        BY Zenon, <1>2, CallStep
    <2>2. HeardInv' /\ situation' = situation
        BY Zenon, <2>1, HearFacts
    <2>3. Leasing' = Leasing
        BY Zenon, <2>2 DEF Leasing
    <2>4. CASE Leasing
        <3>1. call.route \in LeaseRoutes
            BY Zenon, <2>1, <2>4, LeaseBefore
        <3>2. Refused(call, answer) \/ VendRecord(call, answer) \/ Vend(call, answer)
            BY Zenon, <1>2, <2>4, <3>1, LeasingSteps
        <3>3. OneRoute' /\ MintLast' /\ NoDefault' /\ Told'
            BY Zenon, <2>4, <3>2, LeaseRefused, LeaseVendRecord, LeaseVend
        <3> QED
            BY Zenon, <2>2, <3>3 DEF LeaseInv
    <2> QED
        BY Zenon, <2>2, <2>3, <2>4 DEF LeaseInv
<1>3. CASE Done
    BY Zenon, <1>3, Unchanged DEF Done
<1>4. CASE UNCHANGED vars
    BY Zenon, <1>4, Unchanged
<1> QED
    BY Zenon, <1>1, <1>2, <1>3, <1>4 DEF Next

LEMMA LeaseInit ==
    ASSUME Init
    PROVE  HeardInv /\ LeaseInv
<1>1. situation \in Situations /\ waiting = {} /\ heard = <<>> /\ result = None
    BY Zenon DEF Init
<1>2. HeardInv
    BY <1>1 DEF HeardInv
<1>3. \A route : Heard(route) = {} /\ Bodies(route) = {}
    BY <1>1 DEF Heard, Bodies
<1>4. OneRoute /\ MintLast /\ NoDefault /\ Told
    BY <1>1, <1>3 DEF OneRoute, MintLast, NoDefault, Told, Ok, LeaseRoutes
<1> QED
    BY <1>2, <1>4 DEF LeaseInv

(* A lease is one the catalog vended for the table, and none was vended     *)
(* when a command ends without.                                            *)
THEOREM LeaseFitsHolds == Spec => []LeaseFits
<1>1. HeardInv /\ LeaseInv => LeaseFits
    BY Zenon DEF LeaseInv, Leasing, NoDefault, Told, DefaultStorage, LeaseFits
<1> QED
    BY <1>1, LeaseInit, LeaseNext, PTL DEF Spec

-----------------------------------------------------------------------------
(* get table: the catalog's record and a read at the hint overlap, and a    *)
(* read at the record's location may follow.                               *)

Reading == situation.op = "get table"

LoadTableCall == Call("load table")
RecordCall    == Call("record")

HeardAt(at) == \E i \in 1..Len(heard) : heard[i].call = ReadAt(at)
Bare(there) == [there EXCEPT !.files = <<>>, !.partitions = <<>>]
Loaded(at)  == Bare(situation.places[at].info)
Located     == NonEmpty(Else(record.location, "")) # None

(* Nothing is known while the inline metadata is asked for.                 *)
Early == heard = <<>> \/ LoadTableCall \in waiting
Blank == record = None /\ info = None /\ Heard("record") = {} /\ Heard("metadata") = {}
Fresh == Early => Blank
Alone == LoadTableCall \in waiting => waiting = {LoadTableCall}

(* The record is the catalog's document.                                    *)
Known == /\ record = None => Bodies("record") = {}
         /\ record # None => record = situation.documents.record /\ record \in Bodies("record")

(* What is read while the record is awaited was read at the hint.           *)
Awaited == RecordCall \in waiting =>
             /\ record = None
             /\ info # None => /\ Hinted /\ HeardAt(situation.hint)
                               /\ info = Loaded(situation.hint)
                               /\ situation.places[situation.hint].info # None

(* Metadata is read at the hint, or at the location the record names.       *)
Reads(call) == \/ Hinted /\ info = None /\ call = ReadAt(situation.hint)
               \/ record # None /\ Located /\ call = ReadAt(record.location)
Flight == \A call \in waiting : call \in {LoadTableCall, RecordCall} \/ Reads(call)

Returned == Ok =>
    IF Bodies("record") = {}
    THEN /\ \E document \in Bodies("load table") : Inlined(result.value, document)
         /\ Bodies("metadata") = {}
    ELSE \E document \in Bodies("record") :
           HeardAt(document.location) /\ There(result.value, document)

TableInv == Reading => Fresh /\ Alone /\ Known /\ Awaited /\ Flight /\ Returned

(* What a TableInfo has.                                                    *)
Fields == {"format", "uri", "name", "version", "partitionColumns", "columns",
           "deltaProperties", "icebergProperties", "files", "partitions"}

LEMMA TableInfoFields ==
    ASSUME NEW format, NEW uri, NEW version, NEW partitionColumns
    PROVE  LET loaded == TableInfo(format, uri, version, partitionColumns) IN
           /\ DOMAIN loaded = Fields /\ loaded = [f \in Fields |-> loaded[f]]
           /\ loaded.uri = uri /\ loaded.version = version
<1> DEFINE nothing == ""
<1>1. TableInfo(format, uri, version, partitionColumns) =
        [format |-> format, uri |-> uri, name |-> nothing, version |-> version,
         partitionColumns |-> partitionColumns, columns |-> <<>>,
         deltaProperties |-> <<>>, icebergProperties |-> <<>>,
         files |-> <<>>, partitions |-> <<>>]
    BY Zenon DEF TableInfo
<1> HIDE DEF nothing
<1> QED
    BY <1>1 DEF Fields

(* What a loader fills in, at the location it was given.                    *)
LEMMA LoadedFacts ==
    ASSUME situation \in Situations, Reading, NEW at \in DOMAIN situation.places,
           situation.places[at].info # None
    PROVE  LET there == situation.places[at].info IN
           /\ there = [f \in Fields |-> there[f]]
           /\ there.uri = at /\ NonEmpty(there.uri) = at
           /\ there.format = "delta" => there.icebergProperties = <<>>
           /\ there.columns \in Seq(TableColumn)
           /\ situation.documents.record.columns \in Seq(UnityColumn)
<1> DEFINE there == situation.places[at].info
           nothing == ""
<1>1. /\ there = [f \in DOMAIN TableInfo(nothing, nothing, 0, <<>>) |-> there[f]]
      /\ there.uri = at /\ at # nothing
      /\ there.format = "delta" => there.icebergProperties = <<>>
      /\ there.columns \in Seq(TableColumn)
      /\ situation.documents.record.columns \in Seq(UnityColumn)
    BY Zenon, SituationsAssumption DEF Reading
<1>2. NonEmpty(there.uri) = at
    BY Zenon, <1>1 DEF NonEmpty
<1> HIDE DEF nothing, there
<1>3. there = [f \in Fields |-> there[f]]
    BY <1>1, TableInfoFields
<1> QED
    BY <1>1, <1>2, <1>3 DEF there

(* The catalog's columns and properties are laid over what was loaded.      *)
LEMMA MergeFacts ==
    ASSUME NEW there, there = [f \in Fields |-> there[f]], NEW document,
           NEW loaded, loaded = Bare(there)
    PROVE  LET merged == MergeCatalog(loaded, document)
               properties == Else(document.properties, <<>>)
           IN  /\ merged.uri = there.uri /\ merged.version = there.version
               /\ merged.format = there.format
               /\ merged.columns = IF document.columns = <<>> THEN there.columns
                                   ELSE [i \in 1..Len(document.columns) |-> DeclaredColumn(document.columns[i])]
               /\ IF there.format = "delta"
                  THEN /\ merged.deltaProperties = Extend(there.deltaProperties, properties)
                       /\ merged.icebergProperties = there.icebergProperties
                  ELSE merged.icebergProperties = Extend(there.icebergProperties, properties)
<1> DEFINE columns == IF document.columns = <<>> THEN loaded.columns
                      ELSE [i \in 1..Len(document.columns) |-> DeclaredColumn(document.columns[i])]
           properties == Else(document.properties, <<>>)
<1>1. /\ DOMAIN loaded = Fields /\ loaded = [f \in Fields |-> loaded[f]]
      /\ loaded.uri = there.uri /\ loaded.version = there.version
      /\ loaded.format = there.format /\ loaded.columns = there.columns
      /\ loaded.deltaProperties = there.deltaProperties
      /\ loaded.icebergProperties = there.icebergProperties
    BY DEF Fields, Bare
<1>2. MergeCatalog(loaded, document) =
        IF loaded.format = "delta"
        THEN [loaded EXCEPT !.columns = columns, !.deltaProperties = Extend(@, properties)]
        ELSE [loaded EXCEPT !.columns = columns, !.icebergProperties = Extend(@, properties)]
    BY Zenon DEF MergeCatalog
<1> HIDE DEF properties
<1> DEFINE over == columns
<1>3. over = IF document.columns = <<>> THEN there.columns
             ELSE [i \in 1..Len(document.columns) |-> DeclaredColumn(document.columns[i])]
    BY <1>1
<1> HIDE DEF over
<1>4. MergeCatalog(loaded, document).columns = over
    BY <1>1, <1>2 DEF Fields, over
<1>5. /\ MergeCatalog(loaded, document).uri = there.uri
      /\ MergeCatalog(loaded, document).version = there.version
      /\ MergeCatalog(loaded, document).format = there.format
    BY <1>1, <1>2 DEF Fields
<1>6. IF there.format = "delta"
      THEN /\ MergeCatalog(loaded, document).deltaProperties = Extend(there.deltaProperties, properties)
           /\ MergeCatalog(loaded, document).icebergProperties = there.icebergProperties
      ELSE MergeCatalog(loaded, document).icebergProperties = Extend(there.icebergProperties, properties)
    <2>1. CASE there.format = "delta"
        <3>1. MergeCatalog(loaded, document) =
                [loaded EXCEPT !.columns = over,
                               !.deltaProperties = Extend(loaded.deltaProperties, properties)]
            BY <1>1, <1>2, <2>1 DEF Fields, over
        <3> QED
            BY <1>1, <2>1, <3>1 DEF Fields
    <2>2. CASE there.format # "delta"
        <3>1. MergeCatalog(loaded, document) =
                [loaded EXCEPT !.columns = over,
                               !.icebergProperties = Extend(loaded.icebergProperties, properties)]
            BY <1>1, <1>2, <2>2 DEF Fields, over
        <3> QED
            BY <1>1, <2>2, <3>1 DEF Fields
    <2> QED
        BY <2>1, <2>2
<1> QED
    BY <1>3, <1>4, <1>5, <1>6 DEF properties
(* A map that extends another is extended by one without keys, or extends   *)
(* a third: either way its keys keep their values.                         *)
LEMMA ExtendFacts ==
    ASSUME NEW base, NEW added, NEW k \in DOMAIN base \cup DOMAIN added
    PROVE  /\ k \in DOMAIN Extend(base, added)
           /\ Extend(base, added)[k] = IF k \in DOMAIN added THEN added[k] ELSE base[k]
BY DEF Extend

LEMMA ExtendedByNone ==
    ASSUME NEW map, NEW other, DOMAIN other = {}, NEW k \in DOMAIN map
    PROVE  Extend(map, other)[k] = map[k]
BY DEF Extend

LEMMA ExtendsAnother ==
    ASSUME NEW base, NEW added, NEW other, NEW k \in DOMAIN added
    PROVE  Extend(other, Extend(base, added))[k] = added[k]
<1> DEFINE extended == Extend(base, added)
<1>1. k \in DOMAIN extended /\ extended[k] = added[k]
    BY ExtendFacts
<1> HIDE DEF extended
<1>2. Extend(other, extended)[k] = extended[k]
    BY <1>1 DEF Extend
<1> QED
    BY <1>1, <1>2 DEF extended

LEMMA FcnLen ==
    ASSUME NEW n \in Nat, NEW f, DOMAIN f = 1..n, f = [i \in 1..n |-> f[i]]
    PROVE  Len(f) = n
<1> DEFINE S == {f[i] : i \in 1..n}
<1>1. f \in [1..n -> S]
    OBVIOUS
<1> HIDE DEF S
<1>2. f \in Seq(S)
    BY <1>1
<1>3. Len(f) \in Nat /\ 1..Len(f) = 1..n
    BY <1>2, LenProperties
<1> QED
    BY <1>3

(* The resource's columns are the record's, in their positions.             *)
LEMMA ResourceColumns ==
    ASSUME NEW merged, NEW name, NEW n \in Nat, DOMAIN merged.columns = 1..n,
           merged.columns = [i \in 1..n |-> merged.columns[i]],
           \A i \in 1..n : "column" \in DOMAIN merged.columns[i]
    PROVE  LET columns == Resource(merged, name).columns IN
           [i \in 1..Len(columns) |-> columns[i].column] = [i \in 1..n |-> merged.columns[i].column]
<1> DEFINE columns == [i \in 1..Len(merged.columns) |-> [merged.columns[i] EXCEPT !.position = i - 1]]
<1>1. Resource(merged, name).columns = columns
    BY Zenon DEF Resource
<1>2. Len(merged.columns) = n
    BY FcnLen
<1>3. DOMAIN columns = 1..n /\ columns = [i \in 1..n |-> columns[i]]
    BY <1>2
<1>4. \A i \in 1..n : columns[i] = [merged.columns[i] EXCEPT !.position = i - 1]
    BY <1>2
<1> HIDE DEF columns
<1>5. Len(columns) = n
    BY <1>3, FcnLen
<1>6. \A i \in 1..n : columns[i].column = merged.columns[i].column
    BY <1>4
<1> QED
    BY <1>1, <1>5, <1>6

(* The record of the table is the one of the place it was read from.        *)
LEMMA ThereFacts ==
    ASSUME situation \in Situations, Reading, NEW document,
           document = situation.documents.record,
           document.location \in DOMAIN situation.places,
           situation.places[document.location].info # None, NEW name
    PROVE  There(Resource(MergeCatalog(Loaded(document.location), document), name), document)
<1> DEFINE there == situation.places[document.location].info
           merged == MergeCatalog(Loaded(document.location), document)
           properties == Else(document.properties, <<>>)
           value == Resource(merged, name)
           columns == IF document.columns = <<>> THEN there.columns
                      ELSE [i \in 1..Len(document.columns) |-> DeclaredColumn(document.columns[i])]
<1>1. /\ there = [f \in Fields |-> there[f]]
      /\ NonEmpty(there.uri) = document.location /\ there.uri = document.location
      /\ there.format = "delta" => there.icebergProperties = <<>>
      /\ there.columns \in Seq(TableColumn)
      /\ document.columns \in Seq(UnityColumn)
    BY LoadedFacts
<1>2. /\ merged.uri = there.uri /\ merged.version = there.version
      /\ merged.format = there.format /\ merged.columns = columns
      /\ IF there.format = "delta"
         THEN /\ merged.deltaProperties = Extend(there.deltaProperties, properties)
              /\ merged.icebergProperties = there.icebergProperties
         ELSE merged.icebergProperties = Extend(there.icebergProperties, properties)
    <2>1. Loaded(document.location) = Bare(there)
        BY DEF Loaded
    <2> HIDE DEF there
    <2> DEFINE loaded == Loaded(document.location)
    <2> HIDE DEF loaded
    <2> QED
        BY <1>1, <2>1, MergeFacts DEF loaded
<1> HIDE DEF merged
<1>3. /\ value.uri = NonEmpty(merged.uri) /\ value.format = merged.format
      /\ value.version = merged.version
      /\ value.properties = Extend(merged.deltaProperties, merged.icebergProperties)
    BY Zenon DEF Resource
<1> HIDE DEF there, properties, value
<1>4. [i \in 1..Len(value.columns) |-> value.columns[i].column] =
        IF document.columns = <<>>
        THEN [i \in 1..Len(there.columns) |-> there.columns[i].column]
        ELSE [i \in 1..Len(document.columns) |-> document.columns[i].name]
    <2>1. CASE document.columns = <<>>
        <3>1. merged.columns = there.columns
            BY <1>2, <2>1
        <3> DEFINE n == Len(there.columns)
        <3>2. n \in Nat /\ DOMAIN there.columns = 1..n /\ there.columns = [i \in 1..n |-> there.columns[i]]
            BY <1>1, LenProperties
        <3>3. \A i \in 1..n : there.columns[i] \in TableColumn
            BY <1>1, ElementOfSeq
        <3> HIDE DEF n
        <3>4. \A i \in 1..n : "column" \in DOMAIN there.columns[i]
            BY <3>3 DEF TableColumn
        <3>5. [i \in 1..Len(value.columns) |-> value.columns[i].column] = [i \in 1..n |-> there.columns[i].column]
            BY <3>1, <3>2, <3>4, ResourceColumns DEF value
        <3> QED
            BY <2>1, <3>5 DEF n
    <2>2. CASE document.columns # <<>>
        <3> DEFINE n == Len(document.columns)
        <3>1. n \in Nat
            BY <1>1, LenProperties
        <3>2. merged.columns = [i \in 1..n |-> DeclaredColumn(document.columns[i])]
            BY <1>2, <2>2
        <3>3. \A i : DeclaredColumn(document.columns[i]).column = document.columns[i].name
            BY Zenon DEF DeclaredColumn
        <3>4. \A i : "column" \in DOMAIN DeclaredColumn(document.columns[i])
            BY Zenon DEF DeclaredColumn
        <3> HIDE DEF n
        <3>5. /\ DOMAIN merged.columns = 1..n /\ merged.columns = [i \in 1..n |-> merged.columns[i]]
              /\ \A i \in 1..n : merged.columns[i] = DeclaredColumn(document.columns[i])
            BY <3>2
        <3>6. \A i \in 1..n : "column" \in DOMAIN merged.columns[i]
            BY <3>4, <3>5
        <3>7. [i \in 1..Len(value.columns) |-> value.columns[i].column] = [i \in 1..n |-> merged.columns[i].column]
            BY <3>1, <3>5, <3>6, ResourceColumns DEF value
        <3>8. [i \in 1..n |-> merged.columns[i].column] = [i \in 1..n |-> document.columns[i].name]
            BY <3>3, <3>5
        <3> QED
            BY Zenon, <2>2, <3>7, <3>8 DEF n
    <2> QED
        BY <2>1, <2>2
<1>7. /\ value.uri = document.location /\ value.version = there.version
      /\ value.format = there.format
    BY Zenon, <1>1, <1>2, <1>3
<1>5. ASSUME there.format = "delta" PROVE There(value, document)
    <2>1. DOMAIN merged.icebergProperties = {}
        BY <1>1, <1>2, <1>5
    <2>2. value.properties = Extend(Extend(there.deltaProperties, properties), merged.icebergProperties)
        BY Zenon, <1>2, <1>3, <1>5
    <2>3. ASSUME NEW k \in DOMAIN there.deltaProperties \cup DOMAIN properties
          PROVE  value.properties[k] =
                   IF k \in DOMAIN properties THEN properties[k] ELSE there.deltaProperties[k]
        <3> DEFINE extended == Extend(there.deltaProperties, properties)
        <3>1. /\ k \in DOMAIN extended
              /\ extended[k] = IF k \in DOMAIN properties THEN properties[k] ELSE there.deltaProperties[k]
            BY ExtendFacts
        <3> HIDE DEF extended
        <3>2. Extend(extended, merged.icebergProperties)[k] = extended[k]
            BY <2>1, <3>1, ExtendedByNone
        <3> QED
            BY Zenon, <2>2, <3>1, <3>2 DEF extended
    <2>4. /\ \A k \in DOMAIN properties : value.properties[k] = properties[k]
          /\ \A k \in DOMAIN there.deltaProperties \ DOMAIN properties :
               value.properties[k] = there.deltaProperties[k]
        BY <2>3
    <2> QED
        BY ZenonT(30), <1>4, <1>7, <2>4 DEF There, there, properties
<1>6. ASSUME there.format # "delta" PROVE There(value, document)
    <2>1. value.properties = Extend(merged.deltaProperties, Extend(there.icebergProperties, properties))
        BY Zenon, <1>2, <1>3, <1>6
    <2>2. ASSUME NEW k \in DOMAIN properties
          PROVE  value.properties[k] = properties[k]
        <3>1. Extend(merged.deltaProperties, Extend(there.icebergProperties, properties))[k] = properties[k]
            BY ExtendsAnother
        <3> QED
            BY Zenon, <2>1, <3>1
    <2> QED
        BY ZenonT(30), <1>4, <1>6, <1>7, <2>2 DEF There, there, properties
<1> QED
    BY Zenon, <1>5, <1>6 DEF value, merged

(* The routes of its calls.                                                 *)
LEMMA Routes ==
    /\ \A at : ReadAt(at).route = "metadata" /\ ReadAt(at).at = at
    /\ \A at : ReadAt(at) # LoadTableCall /\ ReadAt(at) # RecordCall
    /\ RecordCall.route = "record" /\ RecordCall # LoadTableCall
    /\ LoadTableCall.route \notin {"page", "one", "record", "metadata", "mint", "credentials", "delegated"}
<1>1. LoadTableCall.route = "load table"
    BY Zenon, CallParts DEF LoadTableCall
<1>4. RecordCall.route = "record"
    BY Zenon, CallParts DEF RecordCall
<1>2. ASSUME NEW at
      PROVE  ReadAt(at).route = "metadata" /\ ReadAt(at).at = at
    BY DEF ReadAt
<1>3. LoadTableCall.route \notin {"page", "one", "record", "metadata", "mint", "credentials", "delegated"}
    BY Zenon, <1>1
<1> QED
    BY <1>2, <1>3, <1>4

(* The detection names a format or says why it cannot.                      *)
LEMMA DetectFacts ==
    ASSUME NEW place, place.is \in {"nothing", "metadata", "file", "directory"},
           Detect(place) \notin Formats
    PROVE  Detect(place) \in Reasons
<1>1. ASSUME place.local
      PROVE  Detect(place) \in Formats \cup {"missing", "unrecognized", "io"}
    <2>1. Detect(place) = LocalFormat(place)
        BY Zenon, <1>1 DEF Detect
    <2>2. CASE place.is = "directory"
        BY Zenon, <2>1, <2>2 DEF LocalFormat, Formats
    <2>3. CASE place.is # "directory"
        BY Zenon, <2>1, <2>3 DEF LocalFormat, Formats
    <2> QED
        BY <2>2, <2>3
<1>2. ASSUME ~place.local
      PROVE  Detect(place) \in Formats \cup {"unrecognized", "storage"}
    BY Zenon, <1>2 DEF Detect, RemoteFormat, Formats
<1> QED
    BY <1>1, <1>2 DEF Reasons

(* A read that succeeds has the record of the place.                        *)
LEMMA MetadataFacts ==
    ASSUME situation \in Situations, Reading, NEW at \in DOMAIN situation.places,
           NEW answer \in Answers(ReadAt(at)), answer.body.error = None
    PROVE  situation.places[at].info # None /\ answer.body.info = Loaded(at)
<1> DEFINE call == ReadAt(at)
           request == WithoutFiles(LoadRequest(at, None))
           place == situation.places[at]
           nothing == ""
<1>1. call.route = "metadata" /\ call.at = at
    BY Zenon, Routes
<1>2. Document(call) = Load(place, request)
    BY Zenon, <1>1 DEF Document
<1>3. \E body \in {Document(call), [error |-> "storage"]} : answer = Answer("200", nothing, body)
    BY Zenon, <1>1 DEF Answers
<1>4. place.is \in {"nothing", "metadata", "file", "directory"}
    BY Zenon, SituationsAssumption DEF Reading
<1>5. request.requireFiles = FALSE
    BY Zenon DEF WithoutFiles, LoadRequest
<1>6. Load(place, request) =
        IF Detect(place) \notin Formats THEN [error |-> Detect(place)]
        ELSE IF place.info = None THEN [error |-> "load"]
        ELSE [error |-> None, info |-> Bare(place.info)]
    BY Zenon, <1>5 DEF Load, Bare
<1> HIDE DEF nothing, call, request, place
<1>7. answer.body = Load(place, request) \/ answer.body.error = "storage"
    BY <1>2, <1>3, AnswerParts
<1>8. answer.body = Load(place, request)
    BY <1>7, NoneAssumption DEF Reasons
<1>9. Detect(place) \in Formats
    BY <1>4, <1>6, <1>8, DetectFacts, NoneAssumption
<1>10. place.info # None
    BY <1>6, <1>8, <1>9, NoneAssumption DEF Reasons
<1>11. answer.body.info = Bare(place.info)
    BY <1>6, <1>8, <1>9, <1>10
<1> QED
    BY Zenon, <1>10, <1>11 DEF Loaded, place

(* A location that is named is a place.                                     *)
LEMMA LocationFacts ==
    ASSUME situation \in Situations, Reading
    PROVE  /\ Hinted => situation.hint \in DOMAIN situation.places
           /\ NonEmpty(Else(situation.documents.record.location, "")) # None =>
                /\ situation.documents.record.location \in DOMAIN situation.places
                /\ situation.hint = situation.documents.record.location => Hinted
<1> DEFINE location == situation.documents.record.location
<1>1. situation.hint \in DOMAIN situation.places \cup {None, ""}
    BY Zenon, SituationsAssumption DEF Reading
<1>2. location \in DOMAIN situation.places \cup {None, ""}
    BY Zenon, SituationsAssumption DEF Reading
<1>3. Hinted => situation.hint # None /\ situation.hint # ""
    BY Zenon DEF Hinted, NonEmpty
<1>4. NonEmpty(Else(location, "")) # None => location # None /\ location # "" /\ NonEmpty(location) # None
    BY Zenon DEF NonEmpty, Else
<1> HIDE DEF location
<1>5. Hinted => situation.hint \in DOMAIN situation.places
    BY Zenon, <1>1, <1>3
<1>6. NonEmpty(Else(location, "")) # None => location \in DOMAIN situation.places
    BY Zenon, <1>2, <1>4
<1>7. NonEmpty(Else(location, "")) # None /\ situation.hint = location => Hinted
    BY Zenon, <1>4 DEF Hinted
<1> QED
    BY Zenon, <1>5, <1>6, <1>7 DEF location
LEMMA BodiesFacts ==
    ASSUME HeardInv, NEW call, NEW answer, Hear(call, answer), NEW route
    PROVE  /\ call.route # route \/ JsonError(answer) # None => Bodies(route)' = Bodies(route)
           /\ call.route = route /\ JsonError(answer) = None =>
                answer.body # None /\ answer.body \in Bodies(route)'
<1>1. Heard(route)' = IF call.route = route THEN Heard(route) \cup {answer} ELSE Heard(route)
    BY HearFacts
<1>2. JsonError(answer) # None => answer.status # "200" \/ answer.body = None
    BY DEF JsonError
<1>3. JsonError(answer) = None => answer.status = "200" /\ answer.body # None
    BY NoneAssumption DEF JsonError, Reasons
<1> QED
    BY <1>1, <1>2, <1>3 DEF Bodies

LEMMA HeardAtFacts ==
    ASSUME HeardInv, NEW call, NEW answer, Hear(call, answer), NEW at
    PROVE  /\ HeardAt(at) => HeardAt(at)'
           /\ call = ReadAt(at) => HeardAt(at)'
           /\ heard' # <<>>
<1>1. /\ Len(heard) \in Nat /\ Len(heard') = Len(heard) + 1
      /\ \A i \in 1..Len(heard) : heard'[i] = heard[i]
      /\ heard'[Len(heard')] = [call |-> call, answer |-> answer]
    BY HearFacts DEF LastHeard
<1>2. HeardAt(at) => HeardAt(at)'
    BY <1>1 DEF HeardAt
<1>3. heard'[Len(heard')].call = call /\ Len(heard') \in 1..Len(heard')
    BY <1>1
<1>4. heard' # <<>>
    BY <1>1
<1> QED
    BY <1>2, <1>3, <1>4 DEF HeardAt

(* Once something was heard and the load is over, the rest of the invariant *)
(* is about the record and the reads.                                      *)
LEMMA Later ==
    ASSUME heard' # <<>>, LoadTableCall \notin waiting'
    PROVE  Fresh' /\ Alone'
<1>1. Alone'
    BY DEF Alone
<1>2. ~Early'
    BY DEF Early
<1>3. Fresh'
    BY <1>2 DEF Fresh
<1> QED
    BY <1>1, <1>3

LEMMA ThereNext ==
    ASSUME NEW value, NEW document, situation' = situation, Return(value), There(value, document)
    PROVE  There(result.value, document)'
<1>1. result'.value = value
    BY ReturnFacts
<1> QED
    BY <1>1 DEF There

(* The command has failed.                                                  *)
LEMMA ReadFailed ==
    ASSUME NEW reason, Fail(reason), reason # None
    PROVE  /\ Awaited' /\ Flight' /\ Returned'
           /\ LoadTableCall \notin waiting' /\ RecordCall \notin waiting'
<1>1. waiting' = {} /\ ~Ok'
    BY FailFacts
<1> QED
    BY Zenon, <1>1 DEF Awaited, Flight, Returned

(* The table is returned, as it was read where the catalog says it is.      *)
LEMMA TableReturned ==
    ASSUME situation \in Situations, Reading, situation' = situation,
           NEW catalog, catalog = situation.documents.record, catalog \in Bodies("record")',
           NonEmpty(Else(catalog.location, "")) # None, HeardAt(catalog.location)',
           situation.places[catalog.location].info # None,
           Table(Loaded(catalog.location), catalog)
    PROVE  /\ Awaited' /\ Flight' /\ Returned'
           /\ LoadTableCall \notin waiting' /\ RecordCall \notin waiting'
<1> DEFINE value == Resource(MergeCatalog(Loaded(catalog.location), catalog), situation.name)
<1>1. Return(value)
    BY Zenon DEF Table
<1>2. catalog.location \in DOMAIN situation.places
    BY Zenon, LocationFacts
<1>3. There(value, catalog)
    BY Zenon, <1>2, ThereFacts
<1> HIDE DEF value
<1>4. waiting' = {} /\ There(result.value, catalog)'
    BY Zenon, <1>1, <1>3, ThereNext, ReturnFacts
<1>5. Bodies("record")' # {}
    BY Zenon
<1>6. Returned'
    BY Zenon, <1>4, <1>5 DEF Returned
<1> QED
    BY Zenon, <1>4, <1>6 DEF Awaited, Flight

(* Both the record and the read at the hint are there.                      *)
LEMMA TogetherFacts ==
    ASSUME situation \in Situations, Reading, situation' = situation, result = None,
           NEW catalog, catalog = situation.documents.record, catalog # None, record' = catalog,
           catalog \in Bodies("record")', NEW atHint, Together(catalog, atHint),
           Hinted /\ situation.hint = catalog.location =>
             /\ HeardAt(catalog.location)' /\ atHint = Loaded(catalog.location)
             /\ situation.places[catalog.location].info # None
    PROVE  /\ Awaited' /\ Flight' /\ Returned'
           /\ LoadTableCall \notin waiting' /\ RecordCall \notin waiting'
<1>1. \/ Fail("malformed")
      \/ /\ NonEmpty(Else(catalog.location, "")) # None /\ situation.hint = catalog.location
         /\ Table(atHint, catalog)
      \/ /\ NonEmpty(Else(catalog.location, "")) # None
         /\ waiting' = {ReadAt(catalog.location)} /\ result' = result
    BY Zenon DEF Together, AtHint
<1>2. CASE Fail("malformed")
    <2>1. "malformed" # None
        BY NoneAssumption DEF Reasons
    <2> QED
        BY Zenon, <1>2, <2>1, ReadFailed
<1>3. CASE /\ NonEmpty(Else(catalog.location, "")) # None /\ situation.hint = catalog.location
           /\ Table(atHint, catalog)
    <2>1. Hinted
        BY Zenon, <1>3, LocationFacts
    <2> QED
        BY Zenon, <1>3, <2>1, TableReturned
<1>4. CASE /\ NonEmpty(Else(catalog.location, "")) # None
           /\ waiting' = {ReadAt(catalog.location)} /\ result' = result
    <2>1. Located'
        BY Zenon, <1>4 DEF Located
    <2>2. Reads(ReadAt(record.location))'
        BY Zenon, <2>1 DEF Reads
    <2>3. Flight'
        BY Zenon, <1>4, <2>2 DEF Flight
    <2>4. ~Ok'
        BY Zenon, <1>4 DEF Ok
    <2>5. LoadTableCall \notin waiting' /\ RecordCall \notin waiting'
        BY Zenon, <1>4, Routes
    <2> QED
        BY Zenon, <2>3, <2>4, <2>5 DEF Awaited, Returned
<1> QED
    BY Zenon, <1>1, <1>2, <1>3, <1>4

(* The first calls of a Unity table: its record, and the read at the hint.  *)
FirstReads == {RecordCall} \cup (IF NonEmpty(situation.hint) = None THEN {} ELSE {ReadAt(situation.hint)})

LEMMA ReadingCalls ==
    ASSUME Reading
    PROVE  FirstCalls = FirstReads \/ FirstCalls = {LoadTableCall}
<1> DEFINE hinted == IF NonEmpty(situation.hint) = None THEN {} ELSE {ReadAt(situation.hint)}
<1>1. FirstReads = {Call("record")} \cup hinted
    BY Zenon DEF FirstReads, RecordCall
<1>2. FirstCalls =
        CASE Listing -> {Page(None)}
          [] situation.op \in {"get metastore", "get catalog", "get schema"} -> {Call("one")}
          [] situation.op = "get table" /\ Unity -> {Call("record")} \cup hinted
          [] situation.op = "get table" /\ ~Unity -> {Call("load table")}
          [] situation.op = "check credentials" -> {Call("record")}
          [] situation.op = "get credentials" /\ Unity -> {Call("record")}
          [] OTHER -> {Call("credentials")}
    BY Zenon DEF FirstCalls
<1> HIDE DEF hinted
<1>3. ~Listing
    BY Zenon DEF Reading, Listing
<1>4. FirstCalls = {Call("record")} \cup hinted \/ FirstCalls = {Call("load table")}
    BY Zenon, <1>2, <1>3 DEF Reading
<1> QED
    BY Zenon, <1>1, <1>4 DEF LoadTableCall

LEMMA FirstReadsFacts ==
    ASSUME situation' = situation, record' = None, info' = None, waiting' = FirstReads,
           result' = None
    PROVE  /\ Awaited' /\ Flight' /\ Returned'
           /\ LoadTableCall \notin waiting'
<1>1. LoadTableCall \notin waiting'
    BY Routes DEF FirstReads
<1>2. \A call \in waiting' : call = RecordCall \/ (Hinted /\ call = ReadAt(situation.hint))
    BY DEF FirstReads, Hinted
<1>3. Flight'
    BY Zenon, <1>2 DEF Flight, Reads, Hinted
<1> QED
    BY Zenon, <1>1, <1>3 DEF Awaited, Returned, Ok

LEMMA ReadStart ==
    ASSUME HeardInv, Reading, TableInv, Start
    PROVE  Fresh' /\ Alone' /\ Known' /\ Awaited' /\ Flight' /\ Returned'
<1>1. /\ result = None /\ waiting = {} /\ heard = <<>> /\ heard' = heard /\ situation' = situation
      /\ record' = record /\ info' = info
      /\ \/ Fail("name")
         \/ waiting' = (waiting \ {None}) \cup FirstCalls /\ result' = result
    BY Zenon DEF Start, Then, Reading
<1>2. record = None /\ info = None
    BY Zenon, <1>1 DEF TableInv, Fresh, Early, Blank
<1>3. \A route : Heard(route)' = {} /\ Bodies(route)' = {}
    BY <1>1 DEF Heard, Bodies
<1>4. Known' /\ Fresh'
    BY <1>1, <1>2, <1>3 DEF Known, Fresh, Early, Blank
<1>5. CASE Fail("name")
    <2>1. "name" # None
        BY NoneAssumption DEF Reasons
    <2>2. /\ Awaited' /\ Flight' /\ Returned'
          /\ LoadTableCall \notin waiting'
        BY Zenon, <1>5, <2>1, ReadFailed
    <2> QED
        BY Zenon, <1>4, <2>2 DEF Alone
<1>6. CASE waiting' = (waiting \ {None}) \cup FirstCalls /\ result' = result
    <2>1. waiting' = FirstCalls
        BY <1>1, <1>6
    <2>2. CASE FirstCalls = FirstReads
        <3>1. /\ Awaited' /\ Flight' /\ Returned'
              /\ LoadTableCall \notin waiting'
            BY <1>1, <1>2, <1>6, <2>1, <2>2, FirstReadsFacts
        <3> QED
            BY Zenon, <1>4, <3>1 DEF Alone
    <2>3. CASE FirstCalls = {LoadTableCall}
        <3>1. waiting' = {LoadTableCall} /\ RecordCall \notin waiting' /\ ~Ok'
            BY <1>1, <1>6, <2>1, <2>3, Routes DEF Ok
        <3> QED
            BY Zenon, <1>4, <3>1 DEF Alone, Awaited, Flight, Returned
    <2> QED
        BY Zenon, <2>2, <2>3, ReadingCalls
<1> QED
    BY Zenon, <1>1, <1>5, <1>6

(* What is known before an answer.                                          *)
LEMMA ReadBefore ==
    ASSUME HeardInv, Reading, TableInv, NEW call, NEW answer, Hear(call, answer)
    PROVE  /\ call = LoadTableCall \/ call = RecordCall \/ Reads(call)
           /\ call = LoadTableCall => /\ record = None /\ info = None /\ waiting = {call}
                                      /\ Heard("record") = {} /\ Heard("metadata") = {}
           /\ call # LoadTableCall => LoadTableCall \notin waiting
           /\ call = RecordCall => record = None
<1>1. call \in waiting
    BY DEF Hear
<1>2. Fresh /\ Alone /\ Awaited /\ Flight
    BY DEF TableInv
<1>3. call = LoadTableCall \/ call = RecordCall \/ Reads(call)
    BY <1>1, <1>2 DEF Flight
<1>4. call # LoadTableCall => LoadTableCall \notin waiting
    BY <1>1, <1>2 DEF Alone
<1>5. call = LoadTableCall => /\ record = None /\ info = None /\ waiting = {call}
                              /\ Heard("record") = {} /\ Heard("metadata") = {}
    BY <1>1, <1>2 DEF Fresh, Early, Blank, Alone
<1>6. call = RecordCall => record = None
    BY <1>1, <1>2 DEF Awaited
<1> QED
    BY <1>3, <1>4, <1>5, <1>6

(* The record stays what it is when another call is answered, or fails.     *)
LEMMA KnownNext ==
    ASSUME HeardInv, Known, NEW call, NEW answer, Hear(call, answer), record' = record,
           call.route # "record" \/ JsonError(answer) # None
    PROVE  Known'
<1>1. Bodies("record")' = Bodies("record") /\ situation' = situation
    BY BodiesFacts, HearFacts
<1> QED
    BY <1>1 DEF Known

LEMMA ReadRefused ==
    ASSUME HeardInv, Reading, TableInv, NEW call, NEW answer, Refused(call, answer)
    PROVE  Fresh' /\ Alone' /\ Known' /\ Awaited' /\ Flight' /\ Returned'
<1>1. /\ Hear(call, answer) /\ record' = record
      /\ \/ JsonError(answer) # None /\ Fail(JsonError(answer))
         \/ call.route = "metadata" /\ Fail("metadata")
    BY Zenon DEF Refused
<1>2. "metadata" # None
    BY NoneAssumption DEF Reasons
<1>3. /\ Awaited' /\ Flight' /\ Returned'
      /\ LoadTableCall \notin waiting'
    BY Zenon, <1>1, <1>2, ReadFailed
<1>4. Known'
    <2>1. call.route # "record" \/ JsonError(answer) # None
        BY <1>1
    <2> QED
        BY Zenon, <1>1, <2>1, KnownNext DEF TableInv
<1>5. heard' # <<>>
    BY <1>1, HeardAtFacts
<1> QED
    BY Zenon, <1>3, <1>4, <1>5, Later

LEMMA ReadLoadTable ==
    ASSUME HeardInv, Reading, TableInv, NEW call, NEW answer, LoadTable(call, answer)
    PROVE  Fresh' /\ Alone' /\ Known' /\ Awaited' /\ Flight' /\ Returned'
<1>1. /\ Hear(call, answer) /\ record' = record /\ info' = info /\ call.route = "load table"
      /\ \/ waiting' = FirstReads /\ result' = result
         \/ Fail("malformed")
         \/ /\ JsonError(answer) = None /\ answer.body.location # ""
            /\ Return(Resource(IcebergInfo(answer.body), situation.name))
    BY Zenon DEF LoadTable, FirstReads, RecordCall
<1>2. call = LoadTableCall
    <2>1. call.route \notin {"record", "metadata"}
        BY Zenon, <1>1
    <2>2. call = LoadTableCall \/ call = RecordCall \/ Reads(call)
        BY Zenon, <1>1, ReadBefore
    <2> QED
        BY Zenon, <2>1, <2>2, Routes DEF Reads
<1>3. /\ record = None /\ info = None /\ Heard("record") = {} /\ Heard("metadata") = {}
    BY Zenon, <1>1, <1>2, ReadBefore
<1>4. call.route \notin {"record", "metadata"}
    BY Zenon, <1>2, Routes
<1>5. Known'
    BY Zenon, <1>1, <1>4, KnownNext DEF TableInv
<1>6. heard' # <<>> /\ situation' = situation /\ result = None
    BY Zenon, <1>1, HeardAtFacts, HearFacts
<1>7. CASE waiting' = FirstReads /\ result' = result
    <2>1. /\ Awaited' /\ Flight' /\ Returned'
          /\ LoadTableCall \notin waiting'
        BY Zenon, <1>1, <1>3, <1>6, <1>7, FirstReadsFacts
    <2> QED
        BY Zenon, <1>5, <1>6, <2>1, Later
<1>8. CASE Fail("malformed")
    <2>1. "malformed" # None
        BY NoneAssumption DEF Reasons
    <2>2. /\ Awaited' /\ Flight' /\ Returned'
          /\ LoadTableCall \notin waiting'
        BY Zenon, <1>8, <2>1, ReadFailed
    <2> QED
        BY Zenon, <1>5, <1>6, <2>2, Later
<1>9. CASE /\ JsonError(answer) = None /\ answer.body.location # ""
           /\ Return(Resource(IcebergInfo(answer.body), situation.name))
    <2> DEFINE value == Resource(IcebergInfo(answer.body), situation.name)
    <2>1. Inlined(value, answer.body)
        <3> DEFINE loaded == IcebergInfo(answer.body)
        <3>1. /\ loaded.uri = answer.body.location
              /\ loaded.version = Else(answer.body.metadata.snapshot, 0)
            <4> DEFINE version == IF answer.body.metadata.snapshot = None THEN 0
                                  ELSE answer.body.metadata.snapshot
                       spec == Current(answer.body.metadata.specs, answer.body.metadata.spec)
                       fields == Current(answer.body.metadata.schemas, answer.body.metadata.schema)
                       table == TableInfo("iceberg", answer.body.location, version, spec)
                       columns == [i \in 1..Len(fields) |->
                                     [column |-> fields[i].name, type |-> NonEmpty(fields[i].type),
                                      nullable |-> ~fields[i].required, position |-> None]]
            <4>1. loaded = [table EXCEPT !.columns = columns,
                                         !.icebergProperties = answer.body.metadata.properties]
                BY Zenon DEF IcebergInfo
            <4>2. version = Else(answer.body.metadata.snapshot, 0)
                BY DEF Else
            <4>3. /\ DOMAIN table = Fields /\ table = [f \in Fields |-> table[f]]
                  /\ table.uri = answer.body.location /\ table.version = version
                BY TableInfoFields
            <4> HIDE DEF loaded, table, columns, version
            <4> QED
                BY <4>1, <4>2, <4>3 DEF Fields
        <3>2. value.uri = NonEmpty(loaded.uri) /\ value.version = loaded.version
            BY Zenon DEF Resource
        <3> HIDE DEF loaded, value
        <3>3. NonEmpty(answer.body.location) = answer.body.location
            BY Zenon, <1>9 DEF NonEmpty
        <3> QED
            BY Zenon, <3>1, <3>2, <3>3 DEF Inlined
    <2> HIDE DEF value
    <2>2. waiting' = {} /\ result'.value = value
        BY Zenon, <1>9, ReturnFacts DEF value
    <2>3. answer.body \in Bodies("load table")'
        BY Zenon, <1>1, <1>9, BodiesFacts
    <2>4. Heard("record")' = {} /\ Heard("metadata")' = {}
        BY Zenon, <1>1, <1>3, <1>4, HearFacts
    <2>5. Bodies("record")' = {} /\ Bodies("metadata")' = {}
        BY <2>4 DEF Bodies
    <2>6. Inlined(result.value, answer.body)'
        BY Zenon, <2>1, <2>2 DEF Inlined
    <2>7. Returned'
        BY Zenon, <2>3, <2>5, <2>6 DEF Returned
    <2>8. Awaited' /\ Flight' /\ LoadTableCall \notin waiting'
        BY Zenon, <2>2 DEF Awaited, Flight
    <2> QED
        BY Zenon, <1>5, <1>6, <2>7, <2>8, Later
<1> QED
    BY Zenon, <1>1, <1>7, <1>8, <1>9

LEMMA ReadRecord ==
    ASSUME HeardInv, Reading, TableInv, NEW call, NEW answer \in Answers(call),
           TableRecordRead(call, answer)
    PROVE  Fresh' /\ Alone' /\ Known' /\ Awaited' /\ Flight' /\ Returned'
<1>1. /\ Hear(call, answer) /\ call.route = "record" /\ JsonError(answer) = None
      /\ record' = answer.body /\ info' = info
      /\ \/ Hinted /\ info = None /\ waiting' = (waiting \ {call}) \cup {} /\ result' = result
         \/ Hinted /\ info # None /\ Together(answer.body, info)
         \/ ~Hinted /\ Together(answer.body, None)
    BY Zenon DEF TableRecordRead, Then
<1>2. /\ heard' # <<>> /\ situation' = situation /\ result = None /\ situation \in Situations
      /\ call \in waiting
    BY Zenon, <1>1, HeardAtFacts, HearFacts DEF HeardInv
<1>3. call = RecordCall
    BY <1>1, ReadBefore, Routes DEF Reads
<1>4. record = None /\ LoadTableCall \notin waiting
    BY Zenon, <1>1, <1>3, ReadBefore, Routes
<1>5. answer.body # None /\ answer.body \in Bodies("record")'
    BY Zenon, <1>1, BodiesFacts
<1>6. answer.body = situation.documents.record
    <2>1. call.route \notin {"page", "metadata"}
        BY <1>1
    <2>2. answer.body = situation.documents[call.route]
        BY Zenon, <1>5, <2>1, AnswerFacts
    <2> QED
        BY Zenon, <1>1, <2>2
<1>7. Known'
    BY Zenon, <1>1, <1>2, <1>5, <1>6 DEF Known
<1>8. CASE Hinted /\ info = None /\ waiting' = (waiting \ {call}) \cup {} /\ result' = result
    <2>1. RecordCall \notin waiting' /\ LoadTableCall \notin waiting'
        BY <1>3, <1>4, <1>8
    <2>2. ASSUME NEW c \in waiting'
          PROVE  Reads(c)'
        <3>1. c \in waiting /\ c # RecordCall /\ c # LoadTableCall
            BY <1>3, <1>4, <1>8
        <3>2. Reads(c)
            BY <3>1 DEF TableInv, Flight
        <3> QED
            BY Zenon, <1>1, <1>2, <1>4, <3>2 DEF Reads, Hinted
    <2>3. ~Ok'
        BY Zenon, <1>2, <1>8 DEF Ok
    <2>4. Awaited' /\ Flight' /\ Returned'
        BY Zenon, <2>1, <2>2, <2>3 DEF Awaited, Flight, Returned
    <2> QED
        BY Zenon, <1>2, <1>7, <2>1, <2>4, Later
<1>9. CASE Hinted /\ info # None /\ Together(answer.body, info)
    <2>1. /\ HeardAt(situation.hint) /\ info = Loaded(situation.hint)
          /\ situation.places[situation.hint].info # None
        BY Zenon, <1>2, <1>3, <1>9 DEF TableInv, Awaited
    <2>2. HeardAt(situation.hint)'
        BY <1>1, <1>2, <2>1, HeardAtFacts
    <2>3. situation.hint = answer.body.location =>
            /\ HeardAt(answer.body.location)' /\ info = Loaded(answer.body.location)
            /\ situation.places[answer.body.location].info # None
        BY Zenon, <1>2, <2>1, <2>2
    <2>4. /\ Awaited' /\ Flight' /\ Returned'
          /\ LoadTableCall \notin waiting' /\ RecordCall \notin waiting'
        BY Zenon, <1>1, <1>2, <1>5, <1>6, <1>9, <2>3, TogetherFacts
    <2> QED
        BY Zenon, <1>2, <1>7, <2>4, Later
<1>10. CASE ~Hinted /\ Together(answer.body, None)
    <2>1. /\ Awaited' /\ Flight' /\ Returned'
          /\ LoadTableCall \notin waiting' /\ RecordCall \notin waiting'
        BY Zenon, <1>1, <1>2, <1>5, <1>6, <1>10, TogetherFacts
    <2> QED
        BY Zenon, <1>2, <1>7, <2>1, Later
<1> QED
    BY Zenon, <1>1, <1>8, <1>9, <1>10

LEMMA ReadMetadata ==
    ASSUME HeardInv, Reading, TableInv, NEW call, NEW answer \in Answers(call),
           MetadataRead(call, answer)
    PROVE  Fresh' /\ Alone' /\ Known' /\ Awaited' /\ Flight' /\ Returned'
<1> DEFINE loaded == answer.body.info
<1>1. /\ Hear(call, answer) /\ call.route = "metadata" /\ answer.body.error = None
      /\ record' = record
      /\ \/ /\ Hinted /\ info = None /\ record = None /\ info' = loaded
            /\ waiting' = (waiting \ {call}) \cup {} /\ result' = result
         \/ Hinted /\ info = None /\ record # None /\ Together(record, loaded)
         \/ (Hinted => info # None) /\ Table(loaded, record)
    BY Zenon DEF MetadataRead, Then
<1>2. /\ heard' # <<>> /\ situation' = situation /\ result = None /\ situation \in Situations
      /\ call \in waiting
    BY Zenon, <1>1, HeardAtFacts, HearFacts DEF HeardInv
<1>3. Reads(call) /\ LoadTableCall \notin waiting
    BY <1>1, ReadBefore, Routes
<1>4. Known /\ Flight /\ Known'
    <2>1. Known /\ Flight
        BY Zenon DEF TableInv
    <2>2. call.route # "record"
        BY <1>1
    <2> QED
        BY Zenon, <1>1, <2>1, <2>2, KnownNext
<1>5. record # None => record = situation.documents.record /\ record \in Bodies("record")'
    BY Zenon, <1>1, <1>2, <1>4 DEF Known
<1> DEFINE at == call.at
<1>6. call = ReadAt(at) /\ at \in DOMAIN situation.places
    <2>1. CASE Hinted /\ info = None /\ call = ReadAt(situation.hint)
        BY Zenon, <1>2, <2>1, LocationFacts, Routes
    <2>2. CASE record # None /\ Located /\ call = ReadAt(record.location)
        BY Zenon, <1>2, <1>5, <2>2, LocationFacts, Routes DEF Located
    <2> QED
        BY Zenon, <1>3, <2>1, <2>2 DEF Reads
<1>7. situation.places[at].info # None /\ loaded = Loaded(at) /\ HeardAt(at)'
    <2>1. answer \in Answers(ReadAt(at))
        BY Zenon, <1>6
    <2> QED
        BY Zenon, <1>1, <1>2, <1>6, <2>1, MetadataFacts, HeardAtFacts
<1>8. CASE /\ Hinted /\ info = None /\ record = None /\ info' = loaded
           /\ waiting' = (waiting \ {call}) \cup {} /\ result' = result
    <2>1. call = ReadAt(situation.hint) /\ at = situation.hint
        BY Zenon, <1>3, <1>8, Routes DEF Reads
    <2>2. Awaited'
        BY Zenon, <1>1, <1>2, <1>7, <1>8, <2>1 DEF Awaited, Hinted, Loaded, Bare
    <2>3. ASSUME NEW c \in waiting'
          PROVE  c = RecordCall
        <3>1. c \in waiting /\ c # call /\ c # LoadTableCall
            BY <1>3, <1>8
        <3>2. c = RecordCall \/ Reads(c)
            BY <1>4, <3>1 DEF Flight
        <3> QED
            BY Zenon, <1>8, <2>1, <3>1, <3>2 DEF Reads
    <2>4. Flight' /\ LoadTableCall \notin waiting'
        BY <1>3, <1>8, <2>3 DEF Flight
    <2>5. Returned'
        BY Zenon, <1>2, <1>8 DEF Returned, Ok
    <2> QED
        BY Zenon, <1>2, <1>4, <2>2, <2>4, <2>5, Later
<1>9. CASE Hinted /\ info = None /\ record # None /\ Together(record, loaded)
    <2>1. situation.hint = record.location => at = record.location
        BY Zenon, <1>3, Routes DEF Reads
    <2>2. /\ Awaited' /\ Flight' /\ Returned'
          /\ LoadTableCall \notin waiting' /\ RecordCall \notin waiting'
        BY Zenon, <1>1, <1>2, <1>5, <1>7, <1>9, <2>1, TogetherFacts
    <2> QED
        BY Zenon, <1>2, <1>4, <2>2, Later
<1>10. CASE (Hinted => info # None) /\ Table(loaded, record)
    <2>1. record # None /\ Located /\ at = record.location
        BY Zenon, <1>3, <1>10, Routes DEF Reads
    <2>2. /\ Awaited' /\ Flight' /\ Returned'
          /\ LoadTableCall \notin waiting' /\ RecordCall \notin waiting'
        BY Zenon, <1>2, <1>5, <1>7, <1>10, <2>1, TableReturned DEF Located
    <2> QED
        BY Zenon, <1>2, <1>4, <2>2, Later
<1> QED
    BY Zenon, <1>1, <1>8, <1>9, <1>10

LEMMA ReadingSteps ==
    ASSUME Reading, NEW call, call = LoadTableCall \/ call = RecordCall \/ Reads(call), NEW answer
    PROVE  /\ ~ListPage(call, answer) /\ ~GetOne(call, answer) /\ ~CheckRecord(call, answer)
           /\ ~VendRecord(call, answer) /\ ~Vend(call, answer)
<1>1. call.route \notin {"page", "one", "mint", "credentials", "delegated"}
    BY Routes DEF Reads
<1>2. ~ListPage(call, answer) /\ ~GetOne(call, answer) /\ ~Vend(call, answer)
    BY Zenon, <1>1 DEF ListPage, GetOne, Vend
<1>3. ~CheckRecord(call, answer) /\ ~VendRecord(call, answer)
    BY Zenon DEF CheckRecord, VendRecord, Reading
<1> QED
    BY <1>2, <1>3

LEMMA TableUnchanged ==
    ASSUME HeardInv, TableInv, UNCHANGED vars
    PROVE  HeardInv' /\ TableInv'
<1>1. /\ situation' = situation /\ waiting' = waiting /\ heard' = heard /\ record' = record
      /\ info' = info /\ result' = result
    BY DEF vars
<1>2. HeardInv'
    BY <1>1 DEF HeardInv
<1>3. Reading' = Reading
    BY Zenon, <1>1 DEF Reading
<1>4. \A route : Heard(route)' = Heard(route) /\ Bodies(route)' = Bodies(route)
    BY Zenon, <1>1 DEF Heard, Bodies
<1>5. Fresh => Fresh'
    BY <1>1, <1>4 DEF Fresh, Early, Blank
<1>6. Alone => Alone'
    BY <1>1 DEF Alone
<1>7. Known => Known'
    BY <1>1, <1>4 DEF Known
<1>8. HeardAt(situation.hint)' = HeardAt(situation.hint) /\ Loaded(situation.hint)' = Loaded(situation.hint)
      /\ Hinted' = Hinted
    BY Zenon, <1>1 DEF HeardAt, Loaded, Hinted
<1>9. Awaited => Awaited'
    BY <1>1, <1>8 DEF Awaited
<1>10. Flight => Flight'
    BY Zenon, <1>1 DEF Flight, Reads, Hinted, Located
<1>11. \A document : /\ HeardAt(document.location)' = HeardAt(document.location)
                     /\ There(result.value, document)' = There(result.value, document)
                     /\ Inlined(result.value, document)' = Inlined(result.value, document)
    BY <1>1 DEF HeardAt, There, Inlined
<1>12. Ok' = Ok
    BY <1>1 DEF Ok
<1>13. Returned => Returned'
    BY Zenon, <1>4, <1>11, <1>12 DEF Returned
<1> QED
    BY <1>2, <1>3, <1>5, <1>6, <1>7, <1>9, <1>10, <1>13 DEF TableInv

LEMMA TableNext ==
    ASSUME HeardInv, TableInv, [Next]_vars
    PROVE  HeardInv' /\ TableInv'
<1>1. CASE Start
    <2>1. situation' = situation /\ heard' = heard
        BY Zenon, <1>1 DEF Start
    <2>2. HeardInv'
        BY <2>1 DEF HeardInv
    <2>3. Reading' = Reading
        BY Zenon, <2>1 DEF Reading
    <2> QED
        BY Zenon, <1>1, <2>2, <2>3, ReadStart DEF TableInv
<1>2. ASSUME NEW call \in waiting, NEW answer \in Answers(call),
             \/ Refused(call, answer) \/ ListPage(call, answer) \/ GetOne(call, answer)
             \/ TableRecordRead(call, answer) \/ MetadataRead(call, answer)
             \/ LoadTable(call, answer)
             \/ CheckRecord(call, answer) \/ VendRecord(call, answer) \/ Vend(call, answer)
      PROVE  HeardInv' /\ TableInv'
    <2>1. Hear(call, answer)
        BY Zenon, <1>2, CallStep
    <2>2. HeardInv' /\ situation' = situation
        BY Zenon, <2>1, HearFacts
    <2>3. Reading' = Reading
        BY Zenon, <2>2 DEF Reading
    <2>4. CASE Reading
        <3>1. call = LoadTableCall \/ call = RecordCall \/ Reads(call)
            BY Zenon, <2>1, <2>4, ReadBefore
        <3>2. \/ Refused(call, answer) \/ TableRecordRead(call, answer)
              \/ MetadataRead(call, answer) \/ LoadTable(call, answer)
            BY Zenon, <1>2, <2>4, <3>1, ReadingSteps
        <3>3. Fresh' /\ Alone' /\ Known' /\ Awaited' /\ Flight' /\ Returned'
            BY Zenon, <2>4, <3>2, ReadRefused, ReadRecord, ReadMetadata, ReadLoadTable
        <3> QED
            BY Zenon, <2>2, <3>3 DEF TableInv
    <2> QED
        BY Zenon, <2>2, <2>3, <2>4 DEF TableInv
<1>3. CASE Done
    BY Zenon, <1>3, TableUnchanged DEF Done
<1>4. CASE UNCHANGED vars
    BY Zenon, <1>4, TableUnchanged
<1> QED
    BY Zenon, <1>1, <1>2, <1>3, <1>4 DEF Next

LEMMA TableInit ==
    ASSUME Init
    PROVE  HeardInv /\ TableInv
<1>1. /\ situation \in Situations /\ waiting = {} /\ heard = <<>> /\ result = None
      /\ record = None /\ info = None
    BY Zenon DEF Init
<1>2. HeardInv
    BY <1>1 DEF HeardInv
<1>3. \A route : Heard(route) = {} /\ Bodies(route) = {}
    BY <1>1 DEF Heard, Bodies
<1>4. Fresh /\ Alone /\ Known /\ Awaited /\ Flight /\ ~Ok
    BY <1>1, <1>3 DEF Fresh, Early, Blank, Alone, Known, Awaited, Flight, Ok
<1> QED
    BY Zenon, <1>2, <1>4 DEF TableInv, Returned

(* The record of a table that is returned is the metadata of the location   *)
(* the catalog named, or the catalog's inline metadata.                    *)
THEOREM OneTableHolds == Spec => []OneTable
<1>1. HeardInv /\ TableInv => OneTable
    BY Zenon DEF TableInv, Reading, Returned, HeardAt, OneTable
<1> QED
    BY <1>1, TableInit, TableNext, PTL DEF Spec

-----------------------------------------------------------------------------
(* Places by rank: how many of a strict total order come before a member.   *)
Earlier(n, R, i) == {j \in 1..n : <<j, i>> \in R}

LEMMA EarlierFacts ==
    ASSUME NEW n \in Nat, NEW R,
           \A i \in 1..n : <<i, i>> \notin R,
           \A i, j, k \in 1..n : <<i, j>> \in R /\ <<j, k>> \in R => <<i, k>> \in R
    PROVE  /\ \A i \in 1..n : Cardinality(Earlier(n, R, i)) \in 0..n - 1
           /\ \A i, j \in 1..n : <<i, j>> \in R =>
                 Cardinality(Earlier(n, R, i)) < Cardinality(Earlier(n, R, j))
<1>1. IsFiniteSet(1..n) /\ Cardinality(1..n) = n
    BY FS_Interval
<1>2. ASSUME NEW i \in 1..n
      PROVE  /\ Earlier(n, R, i) \in SUBSET (1..n) /\ i \notin Earlier(n, R, i)
             /\ \A j \in 1..n : <<i, j>> \in R =>
                   Earlier(n, R, i) \in SUBSET Earlier(n, R, j) /\ i \in Earlier(n, R, j)
    BY DEF Earlier
<1>4. ASSUME NEW i \in 1..n
      PROVE  /\ IsFiniteSet(Earlier(n, R, i)) /\ Cardinality(Earlier(n, R, i)) \in Nat
             /\ Cardinality(Earlier(n, R, i)) < n
    <2>1. IsFiniteSet(Earlier(n, R, i)) /\ Cardinality(Earlier(n, R, i)) <= n
        BY <1>1, <1>2, FS_Subset
    <2>2. Earlier(n, R, i) # 1..n
        BY <1>2
    <2>3. Cardinality(Earlier(n, R, i)) # n
        BY <1>1, <1>2, <2>2, FS_Subset
    <2>4. Cardinality(Earlier(n, R, i)) \in Nat
        BY <2>1, FS_CardinalityType
    <2> QED
        BY <2>1, <2>3, <2>4
<1>5. ASSUME NEW i \in 1..n, NEW j \in 1..n, <<i, j>> \in R
      PROVE  Cardinality(Earlier(n, R, i)) < Cardinality(Earlier(n, R, j))
    <2>1. Earlier(n, R, i) \in SUBSET Earlier(n, R, j) /\ Earlier(n, R, i) # Earlier(n, R, j)
        BY Zenon, <1>2, <1>5
    <2>2. IsFiniteSet(Earlier(n, R, j))
        BY <1>4
    <2>3. Cardinality(Earlier(n, R, i)) <= Cardinality(Earlier(n, R, j))
        BY Zenon, <2>1, <2>2, FS_Subset
    <2>4. Cardinality(Earlier(n, R, i)) # Cardinality(Earlier(n, R, j))
        BY Zenon, <2>1, <2>2, FS_Subset
    <2> QED
        BY <1>4, <2>3, <2>4
<1>6. ASSUME NEW i \in 1..n
      PROVE  Cardinality(Earlier(n, R, i)) \in 0..n - 1
    BY <1>4
<1> QED
    BY Zenon, <1>5, <1>6

Ranks(n, R, at) ==
    /\ \A i \in 1..n : at[i] \in 1..n
    /\ \A i, j \in 1..n : <<i, j>> \in R => at[i] < at[j]
    /\ \A r \in 1..n : \E i \in 1..n : at[i] = r

LEMMA RankFacts ==
    ASSUME NEW n \in Nat, NEW R,
           \A i \in 1..n : <<i, i>> \notin R,
           \A i, j, k \in 1..n : <<i, j>> \in R /\ <<j, k>> \in R => <<i, k>> \in R,
           \A i, j \in 1..n : i # j => <<i, j>> \in R \/ <<j, i>> \in R,
           NEW at, \A i \in 1..n : at[i] = 1 + Cardinality(Earlier(n, R, i))
    PROVE  Ranks(n, R, at)
<1> DEFINE count(i) == Cardinality(Earlier(n, R, i))
<1>1. \A i \in 1..n : count(i) \in 0..n - 1
    BY Zenon, EarlierFacts
<1>2. \A i, j \in 1..n : <<i, j>> \in R => count(i) < count(j)
    BY Zenon, EarlierFacts
<1>3. \A i \in 1..n : at[i] = 1 + count(i)
    OBVIOUS
<1> HIDE DEF count
<1>6. \A i \in 1..n : at[i] \in 1..n
    BY <1>1, <1>3
<1>7. \A i, j \in 1..n : <<i, j>> \in R => at[i] < at[j]
    BY <1>1, <1>2, <1>3
<1>8. \A i, j \in 1..n : i # j => at[i] # at[j]
    <2> SUFFICES ASSUME NEW i \in 1..n, NEW j \in 1..n, i # j
                 PROVE  at[i] # at[j]
        OBVIOUS
    <2>1. at[i] \in Nat /\ at[j] \in Nat
        BY <1>6
    <2>2. at[i] < at[j] \/ at[j] < at[i]
        BY Zenon, <1>7
    <2> QED
        BY <2>1, <2>2
<1> DEFINE f == [i \in 1..n |-> at[i]]
<1>9. f \in Injection(1..n, 1..n)
    <2>1. f \in [1..n -> 1..n]
        BY <1>6
    <2>2. \A i, j \in 1..n : f[i] = f[j] => i = j
        BY Zenon, <1>8
    <2> QED
        BY Zenon, <2>1, <2>2 DEF Injection, IsInjective
<1>10. f \in Surjection(1..n, 1..n)
    <2>1. IsFiniteSet(1..n) /\ Cardinality(1..n) = n
        BY FS_Interval
    <2> HIDE DEF f
    <2> QED
        BY Zenon, <1>9, <2>1, FS_Injection
<1>11. \A r \in 1..n : \E i \in 1..n : at[i] = r
    BY Zenon, <1>10 DEF Surjection
<1> QED
    BY Zenon, <1>6, <1>7, <1>11 DEF Ranks

(* Texts are ordered: of two that differ one is before the other.           *)
LEMMA BeforeIsOrder ==
    ASSUME NEW s \in Text, NEW t \in Text
    PROVE  /\ ~Before(s, s)
           /\ s # t => Before(s, t) \/ Before(t, s)
           /\ \A u \in Text : Before(s, t) /\ Before(t, u) => Before(s, u)
<1>1. /\ Len(s) \in Nat /\ \A i \in 1..Len(s) : s[i] \in Nat
      /\ Len(t) \in Nat /\ \A i \in 1..Len(t) : t[i] \in Nat
    BY LenProperties DEF Text
<1>0. Len(s) = Len(t) /\ (\A i \in 1..Len(s) : s[i] = t[i]) => s = t
    BY SeqEqual DEF Text
<1>2. ~Before(s, s)
    BY <1>1 DEF Before
<1>3. ASSUME s # t
      PROVE  Before(s, t) \/ Before(t, s)
    <2> DEFINE both == {i \in Nat : i \in 1..Len(s) /\ i \in 1..Len(t) /\ s[i] # t[i]}
    <2>1. CASE both = {}
        <3>1. \A i \in Nat : i \in 1..Len(s) /\ i \in 1..Len(t) => s[i] = t[i]
            BY <2>1
        <3>2. Len(s) # Len(t)
            <4>1. \A i \in 1..Len(s) : i \in Nat
                BY <1>1
            <4> QED
                BY Zenon, <1>0, <1>3, <3>1, <4>1
        <3>3. CASE Len(s) < Len(t)
            <4>1. /\ Len(s) + 1 \in 1..Len(t) /\ ~(Len(s) + 1 <= Len(s))
                  /\ \A j \in 1..(Len(s) + 1) - 1 : s[j] = t[j]
                BY <1>1, <3>1, <3>3
            <4> QED
                BY <1>1, <4>1 DEF Before
        <3>4. CASE Len(t) < Len(s)
            <4>1. /\ Len(t) + 1 \in 1..Len(s) /\ ~(Len(t) + 1 <= Len(t))
                  /\ \A j \in 1..(Len(t) + 1) - 1 : t[j] = s[j]
                BY <1>1, <3>1, <3>4
            <4> QED
                BY <1>1, <4>1 DEF Before
        <3> QED
            BY <1>1, <3>2, <3>3, <3>4
    <2>2. CASE both # {}
        <3>1. both \subseteq Nat
            OBVIOUS
        <3>2. PICK i \in both : \A m \in both : i <= m
            <4> HIDE DEF both
            <4> QED
                BY <2>2, <3>1, LeastNat
        <3>3. i \in 1..Len(s) /\ i \in 1..Len(t) /\ s[i] # t[i]
            BY <3>2
        <3>4. \A j \in 1..i - 1 : j \in Nat /\ j \in 1..Len(s) /\ j \in 1..Len(t) /\ ~(i <= j)
            BY <1>1, <3>3
        <3>5. \A j \in 1..i - 1 : s[j] = t[j]
            BY <3>2, <3>4
        <3>6. s[i] < t[i] \/ t[i] < s[i]
            BY <1>1, <3>3
        <3> QED
            BY <1>1, <3>3, <3>5, <3>6 DEF Before
    <2> QED
        BY <2>1, <2>2
<1>4. ASSUME NEW u \in Text, Before(s, t), Before(t, u)
      PROVE  Before(s, u)
    <2>1. Len(u) \in Nat /\ \A i \in 1..Len(u) : u[i] \in Nat
        BY LenProperties DEF Text
    <2>2. PICK i \in 1..Len(t) : /\ i <= Len(s) + 1 /\ \A j \in 1..i - 1 : s[j] = t[j]
                                 /\ i <= Len(s) => s[i] < t[i]
        BY <1>4 DEF Before
    <2>3. PICK k \in 1..Len(u) : /\ k <= Len(t) + 1 /\ \A j \in 1..k - 1 : t[j] = u[j]
                                 /\ k <= Len(t) => t[k] < u[k]
        BY <1>4 DEF Before
    <2>4. CASE i <= k
        <3>1. i \in 1..Len(u) /\ \A j \in 1..i - 1 : j \in 1..k - 1
            BY <1>1, <2>1, <2>2, <2>3, <2>4
        <3>2. \A j \in 1..i - 1 : s[j] = u[j]
            BY <2>2, <2>3, <3>1
        <3>3. i <= Len(s) => s[i] < u[i]
            <4>1. CASE i = k
                BY <1>1, <2>1, <2>2, <2>3, <4>1
            <4>2. CASE i # k
                <5>1. i \in 1..k - 1
                    BY <1>1, <2>1, <2>2, <2>3, <2>4, <4>2
                <5> QED
                    BY <2>2, <2>3, <5>1
            <4> QED
                BY <4>1, <4>2
        <3> QED
            BY <2>2, <3>1, <3>2, <3>3 DEF Before
    <2>5. CASE k < i
        <3>1. /\ k \in 1..i - 1 /\ k <= Len(s) + 1 /\ k <= Len(t)
              /\ \A j \in 1..k - 1 : j \in 1..i - 1
            BY <1>1, <2>1, <2>2, <2>3, <2>5
        <3>2. \A j \in 1..k - 1 : s[j] = u[j]
            BY <2>2, <2>3, <3>1
        <3>3. s[k] < u[k]
            BY <2>2, <2>3, <3>1
        <3> QED
            BY <2>3, <3>1, <3>2, <3>3 DEF Before
    <2> QED
        BY <1>1, <2>1, <2>2, <2>3, <2>4, <2>5
<1> QED
    BY <1>2, <1>3, <1>4

(* A listing's sort keeps the items and leaves none before an earlier one.  *)
Reordered(value, items) ==
    /\ Len(value) = Len(items) /\ DOMAIN value = 1..Len(items)
    /\ \E p \in [1..Len(items) -> 1..Len(items)] :
          /\ \A r, q \in 1..Len(items) : p[r] = p[q] => r = q
          /\ \A i \in 1..Len(items) : \E r \in 1..Len(items) : p[r] = i
          /\ \A r \in 1..Len(items) : value[r] = items[p[r]]
InOrder(value, n) == \A i, j \in 1..n : i < j => ~NameBefore(value[j], value[i])
AllNamed(items) == \A i \in 1..Len(items) : FlattenSeq(items[i].name) \in Text

LEMMA SortedFacts ==
    ASSUME NEW items, Len(items) \in Nat, AllNamed(items)
    PROVE  Reordered(Sorted(items), items) /\ InOrder(Sorted(items), Len(items))
<1> DEFINE n == Len(items)
           text(i) == FlattenSeq(items[i].name)
           Ahead(i, j) == \/ Before(text(i), text(j))
                          \/ i < j /\ ~Before(text(j), text(i))
           R == {e \in (1..n) \X (1..n) : Ahead(e[1], e[2])}
           earlier(i) == {j \in 1..n : NameBefore(items[j], items[i]) \/ (j < i /\ ~NameBefore(items[i], items[j]))}
           at == [i \in 1..n |-> 1 + Cardinality(earlier(i))]
<1>0. Sorted(items) = [r \in 1..n |-> items[CHOOSE i \in 1..n : at[i] = r]]
    BY Zenon DEF Sorted, SortedBy
<1> n \in Nat
    OBVIOUS
<1> HIDE DEF n
<1>1. \A i, j \in 1..n : NameBefore(items[i], items[j]) <=> Before(text(i), text(j))
    BY Zenon DEF NameBefore
<1>2. \A i \in 1..n : text(i) \in Text
    BY Zenon DEF n, AllNamed
<1>3. \A i, j \in 1..n : <<i, j>> \in R <=> Ahead(i, j)
    OBVIOUS
<1> HIDE DEF text
<1>4. \A i \in 1..n : ~Ahead(i, i)
    BY <1>2, BeforeIsOrder
<1>5. \A i, j \in 1..n : i # j => Ahead(i, j) \/ Ahead(j, i)
    OBVIOUS
<1>6. ASSUME NEW i \in 1..n, NEW j \in 1..n, NEW k \in 1..n, Ahead(i, j), Ahead(j, k)
      PROVE  Ahead(i, k)
    <2> DEFINE a == text(i)
               b == text(j)
               c == text(k)
    <2>1. a \in Text /\ b \in Text /\ c \in Text
        BY <1>2
    <2> HIDE DEF a, b, c
    <2>2. /\ Before(a, b) /\ Before(b, c) => Before(a, c)
          /\ Before(a, b) => a # b
          /\ Before(b, c) => b # c
          /\ a # b => Before(a, b) \/ Before(b, a)
          /\ b # c => Before(b, c) \/ Before(c, b)
          /\ ~Before(a, a)
        BY <2>1, BeforeIsOrder
    <2>3. (Before(a, b) \/ (i < j /\ ~Before(b, a))) /\ (Before(b, c) \/ (j < k /\ ~Before(c, b)))
        BY Zenon, <1>6 DEF a, b, c
    <2>4. i < j /\ j < k => i < k
        OBVIOUS
    <2>5. Before(a, c) \/ (i < k /\ a = c)
        BY Zenon, <2>2, <2>3, <2>4
    <2>6. Before(a, c) \/ (i < k /\ ~Before(c, a))
        BY Zenon, <2>2, <2>5
    <2> QED
        BY Zenon, <2>6 DEF a, b, c
<1> HIDE DEF Ahead
<1>7. /\ \A i \in 1..n : <<i, i>> \notin R
      /\ \A i, j, k \in 1..n : <<i, j>> \in R /\ <<j, k>> \in R => <<i, k>> \in R
      /\ \A i, j \in 1..n : i # j => <<i, j>> \in R \/ <<j, i>> \in R
    BY <1>3, <1>4, <1>5, <1>6
<1>8. /\ \A i \in 1..n : at[i] \in 1..n
      /\ \A i, j \in 1..n : <<i, j>> \in R => at[i] < at[j]
      /\ \A r \in 1..n : \E i \in 1..n : at[i] = r
    <2>0. \A i, j \in 1..n : Ahead(i, j) <=> (NameBefore(items[i], items[j]) \/ (i < j /\ ~NameBefore(items[j], items[i])))
        BY Zenon, <1>1 DEF Ahead
    <2> HIDE DEF R
    <2>1. ASSUME NEW i \in 1..n
          PROVE  Earlier(n, R, i) = earlier(i)
        BY Zenon, <1>3, <2>0 DEF Earlier
    <2> HIDE DEF earlier
    <2>2. \A i \in 1..n : at[i] = 1 + Cardinality(Earlier(n, R, i))
        BY Zenon, <2>1
    <2> HIDE DEF at
    <2>3. Ranks(n, R, at)
        BY Zenon, <1>7, <2>2, RankFacts
    <2> QED
        BY Zenon, <2>3 DEF Ranks
<1> HIDE DEF at, R
<1> DEFINE p == [r \in 1..n |-> CHOOSE i \in 1..n : at[i] = r]
<1>10. ASSUME NEW r \in 1..n
       PROVE  p[r] \in 1..n /\ at[p[r]] = r
    <2>1. \E i \in 1..n : at[i] = r
        BY Zenon, <1>8
    <2>2. p[r] = CHOOSE i \in 1..n : at[i] = r
        BY Zenon DEF p
    <2> QED
        BY Zenon, <2>1, <2>2
<1>11. Sorted(items) = [r \in 1..n |-> items[p[r]]]
    BY Zenon, <1>0 DEF p
<1>12. p \in [1..n -> 1..n]
    BY <1>10
<1> HIDE DEF p
<1>13. \A r, q \in 1..n : p[r] = p[q] => r = q
    BY <1>10
<1>14. ASSUME NEW i \in 1..n, NEW j \in 1..n, at[i] = at[j]
       PROVE  i = j
    <2>0. at[i] \in 1..n /\ at[j] \in 1..n
        BY Zenon, <1>8
    <2>1. at[i] \in Nat /\ at[j] \in Nat
        BY <2>0
    <2>2. ~(at[i] < at[j]) /\ ~(at[j] < at[i])
        BY <1>14, <2>1
    <2> QED
        BY Zenon, <1>7, <1>8, <2>2
<1>15. ASSUME NEW i \in 1..n
       PROVE  \E r \in 1..n : p[r] = i
    <2>1. at[i] \in 1..n
        BY <1>8
    <2>2. p[at[i]] \in 1..n /\ at[p[at[i]]] = at[i]
        BY <1>10, <2>1
    <2> QED
        BY <1>14, <2>1, <2>2
<1>16. ASSUME NEW i \in 1..n, NEW j \in 1..n, i < j
       PROVE  ~NameBefore(items[p[j]], items[p[i]])
    <2>1. p[i] \in 1..n /\ p[j] \in 1..n /\ at[p[i]] = i /\ at[p[j]] = j
        BY <1>10
    <2>2. ~(at[p[j]] < at[p[i]])
        BY <1>16, <2>1
    <2>3. ~Ahead(p[j], p[i])
        BY <1>3, <1>8, <2>1, <2>2
    <2> QED
        BY <1>1, <2>1, <2>3 DEF Ahead
<1> HIDE DEF R, at
<1>17. /\ Len(Sorted(items)) = n /\ DOMAIN Sorted(items) = 1..n
       /\ \A r \in 1..n : Sorted(items)[r] = items[p[r]]
    BY <1>11
<1>18. \A i, j \in 1..n : i < j => ~NameBefore(Sorted(items)[j], Sorted(items)[i])
    BY Zenon, <1>16, <1>17
<1> QED
    BY Zenon, <1>12, <1>13, <1>15, <1>17, <1>18 DEF n, Reordered, InOrder

(* The texts of a sequence, one after the other, are a text.                *)
LEMMA FlattenedIsSeq ==
    ASSUME NEW S, NEW seqs \in Seq(Seq(S))
    PROVE  FlattenSeq(seqs) \in Seq(S)
<1> DEFINE n == Len(seqs)
           flatten == CHOOSE g : g = [i \in 1..n |-> IF i = 1 THEN seqs[i] ELSE g[i - 1] \o seqs[i]]
           Step(g, i) == IF i = 1 THEN seqs[i] ELSE g[i - 1] \o seqs[i]
           Defined(k) == \E g \in [1..k -> Seq(S)] : \A i \in 1..k : g[i] = Step(g, i)
           Bad == {k \in Nat : k \in 1..n /\ ~Defined(k)}
<1>1. n \in Nat /\ \A i \in 1..n : seqs[i] \in Seq(S)
    OBVIOUS
<1>2. Bad = {}
    <2> SUFFICES ASSUME Bad # {} PROVE FALSE
        OBVIOUS
    <2>1. PICK k \in Bad : \A m \in Bad : k <= m
        <3>1. Bad \subseteq Nat
            OBVIOUS
        <3> HIDE DEF Bad
        <3> QED
            BY <3>1, LeastNat
    <2>2. k \in 1..n /\ k \in Nat /\ ~Defined(k)
        BY <2>1
    <2>3. k # 1
        <3> SUFFICES ASSUME k = 1 PROVE FALSE
            OBVIOUS
        <3>1. [i \in 1..1 |-> seqs[1]] \in [1..1 -> Seq(S)]
            BY <1>1, <2>2
        <3>2. \A i \in 1..1 : [j \in 1..1 |-> seqs[1]][i] = Step([j \in 1..1 |-> seqs[1]], i)
            OBVIOUS
        <3> QED
            BY <2>2, <3>1, <3>2
    <2>4. PICK g \in [1..k - 1 -> Seq(S)] : \A i \in 1..k - 1 : g[i] = Step(g, i)
        <3>1. k - 1 \in Nat /\ k - 1 \in 1..n /\ ~(k <= k - 1)
            BY <1>1, <2>2, <2>3
        <3>2. k - 1 \notin Bad
            BY <2>1, <3>1
        <3> QED
            BY <3>1, <3>2
    <2> DEFINE h == [i \in 1..k |-> IF i = k THEN g[k - 1] \o seqs[k] ELSE g[i]]
    <2>5. h \in [1..k -> Seq(S)]
        <3>1. g[k - 1] \in Seq(S) /\ seqs[k] \in Seq(S)
            BY <1>1, <2>2, <2>3, <2>4
        <3>2. g[k - 1] \o seqs[k] \in Seq(S)
            BY <3>1
        <3>3. ASSUME NEW i \in 1..k PROVE h[i] \in Seq(S)
            <4>1. i # k => i \in 1..k - 1
                BY <2>2
            <4> QED
                BY <2>4, <3>2, <4>1
        <3> QED
            BY <3>3
    <2>6. ASSUME NEW i \in 1..k PROVE h[i] = Step(h, i)
        <3>1. CASE i = k
            <4>1. k - 1 \in 1..k /\ k - 1 # k
                BY <2>2, <2>3
            <4>2. h[k - 1] = g[k - 1]
                BY <4>1
            <4> QED
                BY <2>2, <2>3, <3>1, <4>2
        <3>2. CASE i # k
            <4>1. i \in 1..k - 1 /\ h[i] = g[i]
                BY <2>2, <3>2
            <4>2. i # 1 => i - 1 \in 1..k /\ i - 1 # k
                BY <2>2
            <4>3. i # 1 => h[i - 1] = g[i - 1]
                BY <4>2
            <4> QED
                BY <2>4, <4>1, <4>3
        <3> QED
            BY <3>1, <3>2
    <2> QED
        BY <2>2, <2>5, <2>6
<1>3. CASE n = 0
    <2>1. seqs = <<>>
        BY <1>3
    <2>2. FlattenSeq(seqs) = seqs
        BY Zenon, <1>3 DEF FlattenSeq
    <2>3. <<>> \in Seq(S)
        OBVIOUS
    <2> QED
        BY Zenon, <2>1, <2>2, <2>3
<1>4. CASE n # 0
    <2>1. PICK f \in [1..n -> Seq(S)] : \A i \in 1..n : f[i] = Step(f, i)
        <3>1. n \in Nat /\ n \in 1..n
            BY <1>1, <1>4
        <3>2. ~(n \in Nat /\ n \in 1..n /\ ~Defined(n))
            <4> HIDE DEF Defined, n
            <4> QED
                BY <1>2
        <3> QED
            BY <3>1, <3>2
    <2>2. f = [i \in 1..n |-> IF i = 1 THEN seqs[i] ELSE f[i - 1] \o seqs[i]]
        BY <2>1
    <2>3. flatten = [i \in 1..n |-> IF i = 1 THEN seqs[i] ELSE flatten[i - 1] \o seqs[i]]
        BY Zenon, <2>2
    <2>4. FlattenSeq(seqs) = flatten[n]
        BY Zenon, <1>4 DEF FlattenSeq
    <2> HIDE DEF flatten
    <2> DEFINE Odd == {k \in Nat : k \in 1..n /\ flatten[k] \notin Seq(S)}
    <2>5. Odd = {}
        <3> SUFFICES ASSUME Odd # {} PROVE FALSE
            OBVIOUS
        <3>1. PICK k \in Odd : \A m \in Odd : k <= m
            <4>1. Odd \subseteq Nat
                OBVIOUS
            <4> HIDE DEF Odd
            <4> QED
                BY <4>1, LeastNat
        <3>2. k \in Nat /\ k \in 1..n /\ flatten[k] \notin Seq(S)
            BY <3>1
        <3>3. flatten[k] = IF k = 1 THEN seqs[k] ELSE flatten[k - 1] \o seqs[k]
            BY <2>3, <3>2
        <3>4. k # 1
            BY <1>1, <3>2, <3>3
        <3>5. k - 1 \in Nat /\ k - 1 \in 1..n /\ ~(k <= k - 1)
            BY <1>1, <3>2, <3>4
        <3>6. flatten[k - 1] \in Seq(S)
            BY <3>1, <3>5
        <3> QED
            BY <1>1, <3>2, <3>3, <3>4, <3>6
    <2>6. flatten[n] \in Seq(S)
        <3>1. n \in Nat /\ n \in 1..n
            BY <1>1, <1>4
        <3> HIDE DEF n
        <3> QED
            BY Zenon, <2>5, <3>1
    <2> QED
        BY Zenon, <2>4, <2>6
<1> QED
    BY <1>3, <1>4

(* The answer to the call for a page is the page, or no document.           *)
LEMMA PageAnswer ==
    ASSUME NEW call, call.route = "page", NEW answer \in Answers(call)
    PROVE  \/ answer.body = None
           \/ answer.status = "200" /\ answer.body = situation.pages[call.token]
<1> DEFINE nothing == ""
           documents == IF Understood(call) /\ Document(call) # None
                        THEN {Answer("200", nothing, Document(call))} ELSE {}
           refusals == IF call.route \in {"load table", "delegated"} THEN {NotIceberg} ELSE {}
           untrusted == IF call.route = "mint" THEN {Serverless} ELSE {}
<1>0. Answers(call) = Failures \cup documents \cup refusals \cup untrusted
    BY Zenon DEF Answers
<1>2. Document(call) = situation.pages[call.token]
    BY Zenon DEF Document
<1>3. answer \in documents => answer = Answer("200", nothing, Document(call))
    BY Zenon
<1>4. answer \in refusals => answer = NotIceberg
    BY Zenon
<1>5. answer \in untrusted => answer = Serverless
    BY Zenon
<1>6. answer \in Failures => \E status : answer = Answer(status, nothing, None)
    BY Zenon DEF Failures
<1> HIDE DEF nothing, documents, refusals, untrusted
<1>7. answer \in Failures \/ answer \in documents \/ answer \in refusals \/ answer \in untrusted
    BY Zenon, <1>0
<1>8. answer \in Failures => answer.body = None
    BY <1>6, AnswerParts
<1>9. NotIceberg.body = None /\ Serverless.body = None
    BY Zenon DEF NotIceberg, Serverless, Answer
<1>10. answer \in documents => answer.status = "200" /\ answer.body = situation.pages[call.token]
    BY <1>2, <1>3, AnswerParts
<1> QED
    BY Zenon, <1>4, <1>5, <1>7, <1>8, <1>9, <1>10

-----------------------------------------------------------------------------
(* What the entries of a page become.                                      *)

LEMMA TextFacts ==
    /\ \A a \in Text : <<a>> \in Seq(Text)
    /\ \A a, b \in Text : <<a, b>> \in Seq(Text)
    /\ \A a, b, c \in Text : <<a, b, c>> \in Seq(Text)
    /\ \A a \in Text : a # <<>> => <<Last(a)>> \in Text
    /\ \A a, b, c \in Text : <<a, b>> \o <<c>> \in Seq(Text)
<1>1. ASSUME NEW a \in Text, a # <<>>
      PROVE  <<Last(a)>> \in Text
    BY <1>1 DEF Text, Last
<1> HIDE DEF Text
<1> QED
    BY <1>1

(* Its name is a sequence of texts.                                         *)
LEMMA ItemNames ==
    ASSUME situation \in Situations, Listing, situation.name # None,
           NEW entry \in PageEntry(situation), Item(entry) # None
    PROVE  Item(entry).name \in Seq(Text)
<1>1. /\ situation.op = "list schemas" => situation.name \in Text
      /\ situation.op = "list tables" => situation.name \in Text \X Text
    BY Zenon, SituationsAssumption DEF Listing
<1>2. entry \in PageEntry(situation)
    OBVIOUS
<1>3. CASE situation.op = "list catalogs"
    <2>1. entry \in [name : Text, kind : Texts]
        BY Zenon, <1>2, <1>3 DEF PageEntry
    <2>2. Item(entry) = CatalogItem(entry)
        BY Zenon, <1>3 DEF Item
    <2>3. CatalogItem(entry).name = <<entry.name>>
        BY Zenon DEF CatalogItem
    <2>4. entry.name \in Text
        BY Zenon, <2>1
    <2> QED
        BY Zenon, <2>2, <2>3, <2>4, TextFacts
<1>4. CASE situation.op = "list schemas"
    <2>1. Item(entry) = SchemaItem(entry) /\ situation.name \in Text
        BY Zenon, <1>1, <1>4 DEF Item
    <2>2. CASE Unity
        <3>1. entry \in Text
            BY Zenon, <1>2, <1>4, <2>2 DEF PageEntry, Unity
        <3>2. SchemaItem(entry) # None => SchemaItem(entry).name = <<situation.name, entry>>
            BY Zenon, <2>2 DEF SchemaItem
        <3> QED
            BY Zenon, <2>1, <3>1, <3>2, TextFacts
    <2>3. CASE ~Unity
        <3>1. entry \in Seq(Text)
            BY Zenon, <1>2, <1>4, <2>3 DEF PageEntry, Unity
        <3>2. FlattenSeq(entry) \in Text
            BY <3>1, FlattenedIsSeq DEF Text
        <3>3. SchemaItem(entry) # None => SchemaItem(entry).name = <<situation.name, FlattenSeq(entry)>>
            BY Zenon, <2>3 DEF SchemaItem
        <3> QED
            BY Zenon, <2>1, <3>2, <3>3, TextFacts
    <2> QED
        BY Zenon, <2>2, <2>3
<1>5. CASE situation.op = "list tables"
    <2>1. Item(entry) = TableItem(entry) /\ situation.name \in Text \X Text
        BY Zenon, <1>1, <1>5 DEF Item
    <2>2. /\ situation.name = <<situation.name[1], situation.name[2]>>
          /\ situation.name[1] \in Text /\ situation.name[2] \in Text
        <3>1. \A pair \in Text \X Text : pair = <<pair[1], pair[2]>> /\ pair[1] \in Text /\ pair[2] \in Text
            OBVIOUS
        <3> QED
            BY Zenon, <2>1, <3>1
    <2>3. CASE Unity
        <3> DEFINE full == Else(Some(entry.full), Some(entry.name))
        <3>1. entry \in [full : Text, name : Text, uri : Texts]
            BY Zenon, <1>2, <1>5, <2>3 DEF PageEntry, Unity
        <3>2. TableItem(entry) # None =>
                full # None /\ TableItem(entry).name = situation.name \o << <<Last(full)>> >>
            BY Zenon, <2>3 DEF TableItem
        <3>3. entry.full \in Text /\ entry.name \in Text
            BY Zenon, <3>1
        <3>4. full # None => full \in Text /\ full # <<>>
            BY Zenon, <3>3 DEF Else, Some
        <3> HIDE DEF full
        <3>5. ASSUME full # None
              PROVE  situation.name \o << <<Last(full)>> >> \in Seq(Text)
            <4>1. <<Last(full)>> \in Text
                BY Zenon, <3>4, <3>5, TextFacts
            <4> QED
                BY Zenon, <2>2, <4>1, TextFacts
        <3> QED
            BY Zenon, <2>1, <3>2, <3>5
    <2>4. CASE ~Unity
        <3> DEFINE schema == IF entry.parts = <<>> THEN situation.name[2] ELSE FlattenSeq(entry.parts)
        <3>1. entry \in [parts : Seq(Text), name : Text]
            BY Zenon, <1>2, <1>5, <2>4 DEF PageEntry, Unity
        <3>2. TableItem(entry) # None =>
                TableItem(entry).name = <<situation.name[1], schema, entry.name>>
            BY Zenon, <2>4 DEF TableItem
        <3>3. entry.parts \in Seq(Text) /\ entry.name \in Text
            BY Zenon, <3>1
        <3>4. FlattenSeq(entry.parts) \in Text
            BY <3>3, FlattenedIsSeq DEF Text
        <3>5. situation.name[1] \in Text /\ situation.name[2] \in Text
            BY Zenon, <2>2
        <3>6. schema \in Text
            BY Zenon, <3>4, <3>5
        <3> HIDE DEF schema
        <3> QED
            BY Zenon, <2>1, <3>2, <3>3, <3>5, <3>6, TextFacts
    <2> QED
        BY Zenon, <2>3, <2>4
<1> QED
    BY Zenon, <1>3, <1>4, <1>5 DEF Listing

-----------------------------------------------------------------------------
(* Items that stand for the members of a set, one for each.                *)
Matches(items, S, f, at) ==
    /\ at \in [1..Len(items) -> S]
    /\ \A m, n \in 1..Len(items) : at[m] = at[n] => m = n
    /\ \A e \in S : \E n \in 1..Len(items) : at[n] = e
    /\ \A n \in 1..Len(items) : items[n] = f[at[n]]
Matched(items, S, f) == \E at : Matches(items, S, f, at)

(* As many of them are x as members are for x.                              *)
Times(items, x) == Cardinality({i \in 1..Len(items) : items[i] = x})
Holders(S, f, x) == Cardinality({e \in S : f[e] = x})

LEMMA MatchedCounts ==
    ASSUME NEW items, Len(items) \in Nat, NEW S, NEW f, Matched(items, S, f), NEW x
    PROVE  Times(items, x) = Holders(S, f, x)
<1> DEFINE N == 1..Len(items)
           A == {i \in N : items[i] = x}
           B == {e \in S : f[e] = x}
<1>1. PICK at \in [N -> S] : /\ \A m, n \in N : at[m] = at[n] => m = n
                             /\ \A e \in S : \E n \in N : at[n] = e
                             /\ \A n \in N : items[n] = f[at[n]]
    BY Zenon DEF Matched, Matches
<1>2. IsFiniteSet(A)
    <2>1. IsFiniteSet(N) /\ A \in SUBSET N
        BY FS_Interval
    <2> QED
        BY Zenon, <2>1, FS_Subset
<1> HIDE DEF N
<1> DEFINE h == [i \in A |-> at[i]]
<1>3. h \in [A -> B]
    BY <1>1
<1>4. h \in Injection(A, B)
    BY <1>1, <1>3 DEF Injection, IsInjective
<1>5. h \in Surjection(A, B)
    <2>1. ASSUME NEW e \in B PROVE \E i \in A : h[i] = e
        BY <1>1
    <2> QED
        BY <1>3, <2>1 DEF Surjection
<1>6. ExistsBijection(A, B)
    BY Zenon, <1>4, <1>5 DEF ExistsBijection, Bijection
<1> QED
    BY Zenon, <1>2, <1>6, FS_Bijection DEF N, Times, Holders

LEMMA MatchedItems ==
    ASSUME NEW items, Len(items) \in Nat, NEW S, NEW f, Matched(items, S, f)
    PROVE  /\ \A i \in 1..Len(items) : \E e \in S : items[i] = f[e]
           /\ \A e \in S : \E i \in 1..Len(items) : items[i] = f[e]
<1>1. PICK at : Matches(items, S, f, at)
    BY Zenon DEF Matched
<1> QED
    BY <1>1 DEF Matches

(* In another order, they still do.                                         *)
LEMMA MatchedInOrder ==
    ASSUME NEW items, Len(items) \in Nat, NEW S, NEW f, Matched(items, S, f),
           NEW value, Reordered(value, items)
    PROVE  Matched(value, S, f)
<1> DEFINE N == 1..Len(items)
<1>1. PICK at \in [N -> S] : /\ \A m, n \in N : at[m] = at[n] => m = n
                             /\ \A e \in S : \E n \in N : at[n] = e
                             /\ \A n \in N : items[n] = f[at[n]]
    BY Zenon DEF Matched, Matches
<1>2. PICK p \in [N -> N] : /\ \A r, q \in N : p[r] = p[q] => r = q
                            /\ \A i \in N : \E r \in N : p[r] = i
                            /\ \A r \in N : value[r] = items[p[r]]
    BY Zenon DEF Reordered
<1> HIDE DEF N
<1> DEFINE g == [r \in N |-> at[p[r]]]
<1>3. g \in [N -> S]
    BY <1>1, <1>2
<1>4. \A m, n \in N : g[m] = g[n] => m = n
    BY <1>1, <1>2
<1>5. \A e \in S : \E n \in N : g[n] = e
    BY <1>1, <1>2
<1>6. \A n \in N : value[n] = f[g[n]]
    BY <1>1, <1>2
<1> HIDE DEF g
<1>7. N = 1..Len(value)
    BY Zenon DEF N, Reordered
<1>8. Matches(value, S, f, g)
    BY Zenon, <1>3, <1>4, <1>5, <1>6, <1>7 DEF Matches
<1> QED
    BY Zenon, <1>8 DEF Matched

(* Of another set that b maps theirs onto.                                  *)
Renames(b, S, f, T, g) ==
    /\ b \in [S -> T]
    /\ \A d, e \in S : b[d] = b[e] => d = e
    /\ \A t \in T : \E e \in S : b[e] = t
    /\ \A e \in S : g[b[e]] = f[e]

LEMMA MatchedTo ==
    ASSUME NEW items, NEW S, NEW f, Matched(items, S, f), NEW T, NEW g, NEW b, Renames(b, S, f, T, g)
    PROVE  Matched(items, T, g)
<1> DEFINE N == 1..Len(items)
<1>1. PICK at \in [N -> S] : /\ \A m, n \in N : at[m] = at[n] => m = n
                             /\ \A e \in S : \E n \in N : at[n] = e
                             /\ \A n \in N : items[n] = f[at[n]]
    BY Zenon DEF Matched, Matches
<1>2. /\ b \in [S -> T]
      /\ \A d, e \in S : b[d] = b[e] => d = e
      /\ \A t \in T : \E e \in S : b[e] = t
      /\ \A e \in S : g[b[e]] = f[e]
    BY Zenon DEF Renames
<1> HIDE DEF N
<1> DEFINE h == [r \in N |-> b[at[r]]]
<1>3. h \in [N -> T]
    BY <1>1, <1>2
<1>4. \A m, n \in N : h[m] = h[n] => m = n
    BY <1>1, <1>2
<1>5. \A e \in T : \E n \in N : h[n] = e
    BY <1>1, <1>2
<1>6. \A n \in N : items[n] = g[h[n]]
    BY <1>1, <1>2
<1> HIDE DEF h
<1>8. Matches(items, T, g, h)
    BY Zenon, <1>3, <1>4, <1>5, <1>6 DEF Matches, N
<1> QED
    BY Zenon, <1>8 DEF Matched

(* And with the items of one more page.                                     *)
Joins(all, items, more) ==
    /\ Len(items) \in Nat /\ Len(more) \in Nat /\ Len(all) = Len(items) + Len(more)
    /\ \A n \in 1..Len(items) : all[n] = items[n]
    /\ \A n \in 1..Len(more) : all[Len(items) + n] = more[n]
More(S, k, m) == S \cup {<<k, n>> : n \in 1..m}
Adds(g, f, S, k, more) ==
    /\ \A e \in S : e[1] # k /\ g[e] = f[e]
    /\ \A n \in 1..Len(more) : g[<<k, n>>] = more[n]

LEMMA MatchedMore ==
    ASSUME NEW items, NEW S, NEW f, Matched(items, S, f), NEW more, NEW all, Joins(all, items, more),
           NEW k, NEW g, Adds(g, f, S, k, more)
    PROVE  Matched(all, More(S, k, Len(more)), g)
<1> DEFINE l == Len(items)
           m == Len(more)
           T == More(S, k, m)
<1>1. PICK at \in [1..l -> S] : /\ \A i, n \in 1..l : at[i] = at[n] => i = n
                                /\ \A e \in S : \E n \in 1..l : at[n] = e
                                /\ \A n \in 1..l : items[n] = f[at[n]]
    BY Zenon DEF Matched, Matches
<1>2. /\ l \in Nat /\ m \in Nat /\ Len(all) = l + m
      /\ \A n \in 1..l : all[n] = items[n]
      /\ \A n \in 1..m : all[l + n] = more[n]
      /\ \A n \in 1..m : g[<<k, n>>] = more[n]
      /\ T = S \cup {<<k, n>> : n \in 1..m}
      /\ \A e \in S : e[1] # k /\ g[e] = f[e]
    BY Zenon DEF Joins, Adds, More
<1> HIDE DEF l, m, T
<1> DEFINE h == [n \in 1..l + m |-> IF n <= l THEN at[n] ELSE <<k, n - l>>]
<1>3. ASSUME NEW n \in 1..l + m
      PROVE  IF n <= l THEN n \in 1..l /\ h[n] = at[n] /\ at[n] \in S
             ELSE n - l \in 1..m /\ n = l + (n - l) /\ h[n] = <<k, n - l>>
    BY <1>1, <1>2
<1>4. h \in [1..l + m -> T]
    BY <1>2, <1>3
<1>5. ASSUME NEW i \in 1..l + m, NEW n \in 1..l + m, h[i] = h[n]
      PROVE  i = n
    <2>1. CASE i <= l /\ n <= l
        BY <1>1, <1>3, <1>5, <2>1
    <2>2. CASE i <= l /\ ~(n <= l)
        <3>1. h[i] \in S /\ h[n][1] = k
            BY <1>3, <2>2
        <3> QED
            BY <1>2, <1>5, <3>1
    <2>3. CASE ~(i <= l) /\ n <= l
        <3>1. h[n] \in S /\ h[i][1] = k
            BY <1>3, <2>3
        <3> QED
            BY <1>2, <1>5, <3>1
    <2>4. CASE ~(i <= l) /\ ~(n <= l)
        <3>1. h[i] = <<k, i - l>> /\ h[n] = <<k, n - l>>
            BY <1>3, <2>4
        <3>2. i - l = n - l
            BY <1>5, <3>1
        <3> QED
            BY <1>2, <3>2
    <2> QED
        BY <2>1, <2>2, <2>3, <2>4
<1>6. ASSUME NEW e \in T
      PROVE  \E n \in 1..l + m : h[n] = e
    <2>1. CASE e \in S
        <3>1. PICK n \in 1..l : at[n] = e
            BY <1>1, <2>1
        <3>2. n \in 1..l + m /\ n <= l
            BY <1>2
        <3> QED
            BY <1>3, <3>1, <3>2
    <2>2. CASE e \notin S
        <3>1. PICK n \in 1..m : e = <<k, n>>
            BY <1>2, <2>2
        <3>2. l + n \in 1..l + m /\ ~(l + n <= l) /\ (l + n) - l = n
            BY <1>2
        <3> QED
            BY <1>3, <3>1, <3>2
    <2> QED
        BY <2>1, <2>2
<1>7. ASSUME NEW n \in 1..l + m
      PROVE  all[n] = g[h[n]]
    <2>1. CASE n <= l
        <3>1. n \in 1..l /\ h[n] = at[n] /\ at[n] \in S
            BY <1>3, <2>1
        <3>2. all[n] = items[n] /\ items[n] = f[at[n]] /\ g[at[n]] = f[at[n]]
            BY <1>1, <1>2, <3>1
        <3> QED
            BY <3>1, <3>2
    <2>2. CASE ~(n <= l)
        <3>1. n - l \in 1..m /\ n = l + (n - l) /\ h[n] = <<k, n - l>>
            BY <1>3, <2>2
        <3>2. all[l + (n - l)] = more[n - l] /\ g[<<k, n - l>>] = more[n - l]
            BY Zenon, <1>2, <3>1
        <3> QED
            BY Zenon, <3>1, <3>2
    <2> QED
        BY <2>1, <2>2
<1> HIDE DEF h
<1>8. Matches(all, T, g, h)
    BY Zenon, <1>2, <1>4, <1>5, <1>6, <1>7 DEF Matches
<1> QED
    BY Zenon, <1>8 DEF Matched, T, m

-----------------------------------------------------------------------------
(* Listings: the pages a walk over the tokens has read, and what they hold. *)

Asked(k)     == heard[k].call.token
PageHeard(k) == heard[k].answer.body
NextAsked    == IF heard = <<>> THEN None ELSE NextToken(PageHeard(Len(heard)))

EntriesHeard == UNION {{k} \X (1..Len(PageHeard(k).entries)) : k \in 1..Len(heard)}
HeardItem(e) == Item(PageHeard(e[1]).entries[e[2]])
ItemsHeard   == [e \in EntriesHeard |-> HeardItem(e)]

(* A page is the collection's, the first or the one the last one leads to.  *)
PageIsHeard(k) == /\ Asked(k) \in DOMAIN situation.pages
                  /\ PageHeard(k) = situation.pages[Asked(k)]
Linked(k)      == NextToken(PageHeard(k)) # None /\ Asked(k + 1) = NextToken(PageHeard(k))
Walked == /\ \A k \in 1..Len(heard) : PageIsHeard(k)
          /\ heard # <<>> => Asked(1) = None
          /\ \A k \in 1..Len(heard) - 1 : Linked(k)

(* What is listed stands for the entries of these pages.                    *)
Gathered == /\ listed \in Seq(ToSet(listed))
            /\ \A n \in 1..Len(listed) : listed[n] # None
            /\ Matched(listed, EntriesHeard, ItemsHeard)

NameGiven == waiting # {} \/ heard # <<>> => situation.name # None
Asking    == waiting # {} => /\ waiting = {Page(NextAsked)}
                             /\ heard # <<>> => NextAsked # None
Ended     == Ok /\ heard # <<>> => NextAsked = None /\ result.value = Sorted(listed)
Fails(answer) ==
    \/ answer.status # "200" \/ answer.body = None
    \/ \E i \in DOMAIN answer.body.entries : Item(answer.body.entries[i]) = None
Refusal   == result # None /\ ~Ok /\ heard # <<>> => Fails(LastHeard.answer)

ListInv == Listing => /\ NameGiven /\ Asking /\ Ended /\ Refusal
                      /\ waiting # {} \/ heard = <<>> \/ Ok => Walked /\ Gathered

LEMMA PageParts == \A token : Page(token).route = "page" /\ Page(token).token = token
BY DEF Page

(* The tokens and pages of a collection.                                    *)
LEMMA CollectionFacts ==
    ASSUME situation \in Situations, Listing, situation.name # None
    PROVE  /\ None \in DOMAIN situation.pages
           /\ \A t \in DOMAIN situation.pages :
                 /\ situation.pages[t].entries \in Seq(PageEntry(situation))
                 /\ NextToken(situation.pages[t]) # None =>
                      NextToken(situation.pages[t]) \in DOMAIN situation.pages
           /\ \A tokens \in SUBSET DOMAIN situation.pages :
                 None \in tokens /\ Follows(situation.pages, tokens) => tokens = DOMAIN situation.pages
<1>1. /\ Collected(situation.pages)
      /\ \A t \in DOMAIN situation.pages : situation.pages[t].entries \in Seq(PageEntry(situation))
    BY Zenon, SituationsAssumption DEF Listing
<1>2. Follows(situation.pages, DOMAIN situation.pages)
    BY Zenon, <1>1 DEF Collected
<1>3. \A t \in DOMAIN situation.pages : NextToken(situation.pages[t]) # None =>
        NextToken(situation.pages[t]) \in DOMAIN situation.pages
    BY Zenon, <1>2 DEF Follows, NextToken
<1> QED
    BY Zenon, <1>1, <1>3 DEF Collected

(* What a listing waits for while it runs.                                  *)
LEMMA ListBefore ==
    ASSUME HeardInv, Listing, ListInv, NEW call, NEW answer, Hear(call, answer)
    PROVE  /\ result = None /\ situation.name # None /\ Walked /\ Gathered
           /\ call = Page(NextAsked) /\ call.route = "page" /\ call.token = NextAsked
           /\ NextAsked \in DOMAIN situation.pages
           /\ heard # <<>> => NextAsked # None
<1>1. result = None /\ call \in waiting /\ waiting # {}
    BY Zenon DEF Hear
<1>2. Walked /\ Gathered /\ situation.name # None
    BY Zenon, <1>1 DEF ListInv, NameGiven
<1>3. call = Page(NextAsked) /\ (heard # <<>> => NextAsked # None)
    <2>1. Asking
        BY Zenon DEF ListInv
    <2> QED
        BY <1>1, <2>1 DEF Asking
<1>4. NextAsked \in DOMAIN situation.pages
    <2>0. situation \in Situations /\ Len(heard) \in Nat /\ (heard # <<>> => Len(heard) # 0)
        BY LenProperties DEF HeardInv
    <2>1. CASE heard = <<>>
        BY Zenon, <1>2, <2>0, <2>1, CollectionFacts DEF NextAsked
    <2>2. CASE heard # <<>>
        <3>1. Len(heard) \in 1..Len(heard)
            BY <2>0, <2>2
        <3>2. PageHeard(Len(heard)) = situation.pages[Asked(Len(heard))] /\ Asked(Len(heard)) \in DOMAIN situation.pages
            BY Zenon, <1>2, <3>1 DEF Walked, PageIsHeard
        <3>3. NextAsked = NextToken(situation.pages[Asked(Len(heard))])
            BY Zenon, <2>2, <3>2 DEF NextAsked
        <3> QED
            BY Zenon, <1>2, <1>3, <2>0, <2>2, <3>2, <3>3, CollectionFacts
    <2> QED
        BY Zenon, <2>1, <2>2
<1> QED
    BY Zenon, <1>1, <1>2, <1>3, <1>4, PageParts

(* What is heard after an answer.                                           *)
LEMMA ListHears ==
    ASSUME HeardInv, NEW call, NEW answer, Hear(call, answer)
    PROVE  /\ HeardInv' /\ situation' = situation /\ heard' # <<>>
           /\ Len(heard) \in Nat /\ Len(heard') = Len(heard) + 1
           /\ \A k \in 1..Len(heard) : Asked(k)' = Asked(k) /\ PageHeard(k)' = PageHeard(k)
           /\ \A k : k = Len(heard) + 1 => Asked(k)' = call.token /\ PageHeard(k)' = answer.body
           /\ LastHeard'.answer = answer
           /\ \A entry : Item(entry)' = Item(entry)
<1>1. /\ HeardInv' /\ situation' = situation
      /\ LastHeard' = [call |-> call, answer |-> answer]
      /\ Len(heard) \in Nat /\ Len(heard') = Len(heard) + 1
      /\ \A i \in 1..Len(heard) : heard'[i] = heard[i]
    BY Zenon, HearFacts
<1>2. heard' # <<>>
    <2>1. Len(heard') # 0
        BY <1>1
    <2>2. Len(<<>>) = 0
        OBVIOUS
    <2> QED
        BY Zenon, <2>1, <2>2
<1>3. heard'[Len(heard')] = [call |-> call, answer |-> answer]
    BY Zenon, <1>1 DEF LastHeard
<1>4. \A entry : Item(entry)' = Item(entry)
    BY Zenon, <1>1 DEF Item, CatalogItem, SchemaItem, TableItem, Unity
<1>5. \A k \in 1..Len(heard) : Asked(k)' = Asked(k) /\ PageHeard(k)' = PageHeard(k)
    BY Zenon, <1>1 DEF Asked, PageHeard
<1>6. ASSUME NEW k, k = Len(heard) + 1
      PROVE  Asked(k)' = call.token /\ PageHeard(k)' = answer.body
    BY <1>1, <1>3, <1>6 DEF Asked, PageHeard
<1>7. LastHeard'.answer = answer
    BY <1>1
<1> QED
    BY Zenon, <1>1, <1>2, <1>4, <1>5, <1>6, <1>7

(* A command that fails, for what it heard last.                            *)
LEMMA ListFails ==
    ASSUME HeardInv, Listing, ListInv, NEW call, NEW answer, Hear(call, answer),
           NEW reason, Fail(reason), reason # None, Fails(answer)
    PROVE  ListInv'
<1>1. /\ situation' = situation /\ LastHeard'.answer = answer /\ situation.name # None
      /\ heard' # <<>> /\ \A entry : Item(entry)' = Item(entry)
    BY Zenon, ListBefore, ListHears
<1>2. waiting' = {} /\ ~Ok'
    BY Zenon, FailFacts
<1>3. Refusal'
    BY Zenon, <1>1 DEF Refusal, Fails
<1>4. NameGiven' /\ Asking' /\ Ended'
    BY Zenon, <1>1, <1>2 DEF NameGiven, Asking, Ended
<1> QED
    BY Zenon, <1>1, <1>2, <1>3, <1>4 DEF ListInv

LEMMA ListRefused ==
    ASSUME HeardInv, Listing, ListInv, NEW call \in waiting, NEW answer, Refused(call, answer)
    PROVE  ListInv'
<1>1. Hear(call, answer)
    BY Zenon DEF Refused
<1>2. call.route = "page"
    BY Zenon, <1>1, ListBefore
<1>3. Fail(JsonError(answer)) /\ JsonError(answer) # None
    BY Zenon, <1>2 DEF Refused
<1>4. answer.status # "200" \/ answer.body = None
    BY <1>3 DEF JsonError
<1>5. Fails(answer)
    BY Zenon, <1>4 DEF Fails
<1> QED
    BY Zenon, <1>1, <1>3, <1>5, ListFails

(* The items of the entries of a page.                                      *)
PageItems(entries) == [i \in 1..Len(entries) |-> Item(entries[i])]

LEMMA PageItemsFacts ==
    ASSUME NEW S, NEW entries \in Seq(S)
    PROVE  /\ Len(entries) \in Nat /\ Len(PageItems(entries)) = Len(entries)
           /\ PageItems(entries) \in Seq(ToSet(PageItems(entries)))
           /\ \A i \in 1..Len(entries) : PageItems(entries)[i] = Item(entries[i])
           /\ DOMAIN entries = 1..Len(entries)
<1> DEFINE items == PageItems(entries)
           n == Len(entries)
<1>1. n \in Nat /\ DOMAIN entries = 1..n
    BY LenProperties
<1>2. items = [i \in 1..n |-> Item(entries[i])]
    BY Zenon DEF PageItems
<1> HIDE DEF items, n
<1>3. DOMAIN items = 1..n /\ \A i \in 1..n : items[i] = Item(entries[i])
    BY Zenon, <1>2
<1>4. items = [i \in 1..n |-> items[i]]
    BY <1>2
<1>5. Len(items) = n
    BY Zenon, <1>1, <1>3, <1>4, FcnLen
<1>6. \A i \in 1..n : items[i] \in ToSet(items)
    BY Zenon, <1>3 DEF ToSet
<1>7. items \in [1..n -> ToSet(items)]
    BY Zenon, <1>4, <1>6
<1>8. items \in Seq(ToSet(items))
    BY <1>1, <1>7
<1> QED
    BY Zenon, <1>1, <1>3, <1>5, <1>8 DEF items, n

LEMMA FcnIsSeq ==
    ASSUME NEW n \in Nat, NEW S, NEW f \in [1..n -> S]
    PROVE  f \in Seq(S)
OBVIOUS

LEMMA JoinedFacts ==
    ASSUME NEW s, s \in Seq(ToSet(s)), NEW t, t \in Seq(ToSet(t)), NEW u, u = s \o t
    PROVE  Joins(u, s, t) /\ u \in Seq(ToSet(u))
<1> DEFINE S == ToSet(s) \cup ToSet(t)
<1>1. s \in Seq(S) /\ t \in Seq(S)
    <2>1. ToSet(s) \subseteq S /\ ToSet(t) \subseteq S
        OBVIOUS
    <2> HIDE DEF S
    <2> QED
        BY <2>1
<1> HIDE DEF S
<1>2. /\ Len(s) \in Nat /\ Len(t) \in Nat /\ Len(u) = Len(s) + Len(t) /\ u \in Seq(S)
      /\ \A n \in 1..Len(s) : u[n] = s[n]
      /\ \A n \in 1..Len(t) : u[Len(s) + n] = t[n]
    BY <1>1
<1>3. Len(u) \in Nat /\ DOMAIN u = 1..Len(u) /\ u \in [1..Len(u) -> S]
    BY <1>2, LenProperties
<1>4. u \in [1..Len(u) -> ToSet(u)]
    BY <1>3 DEF ToSet
<1>5. u \in Seq(ToSet(u))
    BY Zenon, <1>3, <1>4, FcnIsSeq
<1> QED
    BY Zenon, <1>2, <1>5 DEF Joins

(* The entries read with one page more.                                     *)
LEMMA EntriesMore ==
    ASSUME NEW l \in Nat, Len(heard) = l, Len(heard') = l + 1,
           \A k \in 1..l : PageHeard(k)' = PageHeard(k),
           NEW entries, Len(entries) \in Nat,
           \A k : k = l + 1 => (PageHeard(k)').entries = entries,
           \A entry : Item(entry)' = Item(entry)
    PROVE  /\ EntriesHeard' = More(EntriesHeard, l + 1, Len(entries))
           /\ Adds(ItemsHeard', ItemsHeard, EntriesHeard, l + 1, PageItems(entries))
<1>1. \A k : k \in 1..Len(heard') <=> k \in 1..l \/ k = l + 1
    OBVIOUS
<1>2. \A k \in 1..l : k # l + 1
    OBVIOUS
<1>3. \A e : e \in EntriesHeard <=> \E k \in 1..l : e \in {k} \X (1..Len(PageHeard(k).entries))
    BY Zenon DEF EntriesHeard
<1>4. \A e : e \in EntriesHeard' <=> \E k \in 1..Len(heard') : e \in {k} \X (1..Len((PageHeard(k)').entries))
    BY Zenon DEF EntriesHeard
<1> DEFINE more == {<<l + 1, n>> : n \in 1..Len(entries)}
<1>5. \A e : e \in more <=> e \in {l + 1} \X (1..Len(entries))
    OBVIOUS
<1>6. \A e : e \in EntriesHeard' <=> e \in EntriesHeard \/ e \in more
    <2> HIDE DEF more
    <2>1. \A k : k = l + 1 => (PageHeard(k)').entries = entries
        BY Zenon
    <2>2. \A k \in 1..l : (PageHeard(k)').entries = PageHeard(k).entries
        BY Zenon
    <2>3. ASSUME NEW e \in EntriesHeard'
          PROVE  e \in EntriesHeard \/ e \in more
        <3>1. PICK k \in 1..Len(heard') : e \in {k} \X (1..Len((PageHeard(k)').entries))
            BY Zenon, <1>4
        <3> QED
            BY Zenon, <1>1, <1>3, <1>5, <2>1, <2>2, <3>1
    <2>4. ASSUME NEW e, e \in EntriesHeard \/ e \in more
          PROVE  e \in EntriesHeard'
        <3>1. CASE e \in EntriesHeard
            BY Zenon, <1>1, <1>3, <1>4, <2>2, <3>1
        <3>2. CASE e \in more
            BY Zenon, <1>1, <1>4, <1>5, <2>1, <3>2
        <3> QED
            BY Zenon, <2>4, <3>1, <3>2
    <2> QED
        BY Zenon, <2>3, <2>4
<1>7. ASSUME NEW e \in EntriesHeard
      PROVE  e[1] # l + 1 /\ ItemsHeard'[e] = ItemsHeard[e]
    <2>1. PICK k \in 1..l : e \in {k} \X (1..Len(PageHeard(k).entries))
        BY Zenon, <1>3
    <2>2. e[1] = k
        BY <2>1
    <2>3. e[1] \in 1..l /\ e[1] # l + 1
        BY Zenon, <1>2, <2>1, <2>2
    <2>4. PageHeard(e[1])' = PageHeard(e[1])
        BY Zenon, <2>1, <2>2
    <2>5. HeardItem(e)' = HeardItem(e)
        BY Zenon, <2>4 DEF HeardItem
    <2>6. e \in EntriesHeard'
        BY Zenon, <1>6
    <2>7. ItemsHeard'[e] = HeardItem(e)' /\ ItemsHeard[e] = HeardItem(e)
        BY Zenon, <2>6 DEF ItemsHeard
    <2> QED
        BY Zenon, <2>3, <2>5, <2>7
<1>8. ASSUME NEW n \in 1..Len(entries)
      PROVE  ItemsHeard'[<<l + 1, n>>] = Item(entries[n])
    <2> DEFINE e == <<l + 1, n>>
    <2>1. e \in EntriesHeard'
        BY Zenon, <1>6
    <2>2. e[1] = l + 1 /\ e[2] = n
        OBVIOUS
    <2> HIDE DEF e
    <2>3. (PageHeard(e[1])').entries = entries
        BY Zenon, <2>2
    <2>4. HeardItem(e)' = Item(entries[n])
        BY Zenon, <2>2, <2>3 DEF HeardItem
    <2> QED
        BY Zenon, <2>1, <2>4 DEF ItemsHeard, e
<1>9. EntriesHeard' = EntriesHeard \cup more
    <2> HIDE DEF more
    <2> QED
        BY <1>6
<1>10. Len(PageItems(entries)) = Len(entries) /\ \A n \in 1..Len(entries) : PageItems(entries)[n] = Item(entries[n])
    <2> DEFINE m == Len(entries)
               items == PageItems(entries)
    <2>1. items = [i \in 1..m |-> Item(entries[i])]
        BY Zenon DEF PageItems
    <2> HIDE DEF items, m
    <2>2. DOMAIN items = 1..m /\ (\A i \in 1..m : items[i] = Item(entries[i])) /\ items = [i \in 1..m |-> items[i]]
        BY <2>1
    <2> QED
        BY Zenon, <2>2, FcnLen DEF items, m
<1> QED
    BY Zenon, <1>7, <1>8, <1>9, <1>10 DEF More, Adds

LEMMA ListRead ==
    ASSUME HeardInv, Listing, ListInv, NEW call, NEW answer \in Answers(call), ListPage(call, answer)
    PROVE  ListInv'
<1> DEFINE n == Len(heard)
           page == answer.body
           items == PageItems(page.entries)
<1>1. /\ Hear(call, answer) /\ JsonError(answer) = None
      /\ \/ Contains(items, None) /\ Fail("malformed")
         \/ /\ ~Contains(items, None) /\ listed' = listed \o items
            /\ \/ NextToken(page) = None /\ Return(Sorted(listed'))
               \/ NextToken(page) # None /\ Then(call, {Page(NextToken(page))}) /\ result' = result
    BY Zenon DEF ListPage, PageItems
<1>2. /\ result = None /\ situation.name # None /\ Walked /\ Gathered
      /\ call.route = "page" /\ call.token = NextAsked /\ call = Page(NextAsked)
      /\ NextAsked \in DOMAIN situation.pages /\ (heard # <<>> => NextAsked # None)
    BY Zenon, <1>1, ListBefore
<1>3. /\ HeardInv' /\ situation' = situation /\ heard' # <<>>
      /\ n \in Nat /\ Len(heard') = n + 1
      /\ \A k \in 1..n : Asked(k)' = Asked(k) /\ PageHeard(k)' = PageHeard(k)
      /\ \A k : k = n + 1 => Asked(k)' = call.token /\ PageHeard(k)' = page
      /\ \A entry : Item(entry)' = Item(entry)
    BY Zenon, <1>1, ListHears
<1>4. page # None
    BY <1>1, BodiesFacts
<1>5. page = situation.pages[NextAsked]
    BY Zenon, <1>2, <1>4, PageAnswer
<1>6. page.entries \in Seq(PageEntry(situation))
    BY Zenon, <1>2, <1>5, CollectionFacts DEF HeardInv
<1>7. /\ Len(page.entries) \in Nat /\ Len(items) = Len(page.entries)
      /\ items \in Seq(ToSet(items))
      /\ \A i \in 1..Len(page.entries) : items[i] = Item(page.entries[i])
      /\ DOMAIN page.entries = 1..Len(page.entries)
    BY Zenon, <1>6, PageItemsFacts
<1> HIDE DEF n, page, items
<1>8. CASE Contains(items, None)
    <2>1. Fails(answer)
        BY Zenon, <1>7, <1>8 DEF Contains, Fails, page
    <2>2. Fail("malformed") /\ "malformed" # None
        BY <1>1, <1>8, NoneAssumption DEF Reasons
    <2> QED
        BY Zenon, <1>1, <2>1, <2>2, ListFails DEF page
<1>9. CASE ~Contains(items, None)
    <2>1. /\ listed' = listed \o items
          /\ \/ NextToken(page) = None /\ Return(Sorted(listed'))
             \/ NextToken(page) # None /\ Then(call, {Page(NextToken(page))}) /\ result' = result
        BY Zenon, <1>1, <1>9
    <2>2. Walked'
        <3>1. ASSUME NEW k \in 1..Len(heard') PROVE PageIsHeard(k)'
            <4>1. CASE k \in 1..n
                BY Zenon, <1>2, <1>3, <4>1 DEF PageIsHeard, Walked, n
            <4>2. CASE k = n + 1
                BY Zenon, <1>2, <1>3, <1>5, <4>2 DEF PageIsHeard
            <4> QED
                BY <1>3, <4>1, <4>2
        <3>2. Asked(1)' = None
            <4>1. CASE n = 0
                <5>1. heard = <<>>
                    BY <1>3, <4>1 DEF n, HeardInv
                <5>2. 1 = n + 1
                    BY <4>1
                <5> QED
                    BY Zenon, <1>2, <1>3, <5>1, <5>2 DEF NextAsked
            <4>2. CASE n # 0
                <5>1. heard # <<>>
                    BY <4>2 DEF n
                <5>2. 1 \in 1..n
                    BY <1>3, <4>2
                <5> QED
                    BY Zenon, <1>2, <1>3, <5>1, <5>2 DEF Walked
            <4> QED
                BY Zenon, <4>1, <4>2
        <3>3. ASSUME NEW k \in 1..Len(heard') - 1 PROVE Linked(k)'
            <4>1. k \in 1..n
                BY <1>3
            <4>2. PageHeard(k)' = PageHeard(k)
                BY Zenon, <1>3, <4>1
            <4>3. CASE k = n
                <5>1. heard # <<>> /\ k + 1 = n + 1
                    BY <1>3, <4>1, <4>3 DEF n
                <5>2. NextAsked = NextToken(PageHeard(k)) /\ NextAsked # None
                    BY Zenon, <1>2, <4>3, <5>1 DEF NextAsked, n
                <5>3. Asked(k + 1)' = NextAsked
                    BY Zenon, <1>2, <1>3, <5>1
                <5> QED
                    BY Zenon, <4>2, <5>2, <5>3 DEF Linked
            <4>4. CASE k # n
                <5>1. k \in 1..n - 1 /\ k + 1 \in 1..n
                    BY <1>3, <4>1, <4>4
                <5>2. Linked(k) /\ Asked(k + 1)' = Asked(k + 1)
                    BY Zenon, <1>2, <1>3, <5>1 DEF Walked, n
                <5> QED
                    BY Zenon, <4>2, <5>2 DEF Linked
            <4> QED
                BY Zenon, <4>3, <4>4
        <3> QED
            BY Zenon, <3>1, <3>2, <3>3 DEF Walked
    <2>3. Gathered'
        <3>0. Joins(listed', listed, items) /\ listed' \in Seq(ToSet(listed'))
            <4>1. listed \in Seq(ToSet(listed))
                BY Zenon, <1>2 DEF Gathered
            <4> QED
                BY Zenon, <1>7, <2>1, <4>1, JoinedFacts
        <3>1. /\ Len(listed) \in Nat /\ Len(items) \in Nat /\ Len(listed') = Len(listed) + Len(items)
              /\ \A i \in 1..Len(listed) : listed'[i] = listed[i]
              /\ \A i \in 1..Len(items) : listed'[Len(listed) + i] = items[i]
            BY Zenon, <3>0 DEF Joins
        <3>2. ASSUME NEW i \in 1..Len(listed') PROVE listed'[i] # None
            <4>1. CASE i <= Len(listed)
                <5>1. i \in 1..Len(listed)
                    BY <3>1, <4>1
                <5> QED
                    BY Zenon, <1>2, <3>1, <5>1 DEF Gathered
            <4>2. CASE ~(i <= Len(listed))
                <5>1. i - Len(listed) \in 1..Len(items) /\ i = Len(listed) + (i - Len(listed))
                    BY <3>1, <4>2
                <5>2. listed'[i] = items[i - Len(listed)]
                    BY Zenon, <3>1, <5>1
                <5> QED
                    BY Zenon, <1>9, <5>1, <5>2 DEF Contains
            <4> QED
                BY Zenon, <4>1, <4>2
        <3>3. /\ EntriesHeard' = More(EntriesHeard, n + 1, Len(page.entries))
              /\ Adds(ItemsHeard', ItemsHeard, EntriesHeard, n + 1, items)
            <4>1. \A k : k = n + 1 => (PageHeard(k)').entries = page.entries
                BY Zenon, <1>3
            <4>2. Len(heard) = n
                BY Zenon DEF n
            <4> QED
                BY Zenon, <1>3, <1>7, <4>1, <4>2, EntriesMore DEF items
        <3>4. Matched(listed, EntriesHeard, ItemsHeard)
            BY Zenon, <1>2 DEF Gathered
        <3>5. Matched(listed', EntriesHeard', ItemsHeard')
            BY Zenon, <1>7, <3>0, <3>3, <3>4, MatchedMore
        <3> QED
            BY Zenon, <3>0, <3>2, <3>5 DEF Gathered
    <2>4. NextAsked' = NextToken(page)
        <3>1. ASSUME NEW k, k = n + 1
              PROVE  heard'[k].answer.body = page
            BY Zenon, <1>3, <3>1 DEF PageHeard
        <3>2. heard'[n + 1].answer.body = page
            BY Zenon, <3>1
        <3> QED
            BY Zenon, <1>3, <3>2 DEF NextAsked, PageHeard
    <2>5. CASE NextToken(page) = None /\ Return(Sorted(listed'))
        <3>1. waiting' = {} /\ result'.value = Sorted(listed')
            BY Zenon, <2>5, ReturnFacts
        <3>2. result'.error = None
            BY <2>5 DEF Return, Finish
        <3>3. Ended' /\ NameGiven' /\ Asking'
            BY Zenon, <1>2, <1>3, <2>4, <2>5, <3>1 DEF Ended, NameGiven, Asking
        <3>4. Refusal'
            BY Zenon, <3>2 DEF Refusal, Ok
        <3> QED
            BY Zenon, <2>2, <2>3, <3>3, <3>4 DEF ListInv
    <2>6. CASE NextToken(page) # None /\ Then(call, {Page(NextToken(page))}) /\ result' = result
        <3>1. waiting' = {Page(NextAsked)'}
            <4>1. waiting = {call}
                BY Zenon, <1>1, <1>2 DEF ListInv, Asking, Hear
            <4>2. waiting' = (waiting \ {call}) \cup {Page(NextToken(page))}
                BY Zenon, <2>6 DEF Then
            <4>3. waiting' = {Page(NextToken(page))}
                BY <4>1, <4>2
            <4> QED
                BY Zenon, <2>4, <4>3
        <3>2. ~Ok' /\ result' = None
            BY Zenon, <1>2, <2>6 DEF Ok
        <3>3. NameGiven'
            BY Zenon, <1>2, <1>3 DEF NameGiven
        <3>4. Asking'
            BY Zenon, <2>4, <2>6, <3>1 DEF Asking
        <3>5. Ended' /\ Refusal'
            BY Zenon, <3>2 DEF Ended, Refusal
        <3> QED
            BY Zenon, <2>2, <2>3, <3>3, <3>4, <3>5 DEF ListInv
    <2> QED
        BY Zenon, <2>1, <2>5, <2>6
<1> QED
    BY Zenon, <1>8, <1>9

(* A listing starts with the first page, and goes on with two of the steps. *)
LEMMA ListingSteps ==
    ASSUME Listing, NEW call, call.route = "page", NEW answer
    PROVE  /\ ~GetOne(call, answer) /\ ~TableRecordRead(call, answer) /\ ~MetadataRead(call, answer)
           /\ ~LoadTable(call, answer) /\ ~CheckRecord(call, answer) /\ ~VendRecord(call, answer)
           /\ ~Vend(call, answer)
BY Zenon DEF GetOne, TableRecordRead, MetadataRead, LoadTable, CheckRecord, VendRecord, Vend

LEMMA ItemStays ==
    ASSUME situation' = situation, NEW entry
    PROVE  Item(entry)' = Item(entry)
BY Zenon DEF Item, CatalogItem, SchemaItem, TableItem, Unity

LEMMA HeardStays ==
    ASSUME heard' = heard, situation' = situation
    PROVE  /\ EntriesHeard' = EntriesHeard /\ ItemsHeard' = ItemsHeard /\ Walked' = Walked
           /\ (Fails(LastHeard.answer)' <=> Fails(LastHeard.answer))
<1>1. EntriesHeard' = EntriesHeard
    BY Zenon DEF EntriesHeard, PageHeard
<1>2. \A e : HeardItem(e)' = HeardItem(e)
    BY Zenon, ItemStays DEF HeardItem, PageHeard
<1>3. ItemsHeard' = ItemsHeard
    BY Zenon, <1>1, <1>2 DEF ItemsHeard
<1>4. Walked' = Walked
    BY Zenon DEF Walked, PageIsHeard, Linked, Asked, PageHeard
<1>5. Fails(LastHeard.answer)' <=> Fails(LastHeard.answer)
    <2> DEFINE entries == LastHeard.answer.body.entries
    <2>1. \A i : Item(entries[i])' = Item(entries[i])
        BY Zenon, ItemStays DEF LastHeard
    <2> QED
        BY Zenon, <2>1 DEF Fails, LastHeard
<1> QED
    BY Zenon, <1>1, <1>3, <1>4, <1>5

LEMMA ListStart ==
    ASSUME HeardInv, Listing, ListInv, Start
    PROVE  ListInv'
<1>1. /\ result = None /\ waiting = {} /\ heard = <<>> /\ heard' = heard /\ situation' = situation
      /\ listed' = listed
      /\ \/ Fail("name")
         \/ situation.name # None /\ Then(None, FirstCalls) /\ result' = result
    BY Zenon DEF Start, Listing
<1>2. Walked /\ Gathered
    BY Zenon, <1>1 DEF ListInv
<1>3. EntriesHeard' = EntriesHeard /\ ItemsHeard' = ItemsHeard
    BY Zenon, <1>1, HeardStays
<1>4. Walked' /\ Gathered'
    <2>1. Walked'
        BY Zenon, <1>1, <1>2, HeardStays
    <2>2. Gathered'
        BY Zenon, <1>1, <1>2, <1>3 DEF Gathered
    <2> QED
        BY <2>1, <2>2
<1>5. Ended' /\ Refusal'
    BY Zenon, <1>1 DEF Ended, Refusal
<1>6. NextAsked' = None
    BY Zenon, <1>1 DEF NextAsked
<1>7. CASE Fail("name")
    <2>1. waiting' = {}
        BY Zenon, <1>7 DEF Fail, Finish
    <2> QED
        BY Zenon, <1>1, <1>4, <1>5, <2>1 DEF ListInv, NameGiven, Asking
<1>8. CASE situation.name # None /\ Then(None, FirstCalls) /\ result' = result
    <2>1. FirstCalls = {Page(None)}
        BY Zenon DEF FirstCalls, Listing
    <2>2. waiting' = (waiting \ {None}) \cup FirstCalls
        BY Zenon, <1>8 DEF Then
    <2>3. waiting' = {Page(None)}
        BY <1>1, <2>1, <2>2
    <2>4. Asking'
        BY Zenon, <1>1, <1>6, <2>3 DEF Asking
    <2>5. NameGiven'
        BY Zenon, <1>1, <1>8 DEF NameGiven
    <2> QED
        BY Zenon, <1>4, <1>5, <2>4, <2>5 DEF ListInv
<1> QED
    BY Zenon, <1>1, <1>7, <1>8

LEMMA ListUnchanged ==
    ASSUME HeardInv, ListInv, UNCHANGED vars
    PROVE  HeardInv' /\ ListInv'
<1>1. /\ situation' = situation /\ waiting' = waiting /\ heard' = heard /\ listed' = listed
      /\ result' = result
    BY DEF vars
<1>2. HeardInv'
    BY <1>1 DEF HeardInv
<1>3. Listing' = Listing /\ Ok' = Ok
    BY Zenon, <1>1 DEF Listing, Ok
<1>4. EntriesHeard' = EntriesHeard /\ ItemsHeard' = ItemsHeard
    BY Zenon, <1>1, HeardStays
<1>5. Walked' = Walked
    BY Zenon, <1>1, HeardStays
<1>6. Gathered' = Gathered
    BY Zenon, <1>1, <1>4 DEF Gathered
<1>7. NameGiven' = NameGiven /\ Asking' = Asking
    BY Zenon, <1>1 DEF NameGiven, Asking, NextAsked, PageHeard
<1>8. Ended' = Ended
    BY Zenon, <1>1, <1>3 DEF Ended, NextAsked, PageHeard
<1>9. Refusal' = Refusal
    BY Zenon, <1>1, <1>3, HeardStays DEF Refusal
<1> QED
    BY Zenon, <1>1, <1>2, <1>3, <1>5, <1>6, <1>7, <1>8, <1>9 DEF ListInv

LEMMA ListNext ==
    ASSUME HeardInv, ListInv, [Next]_vars
    PROVE  HeardInv' /\ ListInv'
<1>1. CASE Start
    <2>1. situation' = situation /\ heard' = heard
        BY Zenon, <1>1 DEF Start
    <2>2. HeardInv'
        BY <2>1 DEF HeardInv
    <2>3. Listing' = Listing
        BY Zenon, <2>1 DEF Listing
    <2> QED
        BY Zenon, <1>1, <2>2, <2>3, ListStart DEF ListInv
<1>2. ASSUME NEW call \in waiting, NEW answer \in Answers(call),
             \/ Refused(call, answer) \/ ListPage(call, answer) \/ GetOne(call, answer)
             \/ TableRecordRead(call, answer) \/ MetadataRead(call, answer)
             \/ LoadTable(call, answer)
             \/ CheckRecord(call, answer) \/ VendRecord(call, answer) \/ Vend(call, answer)
      PROVE  HeardInv' /\ ListInv'
    <2>1. Hear(call, answer)
        BY Zenon, <1>2, CallStep
    <2>2. HeardInv' /\ situation' = situation
        BY Zenon, <2>1, HearFacts
    <2>3. Listing' = Listing
        BY Zenon, <2>2 DEF Listing
    <2>4. CASE Listing
        <3>1. call.route = "page"
            BY Zenon, <2>1, <2>4, ListBefore
        <3>2. Refused(call, answer) \/ ListPage(call, answer)
            BY Zenon, <1>2, <2>4, <3>1, ListingSteps
        <3>3. ListInv'
            BY Zenon, <2>4, <3>2, ListRefused, ListRead
        <3> QED
            BY Zenon, <2>2, <3>3
    <2> QED
        BY Zenon, <2>2, <2>3, <2>4 DEF ListInv
<1>3. CASE Done
    BY Zenon, <1>3, ListUnchanged DEF Done
<1>4. CASE UNCHANGED vars
    BY Zenon, <1>4, ListUnchanged
<1> QED
    BY Zenon, <1>1, <1>2, <1>3, <1>4 DEF Next

LEMMA ListInit ==
    ASSUME Init
    PROVE  HeardInv /\ ListInv
<1>1. /\ situation \in Situations /\ waiting = {} /\ heard = <<>> /\ result = None
      /\ listed = <<>>
    BY Zenon DEF Init
<1>2. HeardInv
    BY <1>1 DEF HeardInv
<1>3. \A k : k \notin 1..Len(heard) /\ k \notin 1..Len(heard) - 1 /\ k \notin 1..Len(listed)
    BY <1>1
<1>4. EntriesHeard = {}
    BY Zenon, <1>3 DEF EntriesHeard
<1>5. Walked
    BY Zenon, <1>1, <1>3 DEF Walked
<1>6. Matches(listed, EntriesHeard, ItemsHeard, <<>>)
    BY <1>1, <1>3, <1>4 DEF Matches
<1>7. listed \in Seq(ToSet(listed))
    BY <1>1
<1>8. Gathered
    BY Zenon, <1>3, <1>6, <1>7 DEF Gathered, Matched
<1>9. NameGiven /\ Asking /\ Ended /\ Refusal
    BY Zenon, <1>1 DEF NameGiven, Asking, Ended, Refusal
<1> QED
    BY Zenon, <1>2, <1>5, <1>8, <1>9 DEF ListInv

(* A walk that has ended has read every page of the collection once.        *)
WalkEnded == situation \in Situations /\ Listing /\ situation.name # None /\ Walked
             /\ Len(heard) \in Nat /\ heard # <<>> /\ Len(heard) # 0 /\ NextAsked = None

LEMMA NextPage ==
    ASSUME WalkEnded, NEW k \in 1..Len(heard)
    PROVE  /\ Asked(k) \in DOMAIN situation.pages /\ PageHeard(k) = situation.pages[Asked(k)]
           /\ NextToken(situation.pages[Asked(k)]) = IF k = Len(heard) THEN None ELSE Asked(k + 1)
           /\ k # Len(heard) => Asked(k + 1) # None
<1>1. Asked(k) \in DOMAIN situation.pages /\ PageHeard(k) = situation.pages[Asked(k)]
    BY Zenon DEF WalkEnded, Walked, PageIsHeard
<1>2. CASE k = Len(heard)
    BY Zenon, <1>1, <1>2 DEF WalkEnded, NextAsked
<1>3. CASE k # Len(heard)
    <2>1. k \in 1..Len(heard) - 1
        BY <1>3 DEF WalkEnded
    <2> QED
        BY Zenon, <1>1, <1>3, <2>1 DEF WalkEnded, Walked, Linked
<1> QED
    BY Zenon, <1>1, <1>2, <1>3

LEMMA ReadOnce ==
    ASSUME WalkEnded
    PROVE  \A a, b \in 1..Len(heard) : a < b => Asked(a) # Asked(b)
<1> DEFINE n == Len(heard)
           again == {b \in 1..n : \E a \in 1..n : a < b /\ Asked(a) = Asked(b)}
<1> n \in Nat
    BY DEF WalkEnded
<1> SUFFICES ASSUME again # {} PROVE FALSE
    OBVIOUS
<1>1. PICK b \in again : \A m \in again : m <= b
    <2>1. again \subseteq Nat /\ \A m \in again : m <= n
        OBVIOUS
    <2> HIDE DEF again, n
    <2> QED
        BY <2>1, GreatestNat
<1>2. PICK a \in 1..n : a < b /\ Asked(a) = Asked(b)
    BY <1>1
<1>3. b \in 1..n /\ a \in 1..n /\ a # n
    BY <1>1, <1>2
<1>4. NextToken(situation.pages[Asked(a)]) = NextToken(situation.pages[Asked(b)])
    BY Zenon, <1>2
<1>5. /\ NextToken(situation.pages[Asked(a)]) = Asked(a + 1) /\ Asked(a + 1) # None
      /\ NextToken(situation.pages[Asked(b)]) = IF b = n THEN None ELSE Asked(b + 1)
    BY Zenon, <1>3, NextPage
<1>6. b # n /\ Asked(a + 1) = Asked(b + 1)
    BY Zenon, <1>4, <1>5
<1>7. a + 1 \in 1..n /\ b + 1 \in 1..n /\ a + 1 < b + 1 /\ ~(b + 1 <= b)
    BY <1>2, <1>3, <1>6
<1>8. b + 1 \in again
    BY Zenon, <1>6, <1>7
<1> QED
    BY Zenon, <1>1, <1>7, <1>8

LEMMA ReadAll ==
    ASSUME WalkEnded
    PROVE  \A t \in DOMAIN situation.pages : \E k \in 1..Len(heard) : Asked(k) = t
<1> DEFINE n == Len(heard)
           tokens == {Asked(k) : k \in 1..n}
<1>1. n \in Nat /\ n # 0 /\ situation \in Situations /\ Listing /\ situation.name # None
    BY DEF WalkEnded
<1>2. \A k \in 1..n : /\ Asked(k) \in DOMAIN situation.pages
                      /\ NextToken(situation.pages[Asked(k)]) = IF k = n THEN None ELSE Asked(k + 1)
    BY Zenon, NextPage
<1>3. tokens \in SUBSET DOMAIN situation.pages
    <2>1. \A t \in tokens : t \in DOMAIN situation.pages
        BY Zenon, <1>2
    <2> QED
        BY Zenon, <2>1
<1>4. None \in tokens
    <2>1. 1 \in 1..n
        BY <1>1
    <2>2. Asked(1) = None
        BY Zenon DEF WalkEnded, Walked
    <2> QED
        BY Zenon, <2>1, <2>2
<1>5. ASSUME NEW t \in tokens
      PROVE  NextToken(situation.pages[t]) = None \/ NextToken(situation.pages[t]) \in tokens
    <2>1. PICK k \in 1..n : t = Asked(k)
        BY Zenon
    <2>2. k # n => k + 1 \in 1..n
        BY <1>1
    <2> QED
        BY Zenon, <1>2, <2>1, <2>2
<1>6. Follows(situation.pages, tokens)
    BY Zenon, <1>5 DEF Follows, NextToken
<1>7. tokens = DOMAIN situation.pages
    BY Zenon, <1>1, <1>3, <1>4, <1>6, CollectionFacts
<1> QED
    BY Zenon, <1>7

(* What is listed stands for the entries of the collection.                 *)
EntryItems == [e \in Entries |-> EntryItem(e)]

LEMMA ListedEntries ==
    ASSUME WalkEnded, Gathered
    PROVE  Matched(listed, Entries, EntryItems)
<1> DEFINE n == Len(heard)
           b == [e \in EntriesHeard |-> <<Asked(e[1]), e[2]>>]
           count(t) == 1..Len(situation.pages[t].entries)
<1>0. n \in Nat
    BY DEF WalkEnded
<1>1. \A k \in 1..n : /\ Asked(k) \in DOMAIN situation.pages
                      /\ PageHeard(k) = situation.pages[Asked(k)]
    BY Zenon, NextPage
<1>2. \A e : e \in Entries <=> \E t \in DOMAIN situation.pages : e \in {t} \X count(t)
    BY Zenon DEF Entries
<1>3. \A e : e \in EntriesHeard <=> \E k \in 1..n : e \in {k} \X count(Asked(k))
    BY Zenon, <1>1 DEF EntriesHeard
<1> HIDE DEF n, count
<1>4. \A e \in EntriesHeard : e[1] \in 1..n /\ e[2] \in count(Asked(e[1])) /\ e = <<e[1], e[2]>>
    BY <1>3
<1>5. \A t \in DOMAIN situation.pages : \A i \in count(t) : <<t, i>> \in Entries
    BY <1>2
<1>6. b \in [EntriesHeard -> Entries]
    <2>1. ASSUME NEW e \in EntriesHeard PROVE <<Asked(e[1]), e[2]>> \in Entries
        BY Zenon, <1>1, <1>4, <1>5
    <2> QED
        BY Zenon, <2>1
<1>7. ASSUME NEW d \in EntriesHeard, NEW e \in EntriesHeard, b[d] = b[e]
      PROVE  d = e
    <2>1. d[1] \in 1..n /\ e[1] \in 1..n /\ d = <<d[1], d[2]>> /\ e = <<e[1], e[2]>>
        BY Zenon, <1>4
    <2>2. Asked(d[1]) = Asked(e[1]) /\ d[2] = e[2]
        <3>1. <<Asked(d[1]), d[2]>> = <<Asked(e[1]), e[2]>>
            BY Zenon, <1>7
        <3> QED
            BY <3>1
    <2>3. ~(d[1] < e[1]) /\ ~(e[1] < d[1])
        BY Zenon, <2>1, <2>2, ReadOnce DEF n
    <2>4. d[1] = e[1]
        BY <1>0, <2>1, <2>3
    <2> QED
        BY Zenon, <2>1, <2>2, <2>4
<1>8. ASSUME NEW t \in Entries
      PROVE  \E e \in EntriesHeard : b[e] = t
    <2>1. PICK token \in DOMAIN situation.pages : t \in {token} \X count(token)
        BY Zenon, <1>2
    <2>2. t = <<token, t[2]>> /\ t[2] \in count(token)
        BY <2>1
    <2>3. PICK k \in 1..n : Asked(k) = token
        BY Zenon, ReadAll DEF n
    <2> DEFINE e == <<k, t[2]>>
    <2>4. e \in EntriesHeard
        BY <1>3, <2>2, <2>3
    <2>5. e[1] = k /\ e[2] = t[2]
        OBVIOUS
    <2> HIDE DEF e
    <2> QED
        BY Zenon, <2>2, <2>3, <2>4, <2>5
<1>9. ASSUME NEW e \in EntriesHeard
      PROVE  EntryItems[b[e]] = ItemsHeard[e]
    <2> DEFINE t == <<Asked(e[1]), e[2]>>
    <2>1. b[e] = t /\ t \in Entries
        BY Zenon, <1>6
    <2>2. t[1] = Asked(e[1]) /\ t[2] = e[2]
        OBVIOUS
    <2> HIDE DEF t
    <2>3. EntryItems[t] = EntryItem(t)
        BY Zenon, <2>1 DEF EntryItems
    <2>4. PageHeard(e[1]) = situation.pages[t[1]]
        BY Zenon, <1>1, <1>4, <2>2
    <2>5. EntryItem(t) = HeardItem(e)
        BY Zenon, <2>2, <2>4 DEF EntryItem, HeardItem
    <2> QED
        BY Zenon, <2>1, <2>3, <2>5 DEF ItemsHeard
<1> HIDE DEF b
<1>10. Renames(b, EntriesHeard, ItemsHeard, Entries, EntryItems)
    BY Zenon, <1>6, <1>7, <1>8, <1>9 DEF Renames
<1>11. Matched(listed, EntriesHeard, ItemsHeard)
    BY Zenon DEF Gathered
<1> QED
    BY Zenon, <1>10, <1>11, MatchedTo

LEMMA ListedNames ==
    ASSUME WalkEnded, Gathered, NEW i \in 1..Len(listed)
    PROVE  FlattenSeq(listed[i].name) \in Text
<1>1. Len(listed) \in Nat
    BY LenProperties DEF Gathered
<1>2. PICK e \in Entries : listed[i] = EntryItems[e]
    <2>1. Matched(listed, Entries, EntryItems)
        BY Zenon, ListedEntries
    <2> QED
        BY <1>1, <2>1, MatchedItems
<1>3. PICK t \in DOMAIN situation.pages : e \in {t} \X (1..Len(situation.pages[t].entries))
    BY Zenon DEF Entries
<1>4. e[1] = t /\ e[2] \in 1..Len(situation.pages[t].entries)
    BY <1>3
<1>5. situation.pages[t].entries \in Seq(PageEntry(situation))
    BY Zenon, CollectionFacts DEF WalkEnded
<1> DEFINE entry == situation.pages[t].entries[e[2]]
<1>6. entry \in PageEntry(situation)
    BY Zenon, <1>4, <1>5, ElementOfSeq
<1>7. listed[i] = Item(entry)
    BY Zenon, <1>2, <1>4 DEF EntryItems, EntryItem
<1>8. listed[i] # None
    BY Zenon DEF Gathered
<1> HIDE DEF entry
<1>9. Item(entry).name \in Seq(Text)
    BY Zenon, <1>6, <1>7, <1>8, ItemNames DEF WalkEnded
<1> QED
    BY Zenon, <1>7, <1>9, FlattenedIsSeq DEF Text

(* A listing that ends well has every entry of every page, in order.        *)
LEMMA WholeWhenOk ==
    ASSUME HeardInv, ListInv, Listing, Ok, heard # <<>>
    PROVE  LET value == result.value IN
           /\ \A item \in ToSet(value) \cup {EntryItem(e) : e \in Entries} :
                /\ item # None
                /\ Cardinality({i \in 1..Len(value) : value[i] = item})
                     = Cardinality({e \in Entries : EntryItem(e) = item})
           /\ \A i, j \in 1..Len(value) : i < j => ~NameBefore(value[j], value[i])
<1> DEFINE value == result.value
<1>1. WalkEnded /\ Gathered
    <2>1. Len(heard) \in Nat /\ Len(heard) # 0
        BY LenProperties DEF HeardInv
    <2> QED
        BY Zenon, <2>1 DEF HeardInv, ListInv, NameGiven, Ended, WalkEnded
<1>2. value = Sorted(listed)
    BY Zenon DEF ListInv, Ended
<1> HIDE DEF value
<1>3. Len(listed) \in Nat
    BY <1>1, LenProperties DEF Gathered
<1>4. Matched(listed, Entries, EntryItems)
    BY Zenon, <1>1, ListedEntries
<1>5. Reordered(value, listed) /\ InOrder(value, Len(listed))
    <2>1. AllNamed(listed)
        BY Zenon, <1>1, ListedNames DEF AllNamed
    <2> QED
        BY Zenon, <1>2, <1>3, <2>1, SortedFacts
<1>6. Matched(value, Entries, EntryItems)
    BY Zenon, <1>3, <1>4, <1>5, MatchedInOrder
<1>7. Len(value) \in Nat /\ Len(value) = Len(listed) /\ DOMAIN value = 1..Len(value)
    BY Zenon, <1>3, <1>5 DEF Reordered
<1>8. \A e \in Entries : EntryItems[e] = EntryItem(e)
    BY Zenon DEF EntryItems
<1>9. ASSUME NEW item
      PROVE  Cardinality({i \in 1..Len(value) : value[i] = item})
               = Cardinality({e \in Entries : EntryItem(e) = item})
    <2>1. {e \in Entries : EntryItem(e) = item} = {e \in Entries : EntryItems[e] = item}
        BY Zenon, <1>8
    <2>2. Times(value, item) = Holders(Entries, EntryItems, item)
        BY Zenon, <1>6, <1>7, MatchedCounts
    <2> QED
        BY Zenon, <2>1, <2>2 DEF Times, Holders
<1>10. \A e \in Entries : EntryItem(e) # None
    <2>1. \A e \in Entries : \E i \in 1..Len(listed) : listed[i] = EntryItems[e]
        BY <1>3, <1>4, MatchedItems
    <2> QED
        BY Zenon, <1>1, <1>8, <2>1 DEF Gathered
<1>11. \A i \in 1..Len(value) : \E e \in Entries : value[i] = EntryItem(e)
    <2>1. \A i \in 1..Len(value) : \E e \in Entries : value[i] = EntryItems[e]
        BY <1>6, <1>7, MatchedItems
    <2> QED
        BY Zenon, <1>8, <2>1
<1>12. \A item \in ToSet(value) : \E e \in Entries : item = EntryItem(e)
    BY Zenon, <1>7, <1>11 DEF ToSet
<1>13. \A item \in ToSet(value) \cup {EntryItem(e) : e \in Entries} : item # None
    BY Zenon, <1>10, <1>12
<1>14. \A i, j \in 1..Len(value) : i < j => ~NameBefore(value[j], value[i])
    BY Zenon, <1>5, <1>7 DEF InOrder
<1> QED
    BY Zenon, <1>9, <1>13, <1>14 DEF value

(* A listing is the whole collection, as often as it is there and in the    *)
(* order of names, or it fails for an answer that failed or an entry        *)
(* without a name.                                                         *)
THEOREM WholeListingHolds == Spec => []WholeListing
<1>1. HeardInv /\ ListInv => WholeListing
    <2> SUFFICES ASSUME HeardInv, ListInv, Listing, result # None, heard # <<>>
                 PROVE  WholeListing
        BY Zenon DEF WholeListing
    <2>1. CASE Ok
        BY Zenon, <2>1, WholeWhenOk DEF WholeListing
    <2>2. CASE ~Ok
        BY Zenon, <2>2 DEF ListInv, Refusal, Fails, WholeListing
    <2> QED
        BY Zenon, <2>1, <2>2
<1> QED
    BY <1>1, ListInit, ListNext, PTL DEF Spec
=============================================================================
