------------------------------- MODULE Scoring -------------------------------
(***************************************************************************)
(* How alike two customers are (internal/services/identity/scorer.go, with   *)
(* internal/utils/normalization.go): signals are extracted from a pair of    *)
(* rows, rules turn them into a confidence.  Everything is a function of the *)
(* two rows and the shop's options.  Confidences are in thousandths.         *)
(*                                                                           *)
(* A row of customer_cache is a record:                                      *)
(*   email      [local, tag, domain] or NoEmail; tag: whether the local part  *)
(*              has a "+" suffix                                              *)
(*   name       sequence of words, each a sequence of letters (lower case)    *)
(*   phone      sequence of digits and "+"                                    *)
(*   address    [street, unit, city, zip, country] or NoAddress, where each   *)
(*              is a sequence of letters, the country one value or ""         *)
(*   orderAddresses, orderNames   sets of them                                *)
(*   lastOrder  day of the last order, or None                                *)
(*   note       sequence of letters                                           *)
(* and what Reports reads: verified, orders, spent, age (months since the   *)
(* account was created, or None), updated, state, tags.  The province of an   *)
(* address is left out: it is one more field like the city.                   *)
(***************************************************************************)
EXTENDS StringDistance, SequencesExt

CONSTANTS NoEmail, NoAddress, None

IsSequence(s) == s \in Seq(Range(s))

\* The fields of a row that need a type for the detection to make sense of it.
IsRow(row) ==
  /\ {"email", "name", "phone", "address", "verified", "orders", "spent", "state", "tags"}
        \subseteq DOMAIN row
  /\ row.email = NoEmail \/ /\ {"local", "tag", "domain"} \subseteq DOMAIN row.email
                            /\ IsSequence(row.email.local)
  /\ IsSequence(row.phone)
  /\ IsSequence(row.name) /\ \A k \in DOMAIN row.name : IsSequence(row.name[k])
  /\ row.address = NoAddress \/
       LET place == row.address
       IN  \A field \in {place.street, place.unit, place.city, place.zip} : IsSequence(field)
  /\ row.verified \in BOOLEAN /\ row.orders \in Nat /\ row.spent \in Nat

-----------------------------------------------------------------------------
\* Normalization.

NormalizeEmail(email) == IF email = NoEmail THEN NoEmail ELSE [email EXCEPT !.tag = FALSE]

EmailDomain(email) == IF email = NoEmail THEN <<>> ELSE email.domain

\* All that is not a digit goes, the "+" too.
NormalizePhone(phone) ==
  LET upto[k \in 0..Len(phone)] ==
        IF k = 0 THEN <<>>
        ELSE IF phone[k] = "+" THEN upto[k - 1] ELSE Append(upto[k - 1], phone[k])
  IN  upto[Len(phone)]

NormalizeRow(row) ==
  [row EXCEPT !.email = NormalizeEmail(@), !.phone = NormalizePhone(@)]

Blank == " "

\* The words of a name as one string.
Spelled(name) ==
  LET upto[i \in 0..Len(name)] ==
        IF i = 0 THEN <<>>
        ELSE IF i = 1 THEN name[1] ELSE upto[i - 1] \o <<Blank>> \o name[i]
  IN  upto[Len(name)]

LastToken(name) == IF name = <<>> THEN <<>> ELSE name[Len(name)]

\* extractAddress: the fields in a fixed order, "" when the first three are empty.
Canonical(address) ==
  IF address = NoAddress \/ address.street \o address.unit \o address.city \o address.zip = <<>>
  THEN <<>>
  ELSE address.street \o address.unit \o <<"|">> \o address.city \o <<"|">> \o address.zip
         \o <<"|", address.country>>

Country(address) == IF address = NoAddress THEN "" ELSE address.country

-----------------------------------------------------------------------------
\* Similarities of the fields, shown to the merchant and used by the fallback.

EmailSimilarity(a, b) ==
  IF a = NoEmail \/ b = NoEmail THEN 0
  ELSE IF a = b THEN 1000
  ELSE LET localSim == LevenshteinSim(a.local, b.local) IN
       IF a.domain = b.domain THEN (8 * localSim) \div 10
       ELSE IF localSim >= 990 THEN 350
       ELSE IF localSim >= 920 THEN 250
       ELSE IF localSim >= 750 THEN 150 ELSE 0

PhoneSimilarity(a, b) ==
  IF a = <<>> \/ b = <<>> THEN 0
  ELSE IF a = b THEN 1000
  ELSE IF IsSuffix(a, b) \/ IsSuffix(b, a) THEN 800 ELSE 0

AddressSimilarity(a, b) ==
  IF Canonical(a) = <<>> \/ Canonical(b) = <<>> THEN 0
  ELSE LevenshteinSim(Canonical(a), Canonical(b))

-----------------------------------------------------------------------------
\* Orders: whether some order of one row is like, or unlike, one of the other.

OrderLine(o) == o.street \o <<Blank>> \o o.city \o <<Blank>> \o o.zip \o <<Blank, o.country>>

AnyExactOrderAddressMatch(as, bs) ==
  \E o \in as, p \in bs : o.city = p.city /\ o.zip = p.zip /\ o.country = p.country

AnyPartialOrderAddressMatch(as, bs) ==
  \E o \in as, p \in bs : LevenshteinSim(OrderLine(o), OrderLine(p)) >= 850

AnyHighOrderNameMatch(as, bs) ==
  \E n \in as, m \in bs : JaroWinkler(Spelled(n), Spelled(m)) >= 920

AnyConflictingOrderNames(as, bs) ==
  \E n \in as, m \in bs : JaroWinklerAtMost(Spelled(n), Spelled(m), 7)

\* A country of bs that as lacks; one of as that bs lacks does not count.
AnyConflictingOrderCountries(as, bs) ==
  LET of(orders) == {o.country : o \in orders} \ {""}
  IN  of(as) # {} /\ of(bs) \ of(as) # {}

-----------------------------------------------------------------------------
\* extractSignals.  The emails and phones of a and b are normalized.

Signals(a, b, nameSim, addressSim) ==
  LET bothEmails == a.email # NoEmail /\ b.email # NoEmail
      sameEmail  == bothEmails /\ a.email = b.email
      sameDomain == bothEmails /\ a.email.domain = b.email.domain
      localSim   == LevenshteinSim(a.email.local, b.email.local)
      otherDomain == bothEmails /\ ~sameDomain
      bothPhones == a.phone # <<>> /\ b.phone # <<>>
      bothNames  == a.name # <<>> /\ b.name # <<>>
  IN
  [ sameCountry |-> Country(a.address) = Country(b.address)
                      \/ "" \in {Country(a.address), Country(b.address)},
    emailExact       |-> sameEmail,
    emailDomainMatch |-> sameDomain /\ ~sameEmail,
    emailLocalExact  |-> otherDomain /\ localSim >= 990,
    emailLocalFuzzy  |-> otherDomain /\ localSim \in 920..989,
    differentEmailDomain |-> otherDomain /\ localSim < 920,
    phoneExact  |-> bothPhones /\ a.phone = b.phone,
    phoneSuffix |-> bothPhones /\ a.phone # b.phone
                      /\ (IsSuffix(a.phone, b.phone) \/ IsSuffix(b.phone, a.phone)),
    phoneAsymmetry |-> (a.phone = <<>>) # (b.phone = <<>>),
    nameHigh   |-> nameSim >= 900,
    nameMedium |-> nameSim >= 820,
    nameSim    |-> nameSim,
    differentLastName |-> bothNames /\ LastToken(a.name) # LastToken(b.name),
    addressExact   |-> addressSim >= 990,
    addressPartial |-> addressSim >= 650,
    orderAddressExact    |-> AnyExactOrderAddressMatch(a.orderAddresses, b.orderAddresses),
    orderAddressPartial  |-> AnyPartialOrderAddressMatch(a.orderAddresses, b.orderAddresses),
    orderAddressConflict |-> AnyConflictingOrderCountries(a.orderAddresses, b.orderAddresses),
    orderNameHigh        |-> AnyHighOrderNameMatch(a.orderNames, b.orderNames),
    orderNameConflict    |-> AnyConflictingOrderNames(a.orderNames, b.orderNames),
    recentOrderOverlap   |-> None \notin {a.lastOrder, b.lastOrder}
                               /\ a.lastOrder - b.lastOrder \in -7..7,
    noteShared           |-> Len(a.note) >= 10 /\ a.note = b.note ]

EmailSignals   == {"emailExact", "emailLocalExact", "emailLocalFuzzy", "emailDomainMatch",
                   "differentEmailDomain"}
PhoneSignals   == {"phoneExact", "phoneSuffix", "phoneAsymmetry"}
AddressSignals == {"addressExact", "addressPartial", "orderAddressExact", "orderAddressPartial",
                   "orderAddressConflict"}
NameSignals    == {"nameHigh", "nameMedium", "differentLastName", "orderNameHigh",
                   "orderNameConflict"}

\* The channels the shop has switched off are cleared.
Masked(sig, options) ==
  LET off == (IF options.email THEN {} ELSE EmailSignals)
               \cup (IF options.phone THEN {} ELSE PhoneSignals)
               \cup (IF options.address THEN {} ELSE AddressSignals)
               \cup (IF options.name THEN {} ELSE NameSignals)
  IN  [s \in DOMAIN sig |->
         IF s \in off THEN FALSE
         ELSE IF s = "nameSim" /\ ~options.name THEN 0 ELSE sig[s]]

-----------------------------------------------------------------------------
\* The rules: the first that applies gives the confidence.

FirstOf(rules, otherwise) ==
  LET hits == {i \in DOMAIN rules : rules[i][1]}
  IN  IF hits = {} THEN otherwise ELSE rules[Min(hits)][2]

BehavioralRules(s) == <<
  <<s.orderAddressExact /\ s.nameHigh /\ ~s.differentLastName,       <<960, "behavioral">>>>,
  <<s.orderNameHigh /\ s.phoneExact,                                 <<950, "mixed">>>>,
  <<s.orderAddressExact /\ s.emailLocalExact,                        <<940, "mixed">>>>,
  <<s.recentOrderOverlap /\ s.orderAddressPartial /\ s.nameHigh,     <<910, "behavioral">>>>,
  <<s.orderAddressPartial /\ s.nameHigh,                             <<900, "mixed">>>> >>

\* computeBaseRules; its last rule, 650 for nameMedium and addressExact, is
\* never reached.
BaseRules(s) == <<
  <<s.emailExact, 980>>, <<s.phoneExact, 980>>,
  <<s.addressExact /\ s.nameHigh, 920>>,      <<s.phoneSuffix /\ s.nameHigh, 900>>,
  <<s.emailLocalExact /\ s.nameHigh, 880>>,   <<s.addressExact /\ s.nameMedium, 850>>,
  <<s.phoneSuffix /\ s.nameMedium, 820>>,     <<s.emailLocalExact /\ s.nameMedium, 800>>,
  <<s.emailLocalFuzzy /\ s.nameHigh, 800>>,   <<s.nameHigh /\ s.addressPartial, 760>>,
  <<s.emailLocalFuzzy /\ s.nameMedium, 740>>, <<s.nameHigh /\ s.emailDomainMatch, 700>> >>

\* A weighted mean of the similarities, 640 at most, for names that are alike.
Fallback(s, sim) ==
  IF ~s.nameMedium THEN 0
  ELSE Min({640, (4 * sim.name + 3 * sim.address + 2 * sim.email + sim.phone) \div 10
                   + (IF s.noteShared THEN 40 ELSE 0)})

Penalty(s) ==
  (IF s.differentLastName THEN 150 ELSE 0) + (IF s.differentEmailDomain THEN 50 ELSE 0)
    + (IF s.phoneAsymmetry THEN 50 ELSE 0) + (IF s.orderNameConflict THEN 100 ELSE 0)
    + (IF s.orderAddressConflict THEN 120 ELSE 0)

Profile(s, sim) ==
  LET rule == FirstOf(BaseRules(s), 0)
      base == IF rule = 0 THEN Fallback(s, sim) ELSE rule
  IN  IF base >= 970 THEN <<base, "profile">>
      ELSE IF base = 0 \/ base < Penalty(s) THEN <<0, "">>
      ELSE <<base - Penalty(s), "profile">>

\* computeConfidence: <<confidence, where it comes from>>.
Confidence(s, sim, behavioral) ==
  IF ~s.sameCountry THEN <<0, "">>
  ELSE IF behavioral THEN FirstOf(BehavioralRules(s), Profile(s, sim)) ELSE Profile(s, sim)

\* The similarities of two normalized rows, 0 for a channel that is off.
Similarities(a, b, nameSim, addressSim, options) ==
  [email   |-> IF options.email THEN EmailSimilarity(a.email, b.email) ELSE 0,
   phone   |-> IF options.phone THEN PhoneSimilarity(a.phone, b.phone) ELSE 0,
   name    |-> IF options.name THEN nameSim ELSE 0,
   address |-> IF options.address THEN addressSim ELSE 0]

Scored(sig, sim, behavioral) ==
  LET confidence == Confidence(sig, sim, behavioral)
  IN  [score |-> confidence[1], source |-> confidence[2], sig |-> sig]

ScoreNormalized(a, b, nameSim, addressSim, options) ==
  Scored(Masked(Signals(a, b, nameSim, addressSim), options),
         Similarities(a, b, nameSim, addressSim, options), options.behavioral)

\* ScorePair.
ScorePair(a, b, options) ==
  ScoreNormalized(NormalizeRow(a), NormalizeRow(b),
                  JaroWinkler(Spelled(a.name), Spelled(b.name)),
                  AddressSimilarity(a.address, b.address), options)
=============================================================================
