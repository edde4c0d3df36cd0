----------------------------- MODULE MCDetection -----------------------------
(* Customers and settings for Detection, and the string metrics against their *)
(* definitions on short words.  A customer is known by one of few names,       *)
(* phones and addresses, so that every signal holds of some pair.              *)
EXTENDS Detection

-----------------------------------------------------------------------------
\* Names, phones, addresses.

JoLee   == << <<"j", "o">>, <<"l", "e", "e">> >>
JonLee  == << <<"j", "o", "n">>, <<"l", "e", "e">> >>
JoLeeds == << <<"j", "o">>, <<"l", "e", "e", "d", "s">> >>
AnnRay  == << <<"a", "n", "n">>, <<"r", "a", "y">> >>

Jo(domain)  == [local |-> <<"j", "o">>, tag |-> FALSE, domain |-> domain]
Ann(domain) == [local |-> <<"a", "n", "n">>, tag |-> FALSE, domain |-> domain]
Acme == <<"a">>
Mail == <<"m">>

Long  == <<"+", "1", "2", "3", "4", "5", "6", "7">>
Plain == <<"1", "2", "3", "4", "5", "6", "7">>
Short == <<"5", "6", "7">>

At(street, unit, country) ==
  [street |-> street, unit |-> unit, city |-> <<"c">>, zip |-> <<"9">>, country |-> country]
Oak   == At(<<"o", "a", "k">>, <<>>, "us")
Oak2  == At(<<"o", "a", "k">>, <<"2">>, "us")
Elm   == At(<<"e", "l", "m">>, <<>>, "uk")

Nobody ==
  [email |-> NoEmail, name |-> <<>>, phone |-> <<>>, address |-> NoAddress,
   orderAddresses |-> {}, orderNames |-> {}, lastOrder |-> None, note |-> <<>>,
   verified |-> FALSE, orders |-> 0, spent |-> 0, age |-> None, updated |-> 1,
   state |-> "enabled", tags |-> {}]

-----------------------------------------------------------------------------
\* The customers, in the order the cache lists them.

People == <<
  [Nobody EXCEPT !.email = [Jo(Acme) EXCEPT !.tag = TRUE], !.name = JoLee,
                 !.orderAddresses = {Oak}, !.lastOrder = 10, !.orders = 2, !.spent = 30],
  [Nobody EXCEPT !.email = Jo(Acme), !.name = JoLee, !.phone = Long, !.verified = TRUE,
                 !.orders = 11, !.spent = 120, !.age = 30, !.address = Oak],
  [Nobody EXCEPT !.email = Jo(Mail), !.name = JonLee, !.phone = Plain,
                 !.orderAddresses = {Elm}, !.orderNames = {JonLee}, !.lastOrder = 12,
                 !.orders = 2, !.spent = 30, !.age = 2],
  [Nobody EXCEPT !.email = Jo(Mail), !.name = AnnRay, !.orderAddresses = {Oak2},
                 !.lastOrder = 40, !.orderNames = {AnnRay}, !.tags = {"subscriber"}],
  [Nobody EXCEPT !.name = JoLee, !.phone = Short, !.address = Oak2, !.age = 50,
                 !.tags = {"membership"}, !.state = "disabled", !.updated = 2],
  [Nobody EXCEPT !.email = Ann(Mail), !.name = AnnRay, !.phone = Short, !.verified = TRUE,
                 !.tags = {"fraud"}, !.age = 8, !.spent = 10],
  [Nobody EXCEPT !.email = Jo(Acme), !.name = JoLeeds, !.phone = Plain, !.address = Elm,
                 !.verified = TRUE, !.orders = 3, !.spent = 700, !.updated = 3],
  [Nobody EXCEPT !.email = Ann(Acme), !.name = AnnRay, !.phone = Long, !.spent = 1500,
                 !.orders = 30, !.age = 60, !.orderNames = {JonLee}],
  [Nobody EXCEPT !.email = Ann(Mail), !.name = AnnRay, !.address = Oak,
                 !.orderAddresses = {Oak}, !.orders = 1, !.phone = Plain] >>

\* Some of the people, in their order.
Some(S) == SetToSortSeq(S, <)

ManyCustomers ==
  {[k \in DOMAIN s |-> People[s[k]]] :
     s \in {Some(S) : S \in {T \in SUBSET (DOMAIN People) :
                              \/ Cardinality(T) \in 1..4
                              \/ Cardinality(T) = 5 /\ {1, 2, 3, 5} \subseteq T}}}

Signals0 == [email |-> TRUE, phone |-> TRUE, address |-> TRUE, name |-> TRUE,
             behavioral |-> FALSE]

Default == [signals |-> Signals0, weakLinkProtection |-> TRUE, requireAnchor |-> TRUE,
            blockDisabledAccounts |-> TRUE, blockFraudTags |-> TRUE,
            blockDifferentCountry |-> TRUE]

Lax == [signals |-> [Signals0 EXCEPT !.behavioral = TRUE], weakLinkProtection |-> FALSE,
        requireAnchor |-> FALSE, blockDisabledAccounts |-> FALSE, blockFraudTags |-> FALSE,
        blockDifferentCountry |-> FALSE]

NoNames == [Default EXCEPT !.signals = [@ EXCEPT !.name = FALSE, !.behavioral = TRUE],
                           !.requireAnchor = FALSE]

NoContacts == [Default EXCEPT !.signals = [@ EXCEPT !.email = FALSE, !.phone = FALSE],
                              !.requireAnchor = FALSE]

FewPreferences == {Default, Lax, NoNames, NoContacts}

-----------------------------------------------------------------------------
\* The string metrics.

Words == UNION {[1..n -> {"x", "y"}] : n \in 0..3}

\* One letter inserted, removed or replaced.
Edit(v, w) ==
  \/ \E i \in DOMAIN w : v = RemoveAt(w, i)
  \/ \E i \in DOMAIN v : w = RemoveAt(v, i)
  \/ Len(v) = Len(w) /\ Cardinality({i \in DOMAIN v : v[i] # w[i]}) = 1

\* The words some number of edits away from w, and fewer.
Within(w, edits) ==
  LET ball[n \in 0..edits] ==
        IF n = 0 THEN {w} ELSE ball[n - 1] \cup {v \in Words : \E u \in ball[n - 1] : Edit(u, v)}
  IN  ball[edits]

\* Levenshtein counts the fewest edits.
ASSUME FewestEdits ==
  \A v, w \in Words : Levenshtein(v, w) = Min({n \in 0..3 : w \in Within(v, n)})

\* JaroWinkler is 1000 for equal words only, between 0 and 1000, and symmetric.
ASSUME JaroWinklerIsASimilarity ==
  \A v, w \in Words :
    /\ JaroWinkler(v, w) \in 0..1000
    /\ JaroWinkler(v, w) = JaroWinkler(w, v)
    /\ JaroWinkler(v, w) = 1000 <=> v = w
=============================================================================
