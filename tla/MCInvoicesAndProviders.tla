----------------------- MODULE MCInvoicesAndProviders -----------------------
(***************************************************************************)
(* Instance for TLC of the orders of an invoice link (InvoiceOrders), and  *)
(* beside it of the provider registry (ProviderRegistry).  A behaviour is  *)
(* about one of the two.                                                   *)
(***************************************************************************)
EXTENDS Integers, Sequences, TLC

CONSTANTS Askers,                    \* requests for an order, or to register
          Contracts, Retries,        \* contract-variant and re-order slots of a link
          MaxRequests, MaxSwitches,  \* bounds: requests, source switches of an order
          Verifs, Keepers,           \* verification requests and cron passes
          Payloads, Digest,          \* registrations, and the version each is
          FirstPayload,              \* the one already published, or NoPayload
          MaxWorkers, MaxStops,      \* bounds: workers, and those that stop half way
          NoPayload

\* A slot has one name and one place, and the base slot has its own.
ASSUME OrderConstants ==
    /\ Contracts \in Seq(STRING) /\ Retries \in Seq(STRING)
    /\ \A i, j \in DOMAIN Contracts : Contracts[i] = Contracts[j] => i = j
    /\ \A i, j \in DOMAIN Retries : Retries[i] = Retries[j] => i = j
    /\ \A i \in DOMAIN Contracts :
          Contracts[i] # "base" /\ \A j \in DOMAIN Retries : Retries[j] # Contracts[i]
    /\ \A j \in DOMAIN Retries : Retries[j] # "base"
    /\ MaxRequests \in Nat /\ MaxSwitches \in Nat

ASSUME RegistryConstants == FirstPayload \in Payloads \cup {NoPayload}

VARIABLE topic      \* the component this behaviour is about

VARIABLES ordLine, ordRow, ordProc, ordHanded, ordDoubled, ordRetired, ordLeft
ordVars == <<ordLine, ordRow, ordProc, ordHanded, ordDoubled, ordRetired, ordLeft>>

VARIABLES regW, regRec, regIndex, regSnapshot, regIdClaim, regToken, regEvidence,
          regClaim, regPaid, regServed, regIntent, regSigned, regSlips, regFaults
regVars == <<regW, regRec, regIndex, regSnapshot, regIdClaim, regToken, regEvidence,
             regClaim, regPaid, regServed, regIntent, regSigned, regSlips, regFaults>>

Ord == INSTANCE InvoiceOrders WITH
            Procs <- Askers, line <- ordLine, row <- ordRow, proc <- ordProc,
            handed <- ordHanded, doubled <- ordDoubled, retired <- ordRetired,
            left <- ordLeft

Reg == INSTANCE ProviderRegistry WITH
            Regs <- Askers, First <- FirstPayload, MaxFaults <- MaxStops,
            Nobody <- NoPayload,
            w <- regW, rec <- regRec, index <- regIndex, snapshot <- regSnapshot,
            idClaim <- regIdClaim, token <- regToken, evidence <- regEvidence,
            claim <- regClaim, paid <- regPaid, served <- regServed,
            intent <- regIntent, signed <- regSigned, slips <- regSlips,
            faults <- regFaults

\* The component a behaviour is not about is switched off.
ordersOff == /\ ordLine = 0 /\ ordRow = 0 /\ ordProc = 0 /\ ordHanded = 0
             /\ ordDoubled = 0 /\ ordRetired = 0 /\ ordLeft = 0
registryOff == /\ regW = 0 /\ regRec = 0 /\ regIndex = 0 /\ regSnapshot = 0
               /\ regIdClaim = 0 /\ regToken = 0 /\ regEvidence = 0
               /\ regClaim = 0 /\ regPaid = 0 /\ regServed = 0 /\ regIntent = 0
               /\ regSigned = 0 /\ regSlips = 0 /\ regFaults = 0

TopicInit == /\ topic \in {"orders", "registry"}
             /\ IF topic = "orders" THEN Ord!Init ELSE ordersOff
             /\ IF topic = "registry" THEN Reg!Init ELSE registryOff

TopicNext == \/ topic = "orders" /\ Ord!Next /\ UNCHANGED <<topic, regVars>>
             \/ topic = "registry" /\ Reg!Next /\ UNCHANGED <<topic, ordVars>>

topicVars == <<topic, ordVars, regVars>>

TopicSpec == TopicInit /\ [][TopicNext]_topicVars

\* One contract slot and two slots for orders that replace expired ones.
ContractSlots == <<"contract">>
RetrySlots    == <<"retry", "retry2">>

\* Registrations that differ only in their hosting origin have one digest; "c" is
\* a version of its own.
Versions == [p \in Payloads |-> IF p = "c" THEN "C" ELSE "A"]

\* Requests of every kind are interchangeable.
LinkSymmetry == Permutations(Askers) \cup Permutations(Verifs)

\* Bound: a state with a second version in play has no other hosting origin of the
\* first one, no cron pass, no suspension, no stop, no domain token and no second
\* registration request beside it.
inPlay == {regW[x].pay : x \in DOMAIN regW} \cup regServed \cup {regRec.pay, regIntent.pay, regIndex}
OneChange ==
    topic = "registry" /\ "c" \in inPlay =>
        /\ "b" \notin inPlay /\ ~regIntent.suspended /\ regFaults = 0 /\ ~regToken
        /\ \A k \in Keepers : regW[k].pc = "idle"
        /\ \E p \in Askers : \A q \in Askers \ {p} : regW[q].pc = "idle"

-----------------------------------------------------------------------------
\* A link has one live classic order, and none is handed out with pay-in details
\* its own request has retired (create-invoice.ts).
OrdersHanded == topic = "orders" => (Ord!OneLiveClassic /\ Ord!HandedIsCurrent)

\* No order is handed out as payable when one it stands for had been funded; see
\* NotPaidTwice (create-invoice.ts, relink-guard.ts).
OrdersPaidOnce == topic = "orders" => Ord!NotPaidTwice

\* A version of a registration is paid for once, and what is published was paid
\* for (provider-verify-claim.ts, providers.ts).
VerifiedOnce == topic = "registry" => (Reg!PaidOncePerVersion /\ Reg!PublishedWasPaid)

\* The last accepted registration or suspension stands, and the catalogue lists
\* what is published (provider-registry.ts, provider-monitor.ts).
CatalogueTrue == topic = "registry" => (Reg!LastWordStands /\ Reg!ListedIsPublished)
=============================================================================
