------------------------ MODULE MCInvestigationStore ------------------------
(***************************************************************************)
(* InvestigationStore for TLC: hand-made archives of one and two records,   *)
(* whose digests are the values themselves.                                 *)
(***************************************************************************)
EXTENDS StoreRefinement

Zero == <<>>
Structural(r) == <<r>>

Record(ordinal, previous, client, rejection) ==
    [ordinal |-> ordinal, previous_record_digest |-> previous,
     entry |-> [observed_tick |-> ordinal, session_sequence_after |-> 1,
                rejection_code |-> rejection,
                queue_outcome |-> IF rejection = "none" THEN "accepted"
                                  ELSE "not_attempted",
                envelope |-> [client_id |-> client, session_id |-> 1,
                              sequence |-> 1, target_tick |-> 1]]]

Archive(records) ==
    [records |-> records, head_digest |-> Structural(Last(records))]

R1 == Record(0, Zero, 1, "none")
R2 == Record(1, Structural(R1), 2, "identity_mismatch")
Short == Archive(<<R1>>)
Long == Archive(<<R1, R2>>)
Other == Archive(<<Record(0, Zero, 2, "none")>>)

Named == <<Short, Long, Other>>
NameOf(archive) == CHOOSE i \in DOMAIN Named : Named[i] = archive

Import(archive) ==
    [archive |-> archive, trusted_head |-> archive.head_digest,
     source |-> "file"]

Forged == [Import(Short) EXCEPT !.trusted_head = Other.head_digest]
Unnamed == [Import(Short) EXCEPT !.source = ""]

Verdict(code) == [code |-> code, final_tick |-> 1]

RecordArgs(ids, codes) ==
    {[archive_id |-> i, result |-> Verdict(code)] : i \in ids, code \in codes}

ExportArgs(ids) == {[archive_id |-> i] : i \in ids}

CONSTANTS CallerA, CallerB

Everyone(args) == [c \in Callers |-> args]
OneAndOther(args, others) ==
    [c \in Callers |-> IF c = CallerA THEN args ELSE others]

OwnStores == [c \in Callers |-> c]
OneStore == Everyone(CallerA)

Both == {"verified", "world_state_mismatch"}

\* Imports of one archive race with each other, with replay results for it
\* and with the failure of any statement or process.
Writers ==
    [connections |-> OwnStores, versions |-> {1},
     preloaded |-> <<Import(Short)>>, page_size |-> 1,
     calls |-> OneAndOther(3, 1),
     arguments |-> Everyone(
        [import |-> {Import(Long)}, record |-> RecordArgs({2}, Both),
         export |-> {}])]

\* An exporter pages through a file that another process writes to.
Reader ==
    [connections |-> OwnStores, versions |-> {1},
     preloaded |-> <<Import(Long), Import(Short)>>, page_size |-> 1,
     calls |-> OneAndOther(1, 2),
     arguments |-> OneAndOther(
        [import |-> {}, record |-> {}, export |-> ExportArgs({1, 3})],
        [import |-> {Import(Other)}, record |-> RecordArgs({1, 3}, Both),
         export |-> {}])]

\* Two threads use one store.
Threads ==
    [connections |-> OneStore, versions |-> {1},
     preloaded |-> <<>>, page_size |-> 2,
     calls |-> OneAndOther(3, 1),
     arguments |-> OneAndOther(
        [import |-> {Import(Short), Import(Other)},
         record |-> RecordArgs({1}, {"verified"}), export |-> {}],
        [import |-> {}, record |-> RecordArgs({1}, {"verified"}),
         export |-> ExportArgs({1})])]

\* Two processes open a new file, or one of a newer schema, and call with
\* arguments that are refused.
Opening ==
    [connections |-> OwnStores, versions |-> {0, 2},
     preloaded |-> <<>>, page_size |-> 1,
     calls |-> OneAndOther(2, 2),
     arguments |-> Everyone(
        [import |-> {Import(Short), Unnamed, Forged},
         record |-> RecordArgs({0, 1}, {"verified"}),
         export |-> ExportArgs({0})])]

MCWorkloads ==
    [writers |-> Writers, reader |-> Reader, threads |-> Threads,
     opening |-> Opening]
=============================================================================
