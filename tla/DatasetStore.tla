----------------------------- MODULE DatasetStore -----------------------------
(***************************************************************************)
(* Uploaded datasets in the SQL store (datasets store.py, assembly.py)     *)
(* behind the gateway's endpoints (api datasets.py).  Each request runs in *)
(* a worker thread of its own and each statement is atomic; between two    *)
(* statements other requests go on.  Uploads and seals of one dataset are  *)
(* serialized by DatasetStore.mutate, a lock per dataset id; deletes,      *)
(* evictions and reads take no lock.  (The memory store runs the same      *)
(* operations on the event loop, each to its end: a special case.)         *)
(*                                                                         *)
(* An upload is modelled from the moment its file is parsed.  A file is    *)
(* its currency and a version; bytes and records are counted in files.     *)
(* A get that finds an expired dataset deletes it; the id is never used    *)
(* again, so that delete is one step with the read.  A definition X_Y is X *)
(* with the mistake Y in it (see GatewayJobs).                             *)
(***************************************************************************)
EXTENDS Naturals, FiniteSets

CONSTANTS
  Datasets,      \* the ids the gateway mints
  Clients,       \* the requests that may be under way at once
  CostSlots,     \* the {provider}/cost slots of a dataset
  OtherSlots,    \* its other {provider}/{kind} slots
  Currencies,
  Versions,      \* files of the same currency that differ
  MaxSources,    \* upload_max_sources
  MaxRecords,    \* dataset_max_records, in files
  MaxBytes,      \* dataset_store_max_bytes, in files
  None

ASSUME LimitsNatural == MaxSources \in Nat /\ MaxRecords \in Nat /\ MaxBytes \in Nat
ASSUME SlotsApart == CostSlots \cap OtherSlots = {}
ASSUME SlotsFinite == IsFiniteSet(CostSlots) /\ IsFiniteSet(OtherSlots)

VARIABLES
  store,      \* store[d]: the row of dataset d, or None
  expired,    \* the ids whose time to live is over
  minted,     \* the ids create has minted
  lock,       \* lock[d]: the client that is in mutate(d), or None
  request,    \* request[c]: where the request of client c is
  accepted,   \* history: accepted[d][s] is the last file whose upload succeeded
  deleted,    \* history: the ids a client was told are deleted
  seen        \* history: seen[d] are the contents readers of d were given

storeVars == <<store, expired, minted, lock, request, accepted, deleted, seen>>

Slots == CostSlots \cup OtherSlots

\* A cost export is priced in a currency, the other files are not.
Files(s) ==
  [currency : IF s \in CostSlots THEN Currencies ELSE {None}, version : Versions]
Contents ==
  [files : {x \in [Slots -> (UNION {Files(s) : s \in Slots}) \cup {None}] :
              \A s \in Slots : x[s] \in Files(s) \cup {None}},
   sealed : BOOLEAN, currency : Currencies \cup {None}]

\* None is no client, currency, file or dataset.
ASSUME NoneApart ==
  /\ None \notin Clients /\ None \notin Currencies /\ None \notin Contents
  /\ \A s \in Slots : None \notin Files(s)

Empty == [files |-> [s \in Slots |-> None], sealed |-> FALSE, currency |-> None]
Sources(x) == {s \in Slots : x.files[s] # None}
HasCost(x) == Sources(x) \cap CostSlots # {}

Present(d) == store[d] # None
Live(d) == Present(d) /\ d \notin expired
Idle(c) == request[c].at = "idle"
At(c, point, d) == request[c].at = point /\ request[c].dataset = d

\* SUM(byte_size) over some of the datasets.
Bytes(ids) ==
  Cardinality({p \in ids \X Slots : Present(p[1]) /\ p[2] \in Sources(store[p[1]])})
-----------------------------------------------------------------------------
StoreInit ==
  /\ store = [d \in Datasets |-> None]
  /\ expired = {}
  /\ minted = {}
  /\ lock = [d \in Datasets |-> None]
  /\ request = [c \in Clients |-> [at |-> "idle"]]
  /\ accepted = [d \in Datasets |-> [s \in Slots |-> None]]
  /\ deleted = {}
  /\ seen = [d \in Datasets |-> {}]

\* The request of c goes on at another point, or ends.
GoTo(c, r) == request' = [request EXCEPT ![c] = r]
End(c) == GoTo(c, [at |-> "idle"])

Enter_WithoutLock(d, c) == UNCHANGED lock
Enter(d, c) == lock[d] = None /\ lock' = [lock EXCEPT ![d] = c]
Leave(d) == lock' = [lock EXCEPT ![d] = None]

Forget(ids) == store' = [d \in Datasets |-> IF d \in ids THEN None ELSE store[d]]

\* create: mint an id, evict what has expired, check the capacity of the store,
CreateCheck(c, d) ==
  /\ Idle(c)
  /\ d \notin minted
  /\ minted' = minted \cup {d}
  /\ Forget(expired)
  /\ IF Bytes(Datasets \ expired) <= MaxBytes
     THEN GoTo(c, [at |-> "create_write", dataset |-> d])
     ELSE End(c)
  /\ UNCHANGED <<expired, lock, accepted, deleted, seen>>

\* then store an empty dataset.
CreateWrite(c, d) ==
  /\ At(c, "create_write", d)
  /\ store' = [store EXCEPT ![d] = Empty]
  /\ End(c)
  /\ UNCHANGED <<expired, minted, lock, accepted, deleted, seen>>

Expire(d) ==
  /\ d \in minted \ expired
  /\ expired' = expired \cup {d}
  /\ UNCHANGED <<store, minted, lock, request, accepted, deleted, seen>>

\* Any get of an expired dataset deletes it and fails.
GetExpired(d) ==
  /\ Present(d) /\ d \in expired
  /\ Forget({d})
  /\ UNCHANGED <<expired, minted, lock, request, accepted, deleted, seen>>
-----------------------------------------------------------------------------
(* add_source: an upload.  One that is refused changes nothing. *)

CurrencyConflict(x, f) ==
  f.currency # None /\ x.currency # None /\ f.currency # x.currency

TooManySources(x, s) ==
  s \notin Sources(x) /\ Cardinality(Sources(x)) >= MaxSources

WithSource(x, s, f) ==
  [files |-> [x.files EXCEPT ![s] = f], sealed |-> x.sealed,
   currency |-> IF f.currency # None THEN f.currency ELSE x.currency]

UploadRead_EvenIfSealed(c, d, s, f) ==
  /\ Idle(c)
  /\ Live(d)
  /\ ~CurrencyConflict(store[d], f)
  /\ ~TooManySources(store[d], s)
  /\ Enter(d, c)
  /\ GoTo(c, [at |-> "upload_check", dataset |-> d, slot |-> s, file |-> f,
              copy |-> WithSource(store[d], s, f)])
  /\ UNCHANGED <<store, expired, minted, accepted, deleted, seen>>

UploadRead(c, d, s, f) ==
  /\ Idle(c)
  /\ Live(d)
  /\ ~store[d].sealed
  /\ ~CurrencyConflict(store[d], f)
  /\ ~TooManySources(store[d], s)
  /\ Enter(d, c)
  /\ GoTo(c, [at |-> "upload_check", dataset |-> d, slot |-> s, file |-> f,
              copy |-> WithSource(store[d], s, f)])
  /\ UNCHANGED <<store, expired, minted, accepted, deleted, seen>>

\* check_capacity: the records of this dataset, the bytes of all of them.
Fits(d, x) ==
  /\ Cardinality(Sources(x)) <= MaxRecords
  /\ Bytes(Datasets \ {d}) + Cardinality(Sources(x)) <= MaxBytes

\* put begins with the capacity check; the write follows it, or the request and
\* its lock are over.
Check(c, d, writing) ==
  IF Fits(d, request[c].copy)
  THEN GoTo(c, [request[c] EXCEPT !.at = writing]) /\ UNCHANGED lock
  ELSE End(c) /\ Leave(d)

UploadCheck(c, d) ==
  /\ At(c, "upload_check", d)
  /\ Check(c, d, "upload_write")
  /\ UNCHANGED <<store, expired, minted, accepted, deleted, seen>>

UploadWrite(c, d) ==
  /\ At(c, "upload_write", d)
  /\ store' = [store EXCEPT ![d] = request[c].copy]
  /\ accepted' = [accepted EXCEPT ![d][request[c].slot] = request[c].file]
  /\ End(c)
  /\ Leave(d)
  /\ UNCHANGED <<expired, minted, deleted, seen>>
-----------------------------------------------------------------------------
(* seal_dataset, and DatasetStore.seal inside it. *)

SealRead_NoCostNeeded(c, d) ==
  /\ Idle(c)
  /\ Live(d)
  /\ ~store[d].sealed
  /\ Enter(d, c)
  /\ GoTo(c, [at |-> "seal_get", dataset |-> d])
  /\ UNCHANGED <<store, expired, minted, accepted, deleted, seen>>

SealRead(c, d) ==
  /\ Idle(c)
  /\ Live(d)
  /\ ~store[d].sealed
  /\ HasCost(store[d])
  /\ Enter(d, c)
  /\ GoTo(c, [at |-> "seal_get", dataset |-> d])
  /\ UNCHANGED <<store, expired, minted, accepted, deleted, seen>>

Sealed(x) == [files |-> x.files, sealed |-> TRUE, currency |-> x.currency]

\* The dataset is read a second time; it may be gone or sealed by now.
SealGet(c, d) ==
  /\ At(c, "seal_get", d)
  /\ IF Live(d) /\ ~store[d].sealed
     THEN /\ GoTo(c, [at |-> "seal_check", dataset |-> d,
                      copy |-> Sealed(store[d])])
          /\ UNCHANGED <<store, lock>>
     ELSE /\ End(c)
          /\ Leave(d)
          /\ Forget({d} \cap expired)
  /\ UNCHANGED <<expired, minted, accepted, deleted, seen>>

SealCheck(c, d) ==
  /\ At(c, "seal_check", d)
  /\ Check(c, d, "seal_write")
  /\ UNCHANGED <<store, expired, minted, accepted, deleted, seen>>

SealWrite(c, d) ==
  /\ At(c, "seal_write", d)
  /\ store' = [store EXCEPT ![d] = request[c].copy]
  /\ End(c)
  /\ Leave(d)
  /\ UNCHANGED <<expired, minted, accepted, deleted, seen>>
-----------------------------------------------------------------------------
(* delete_dataset and the reads, without the lock. *)

DeleteLook(c, d) ==
  /\ Idle(c)
  /\ d \in minted
  /\ GoTo(c, [at |-> "delete", dataset |-> d, found |-> Present(d)])
  /\ UNCHANGED <<store, expired, minted, lock, accepted, deleted, seen>>

\* The answer is 204 if the dataset was there, else 404.
Delete(c, d) ==
  /\ At(c, "delete", d)
  /\ Forget({d})
  /\ deleted' = IF request[c].found THEN deleted \cup {d} ELSE deleted
  /\ accepted' = [accepted EXCEPT ![d] = [s \in Slots |-> None]]
  /\ End(c)
  /\ UNCHANGED <<expired, minted, lock, seen>>

\* get_for_investigation, when a run starts and whenever one of its processes
\* resolves the dataset.
Read(d) ==
  /\ Live(d)
  /\ store[d].sealed
  /\ seen' = [seen EXCEPT ![d] = @ \cup {store[d]}]
  /\ UNCHANGED <<store, expired, minted, lock, request, accepted, deleted>>
-----------------------------------------------------------------------------
Continue(c) ==
  \E d \in Datasets :
    \/ CreateWrite(c, d) \/ UploadCheck(c, d) \/ UploadWrite(c, d)
    \/ SealGet(c, d) \/ SealCheck(c, d) \/ SealWrite(c, d)
    \/ Delete(c, d)

StoreNext ==
  \/ \E d \in Datasets : Expire(d) \/ GetExpired(d) \/ Read(d)
  \/ \E c \in Clients, d \in Datasets :
       \/ \E s \in Slots : \E f \in Files(s) : UploadRead(c, d, s, f)
       \/ CreateCheck(c, d)
       \/ SealRead(c, d)
       \/ DeleteLook(c, d)
  \/ \E c \in Clients : Continue(c)

StoreSpec == StoreInit /\ [][StoreNext]_storeVars

-----------------------------------------------------------------------------
Requests ==
  [at : {"idle"}]
  \cup [at : {"create_write", "seal_get"}, dataset : Datasets]
  \cup [at : {"delete"}, dataset : Datasets, found : BOOLEAN]
  \cup [at : {"seal_check", "seal_write"}, dataset : Datasets, copy : Contents]
  \cup UNION {[at : {"upload_check", "upload_write"}, dataset : Datasets, slot : {s},
               file : Files(s), copy : Contents] : s \in Slots}

\* Where a request is inside mutate.
Inside == {"upload_check", "upload_write", "seal_get", "seal_check", "seal_write"}

\* Datasets and requests are of their types; a slot holds a file of its own kind.
StoreTypeOK ==
  /\ store \in [Datasets -> Contents \cup {None}]
  /\ expired \subseteq minted /\ minted \subseteq Datasets
  /\ lock \in [Datasets -> Clients \cup {None}]
  /\ request \in [Clients -> Requests]
  /\ accepted \in [Datasets -> [Slots -> (UNION {Files(s) : s \in Slots}) \cup {None}]]
  /\ deleted \subseteq minted
  /\ seen \in [Datasets -> SUBSET Contents]

\* store.py: sealing "makes concurrent reads safe".  Whatever uploads, seals and
\* deletes overlap, all the reads of a dataset by investigations see the same.
ReadersAgree == \A d \in Datasets : Cardinality(seen[d]) <= 1

\* add_source: two uploads "cannot interleave and drop one another's source or
\* write past a seal".  A dataset that is there holds every source whose upload
\* was accepted since.
AcceptedSourcesKept ==
  \A d \in Datasets, s \in Slots :
    Present(d) /\ accepted[d][s] # None => store[d].files[s] = accepted[d][s]

\* A sealed dataset can start a comparison: it has a cost export, no more sources
\* than allowed, and its cost exports are in one currency.
SealedIsRunnable ==
  \A d \in Datasets : Present(d) /\ store[d].sealed =>
    /\ HasCost(store[d])
    /\ Cardinality(Sources(store[d])) <= MaxSources
    /\ \A s \in Sources(store[d]) \cap CostSlots :
         store[d].files[s].currency = store[d].currency

\* The lock of a dataset is held by exactly the request that is inside mutate for
\* it: two are never inside at once, and no path out of it, a refusal or a dataset
\* that is gone included, keeps the lock.
LockFollowsRequest ==
  \A d \in Datasets, c \in Clients :
    lock[d] = c <=> request[c].at \in Inside /\ request[c].dataset = d

\* docs/usage.md: "DELETE ... is honoured immediately": a dataset that a client
\* was told is deleted stays so.
DeletedStaysDeleted == \A d \in deleted : ~Present(d)
=============================================================================
