----------------------------- MODULE UploadPanel -----------------------------
(***************************************************************************)
(* The upload panel of the console (web data-source.tsx): files are put    *)
(* into a dataset the panel makes when the first one is chosen, and the    *)
(* dataset is sealed for an investigation or deleted.  Uploads, a seal and *)
(* a delete run at the same time, each goes on after its await with the    *)
(* dataset it began with.  Of the gateway's store (DatasetStore) a dataset *)
(* keeps its status and its sources.                                       *)
(***************************************************************************)
EXTENDS Naturals, FiniteSets

CONSTANTS
  Slots,        \* provider/kind pairs
  CostSlots,    \* those that hold a cost export
  MaxUploads,   \* bound on the files chosen
  MaxDatasets,  \* bound on the datasets made
  MaxDeletes    \* bound on the deletes of a dataset under way at once

ASSUME SlotsOfPanel == Slots # {} /\ CostSlots \subseteq Slots
ASSUME PanelBounds == MaxUploads \in Nat /\ MaxDatasets \in Nat /\ MaxDeletes \in Nat

Uploads == 1..MaxUploads
Datasets == 1..MaxDatasets
NoDataset == 0

VARIABLES
  panel,      \* [dataset, slots, sealed, working, creating]: the component's state
  upload,     \* upload[u]: [at, slot, target], one file on its way
  sealing,    \* the dataset a seal is under way for
  deleting,   \* deleting[d]: how many deletes of a dataset are under way
  server,     \* server[d]: [status, sources] of a dataset at the gateway
  brief,      \* the dataset the brief names, NoDataset for the demo
  orphans,    \* datasets the panel was not told of, or could not delete
  strayed     \* an answer was for a dataset the panel had given up

panelVars == <<panel, upload, sealing, deleting, server, brief, orphans, strayed>>

Upload(where, slot, target) == [at |-> where, slot |-> slot, target |-> target]
Over == Upload("over", CHOOSE s \in Slots : TRUE, NoDataset)

EmptyPanel ==
  [dataset |-> NoDataset, slots |-> [s \in Slots |-> "empty"], sealed |-> NoDataset,
   working |-> FALSE, creating |-> FALSE]

PanelInit ==
  /\ panel = EmptyPanel
  /\ upload = [u \in Uploads |-> Upload("unused", CHOOSE s \in Slots : TRUE, NoDataset)]
  /\ sealing = NoDataset /\ deleting = [d \in Datasets |-> 0]
  /\ server = [d \in Datasets |-> [status |-> "none", sources |-> {}]]
  /\ brief = NoDataset
  /\ orphans = {}
  /\ strayed = FALSE

Unused == {d \in Datasets : server[d].status = "none"}
AcceptedCost == \E s \in CostSlots : panel.slots[s] = "accepted"

\* upload(): into the dataset there is, or the one that is being made, or a new one.
PickFile(u, s) ==
  /\ ~panel.working /\ panel.sealed = NoDataset
  /\ upload[u].at = "unused" /\ \A v \in 1..(u - 1) : upload[v].at # "unused"
  /\ panel.dataset = NoDataset => panel.creating \/ Unused # {}
  /\ panel' = [panel EXCEPT !.slots[s] = "uploading", !.creating = (panel.dataset = NoDataset)]
  /\ upload' = [upload EXCEPT ![u] =
       Upload(IF panel.dataset = NoDataset THEN "waiting" ELSE "sent", s, panel.dataset)]
  /\ UNCHANGED <<sealing, deleting, server, brief, orphans, strayed>>

\* createDataset() is answered: every upload that shares the promise goes on with it.
Created(d) ==
  /\ panel.creating /\ d \in Unused
  /\ server' = [server EXCEPT ![d].status = "open"]
  /\ panel' = [panel EXCEPT !.dataset = d, !.creating = FALSE]
  /\ upload' = [u \in Uploads |-> IF upload[u].at = "waiting"
                                  THEN [upload[u] EXCEPT !.at = "sent", !.target = d]
                                  ELSE upload[u]]
  /\ UNCHANGED <<sealing, deleting, brief, orphans, strayed>>

Rejects(waiting) ==
  [s \in Slots |-> IF \E u \in waiting : upload[u].slot = s THEN "rejected" ELSE panel.slots[s]]

\* It fails, or its answer is lost: the uploads fail, and the promise is forgotten.
CreateFails ==
  /\ panel.creating
  /\ LET waiting == {u \in Uploads : upload[u].at = "waiting"}
     IN  /\ panel' = [panel EXCEPT !.slots = Rejects(waiting), !.creating = FALSE]
         /\ upload' = [u \in Uploads |-> IF u \in waiting THEN Over ELSE upload[u]]
  /\ \/ UNCHANGED <<server, orphans>>
     \/ \E d \in Unused : /\ server' = [server EXCEPT ![d].status = "open"]
                          /\ orphans' = orphans \union {d}
  /\ UNCHANGED <<sealing, deleting, brief, strayed>>

\* The gateway takes a source while the dataset is open and answers; what is wrong with
\* the file, or with the way there, is refused.
Store(u) ==
  /\ upload[u].at = "sent"
  /\ \/ /\ server[upload[u].target].status = "open"
        /\ server' = [server EXCEPT ![upload[u].target].sources = @ \union {upload[u].slot}]
        /\ upload' = [upload EXCEPT ![u].at = "stored"]
     \/ /\ upload' = [upload EXCEPT ![u].at = "refused"]
        /\ UNCHANGED server
  /\ UNCHANGED <<panel, sealing, deleting, brief, orphans, strayed>>

\* The answer is written to the slot, whatever dataset the panel has by now.
Stored(u) ==
  /\ upload[u].at \in {"stored", "refused"}
  /\ panel' = [panel EXCEPT !.slots[upload[u].slot] =
                 IF upload[u].at = "stored" THEN "accepted" ELSE "rejected"]
  /\ upload' = [upload EXCEPT ![u] = Over]
  /\ strayed' = (strayed \/ upload[u].target # panel.dataset)
  /\ UNCHANGED <<sealing, deleting, server, brief, orphans>>
-----------------------------------------------------------------------------
\* "Use this data".
Seal ==
  /\ ~panel.working /\ panel.sealed = NoDataset /\ AcceptedCost /\ panel.dataset # NoDataset
  /\ panel' = [panel EXCEPT !.working = TRUE]
  /\ sealing' = panel.dataset
  /\ UNCHANGED <<upload, deleting, server, brief, orphans, strayed>>

\* The gateway seals a dataset with a cost source, once.
SealReachesGateway ==
  /\ sealing # NoDataset
  /\ server[sealing].status = "open" /\ server[sealing].sources \intersect CostSlots # {}
  /\ server' = [server EXCEPT ![sealing].status = "sealed"]
  /\ UNCHANGED <<panel, upload, sealing, deleting, brief, orphans, strayed>>

\* The answer: the brief is the one the gateway derived from the dataset.
Sealed ==
  /\ sealing # NoDataset /\ server[sealing].status = "sealed"
  /\ panel' = [panel EXCEPT !.sealed = sealing, !.working = FALSE]
  /\ brief' = sealing
  /\ sealing' = NoDataset
  /\ strayed' = (strayed \/ sealing # panel.dataset)
  /\ UNCHANGED <<upload, deleting, server, orphans>>

SealFails ==
  /\ sealing # NoDataset
  /\ panel' = [panel EXCEPT !.working = FALSE]
  /\ sealing' = NoDataset
  /\ UNCHANGED <<upload, deleting, server, brief, orphans, strayed>>

\* "Delete now": the panel waits for the answer, and goes on meanwhile; the button does
\* too, and sends a delete at every click.
Discard ==
  /\ ~panel.working /\ panel.dataset # NoDataset /\ deleting[panel.dataset] < MaxDeletes
  /\ deleting' = [deleting EXCEPT ![panel.dataset] = @ + 1]
  /\ UNCHANGED <<panel, upload, sealing, server, brief, orphans, strayed>>

DeleteReachesGateway(d) ==
  /\ deleting[d] > 0 /\ server[d].status \in {"open", "sealed"}
  /\ server' = [server EXCEPT ![d] = [status |-> "gone", sources |-> {}]]
  /\ UNCHANGED <<panel, upload, sealing, deleting, brief, orphans, strayed>>

Forget_KeepsBrief(d, failed) ==
  /\ deleting[d] > 0
  /\ failed \/ server[d].status = "gone"
  /\ deleting' = [deleting EXCEPT ![d] = @ - 1]
  /\ brief' = brief
  /\ orphans' = IF failed THEN orphans \union {d} ELSE orphans

Forget(d, failed) ==
  /\ deleting[d] > 0
  /\ failed \/ server[d].status = "gone"
  /\ deleting' = [deleting EXCEPT ![d] = @ - 1]
  /\ brief' = NoDataset
  /\ orphans' = IF failed THEN orphans \union {d} ELSE orphans

\* Deleted, gone before (a 404), or not: the panel starts over, whatever it has begun by
\* now, and the brief goes back to the demo.
Discarded(d, failed) ==
  /\ Forget(d, failed)
  /\ panel' = [EmptyPanel EXCEPT !.working = panel.working]
  /\ strayed' = (strayed \/ panel.creating \/ panel.dataset \notin {d, NoDataset})
  /\ UNCHANGED <<upload, sealing, server>>
-----------------------------------------------------------------------------
BeingDeleted(d) == d # NoDataset /\ deleting[d] > 0

\* What the panel says is accepted is in the dataset it would seal, while it is not
\* deleting it.
AcceptedIsStored ==
  ~BeingDeleted(panel.dataset) =>
    \A s \in Slots : panel.slots[s] = "accepted" =>
      panel.dataset # NoDataset /\ s \in server[panel.dataset].sources

\* However many files are dropped at once, they share one dataset (the promise in
\* creating.current): the gateway keeps no dataset the panel does not know, but those
\* it was told it could not delete or never heard of.
NoUnknownDataset ==
  \A d \in Datasets :
    server[d].status \in {"open", "sealed"} =>
      d = panel.dataset \/ BeingDeleted(d) \/ d \in orphans
=============================================================================
