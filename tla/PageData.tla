------------------------------ MODULE PageData ------------------------------
(***************************************************************************)
(* What a page shows: a record with the fields `shown', whether the page is *)
(* in front, and `late', what was written to each field while it was not.  *)
(* (behaviors/safeSetData.ts)                                              *)
(***************************************************************************)

\* _safeSetData and _applyPendingSetData: what is written to a hidden page
\* waits until it is shown, and the last write counts.
PutData(page, field, value) ==
  IF page.shown THEN [page EXCEPT ![field] = value] ELSE [page EXCEPT !.late[field] = {value}]
LatestOf(page, field) ==
  IF page.late[field] = {} THEN page[field] ELSE CHOOSE v \in page.late[field] : TRUE
=============================================================================
