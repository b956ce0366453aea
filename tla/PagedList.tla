----------------------------- MODULE PagedList -----------------------------
(***************************************************************************)
(* The list of photos of the explore controller and the two ways the code  *)
(* has of putting a page into it (cpp/src/explore_controller.cpp).  A      *)
(* constant module: no state, only the data and the operators that the     *)
(* controllers share.                                                      *)
(*                                                                         *)
(* A photo (explore_detail_view_data: id, image_url, title) is reduced to  *)
(* where it comes from: the idx-th photo of a page, in the version the     *)
(* server had of that page when it answered.  A body (the text of an HTTP  *)
(* response) is reduced to the page and the version it was produced for    *)
(* and to how many photos parsing it yields: 0 for the {"stat":"fail"}     *)
(* answer and for a text that is not JSON, because the parser then returns *)
(* a null value whose array is empty.                                      *)
(***************************************************************************)
EXTENDS Integers, Sequences

CONSTANTS
  ItemPerPage,  \* item_per_page: 10 in the code
  Radix,        \* base in which the page number is written in the URL: 10
  MaxPage,      \* bound: the pages are 1..MaxPage (request takes an int8_t)
  MaxVersion    \* bound: the server changes a page at most MaxVersion times

ASSUME PagedListAssumption ==
  /\ ItemPerPage \in Nat \ {0}
  /\ Radix \in Nat \ {0, 1}
  /\ MaxPage \in Nat \ {0}
  /\ MaxVersion \in Nat

Page == 1..MaxPage
Version == 0..MaxVersion

Photo == [page: Page, ver: Version, idx: 1..ItemPerPage]

Body == [page: Page, ver: Version, size: 0..ItemPerPage]

\* The entry of a URL that was never saved: no row in the cursor scan, hence
\* an empty result vector.
NoBody == [page |-> 0, ver |-> 0, size |-> 0]

\* Variant of Details: the loop runs once too often.
DetailsOneTooMany(body) ==
  [i \in 1..(body.size + 1) |->
     [page |-> body.page, ver |-> body.ver, idx |-> i]]

\* construct_detail_view_data_from_data: the photos a text parses to.
Details(body) ==
  [i \in 1..body.size |-> [page |-> body.page, ver |-> body.ver, idx |-> i]]

\* Variant of Off: start() taken for the slot and not for what precedes it.
OffOneTooFar(p) == (p - 1) * ItemPerPage + 1

\* Index of the last slot before those of page p: (page - 1) * item_per_page.
Off(p) == (p - 1) * ItemPerPage

-----------------------------------------------------------------------------
(* The two branches of the merge, written twice in the code: in request    *)
(* for what the cache holds and in on_success for what the server sent.    *)

Overwrite(items, p, details) ==
  [i \in 1..Len(items) |->
     IF i > Off(p) /\ i <= Off(p) + Len(details) THEN details[i - Off(p)]
                                                 ELSE items[i]]

\* Variant of Merge: the page takes the place of the list.
MergeAlone(items, p, details) ==
  IF Len(items) >= p * ItemPerPage THEN Overwrite(items, p, details)
                                   ELSE details

Merge(items, p, details) ==
  IF Len(items) >= p * ItemPerPage THEN Overwrite(items, p, details)
                                   ELSE items \o details

-----------------------------------------------------------------------------
\* on_success has no page argument: it reads the page back from the URL as
\* stoi(url.substr(found + 5, 1)), the FIRST digit of the number after "page=".
\* An int8_t has at most three digits.
PageOf(p) ==
  IF p < Radix THEN p
  ELSE IF p < Radix * Radix THEN p \div Radix
  ELSE p \div (Radix * Radix)
=============================================================================
