---------------------------- MODULE NftPagination ----------------------------
(***************************************************************************)
(* The cursor-paged listings of coins/nft.rs: get_nft_list and             *)
(* get_nft_transfers.                                                       *)
(*                                                                         *)
(* For each requested chain in order, after get_eth_address, the loop      *)
(* sends the chain's uri with the current cursor.  A response whose       *)
(* "result" is an array has its items converted one by one (each item     *)
(* needs further awaits: the token uri's metadata, and for transfers a    *)
(* get_nft_metadata request; their errors end the whole call), then a     *)
(* string "cursor" sets the cursor and continues, no cursor breaks to the *)
(* next chain.  A failed request ends the whole call.  A response without *)
(* a "result" array matches neither branch and the loop sends the same    *)
(* request again.                                                          *)
(*                                                                         *)
(* The server is the environment: the pages it holds for each chain are   *)
(* fixed, and it may answer a request with the page, an error, or a body  *)
(* without a result array (which of these Answers allows).                *)
(***************************************************************************)
EXTENDS Naturals, Sequences, SequencesExt

CONSTANTS
    ChainLists, \* the req.chains lists a request may carry
    Pages,      \* Pages[c]: the server's pages of chain c, each a sequence of items
    Answers,    \* the kinds of answer the server gives: "page", "error", "no_result"
    Accounts,   \* the accounts an address may name
    WalletOf,   \* WalletOf[c]: the address get_eth_address gives for chain c
    Recipient   \* Recipient[i]: the to_address of transfer i, as the server spells it

ASSUME NftAssumption ==
    /\ ChainLists \subseteq Seq(DOMAIN Pages)
    /\ \A c \in DOMAIN Pages : Len(Pages[c]) >= 1
    /\ Answers \subseteq {"page", "error", "no_result"}
    /\ "page" \in Answers

VARIABLES
    kind,       \* which listing was called: "nfts" or "transfers"
    chains,     \* req.chains, in order
    pc,         \* "address", "request", "response", "items", "done", "failed"
    ci,         \* index of the chain in chains
    cursor,     \* the page the cursor names (1 for the empty cursor)
    items,      \* items of the current page not yet converted
    more,       \* the current page came with a cursor
    collected,  \* res_list
    answer      \* the kind of the last response

vars == <<kind, chains, pc, ci, cursor, items, more, collected, answer>>

Chain == chains[ci]

Items == UNION {UNION {Range(Pages[c][k]) : k \in DOMAIN Pages[c]} : c \in DOMAIN Pages}

(* An address as a string: the account it names, and whether it is        *)
(* spelled with the mixed-case checksum or in lower case.                  *)
Spelling == [acct : Accounts, cased : BOOLEAN]

Statuses == {"Receive", "Send"}

ASSUME TransferAssumption ==
    /\ WalletOf \in [DOMAIN Pages -> Spelling]
    /\ Recipient \in [Items -> Spelling]

TypeOK ==
    /\ kind \in {"nfts", "transfers"}
    /\ chains \in ChainLists
    /\ pc \in {"address", "request", "response", "items", "done", "failed"}
    /\ ci \in 1..(Len(chains) + 1)
    /\ cursor \in Nat \ {0}
    /\ items \in Seq(Items)
    /\ more \in BOOLEAN
    /\ collected \in Seq(Items \cup (Items \X Statuses))
    /\ answer \in Answers \cup {"none"}

Init ==
    /\ kind \in {"nfts", "transfers"}
    /\ chains \in ChainLists
    /\ pc = IF chains = <<>> THEN "done" ELSE "address"
    /\ ci = 1
    /\ cursor = 1
    /\ items = <<>>
    /\ more = FALSE
    /\ collected = <<>>
    /\ answer = "none"

-----------------------------------------------------------------------------
(* Mutant: res_list is declared inside the for loop, once per chain.       *)
GetAddressResetsList ==
    /\ pc = "address"
    /\ \/ /\ pc' = "request"
          /\ cursor' = 1
       \/ /\ pc' = "failed"
          /\ UNCHANGED cursor
    /\ collected' = <<>>
    /\ UNCHANGED <<kind, chains, ci, items, more, answer>>

(* get_eth_address(&ctx, ticker).await? and the uri for the chain; the     *)
(* cursor starts empty.                                                    *)
GetAddress ==
    /\ pc = "address"
    /\ \/ /\ pc' = "request"
          /\ cursor' = 1
       \/ /\ pc' = "failed"
          /\ UNCHANGED cursor
    /\ UNCHANGED <<kind, chains, ci, items, more, collected, answer>>

(* send_request_to_uri(uri).await: the server answers.                      *)
SendRequest ==
    /\ pc = "request"
    /\ answer' \in Answers
    /\ pc' = "response"
    /\ UNCHANGED <<kind, chains, ci, cursor, items, more, collected>>

(* The `?` on the request, then if let Some(..) = response["result"]       *)
(* .as_array(): a page starts the items; without a result array the loop   *)
(* goes round with the same uri.                                            *)
MatchResponse ==
    /\ pc = "response"
    /\ CASE answer = "page" ->
              /\ items' = Pages[Chain][cursor]
              /\ more' = (cursor < Len(Pages[Chain]))
              /\ pc' = "items"
         [] answer = "error" ->
              /\ pc' = "failed"
              /\ UNCHANGED <<items, more>>
         [] answer = "no_result" ->
              /\ pc' = "request"
              /\ UNCHANGED <<items, more>>
    /\ UNCHANGED <<kind, chains, ci, cursor, collected, answer>>

(* try_get_uri_meta: no token uri, or a failed request for it, gives the  *)
(* default metadata; only a body that does not parse fails the call.       *)
TryGetUriMeta(uriOutcome) == IF uriOutcome = "bad_json" THEN "Err" ELSE "Ok"

UriOutcomes == {"no_uri", "ok", "request_failed", "bad_json"}

(* get_nft_metadata: its own request and the parse of the answer fail the  *)
(* call, then the token uri is tried.                                      *)
GetNftMetadata(reqOutcome, uriOutcome) ==
    IF reqOutcome \in {"error", "bad_json"} THEN "Err" ELSE TryGetUriMeta(uriOutcome)

(* What str::to_lowercase does to an address.                               *)
ToLowercase(s) == [s EXCEPT !.cased = FALSE]

(* Mutant: the addresses are compared as spelled.                          *)
GetTxStatusCaseSensitive(myWallet, toAddress) ==
    IF myWallet = toAddress THEN "Receive" ELSE "Send"

(* get_tx_status: a transfer to my wallet is incoming, whatever the case   *)
(* either address is spelled in.                                           *)
GetTxStatus(myWallet, toAddress) ==
    IF ToLowercase(myWallet) = ToLowercase(toAddress) THEN "Receive" ELSE "Send"

(* One NFT of the page (get_nft_list): NftWrapper parses and               *)
(* try_get_uri_meta succeeds and it is pushed to res_list, or the call     *)
(* fails.                                                                  *)
ConvertItem ==
    /\ pc = "items"
    /\ kind = "nfts"
    /\ items # <<>>
    /\ \E parsed \in BOOLEAN, uriOutcome \in UriOutcomes :
          IF parsed /\ TryGetUriMeta(uriOutcome) = "Ok"
            THEN /\ collected' = Append(collected, Head(items))
                 /\ items' = Tail(items)
                 /\ UNCHANGED pc
            ELSE /\ pc' = "failed"
                 /\ UNCHANGED <<items, collected>>
    /\ UNCHANGED <<kind, chains, ci, cursor, more, answer>>

(* One transfer of the page (get_nft_transfers): the wrapper parses, its   *)
(* status is computed, its token address parses and get_nft_metadata       *)
(* succeeds, and it is pushed with its status; any failure fails the call. *)
ConvertTransfer ==
    /\ pc = "items"
    /\ kind = "transfers"
    /\ items # <<>>
    /\ \E parsed, addressParsed \in BOOLEAN, reqOutcome \in {"ok", "error", "bad_json"},
          uriOutcome \in UriOutcomes :
          IF parsed /\ addressParsed /\ GetNftMetadata(reqOutcome, uriOutcome) = "Ok"
            THEN /\ collected' = Append(collected,
                        <<Head(items), GetTxStatus(WalletOf[Chain], Recipient[Head(items)])>>)
                 /\ items' = Tail(items)
                 /\ UNCHANGED pc
            ELSE /\ pc' = "failed"
                 /\ UNCHANGED <<items, collected>>
    /\ UNCHANGED <<kind, chains, ci, cursor, more, answer>>

(* The next chain, or the end of the for loop.                              *)
NextChain ==
    /\ ci' = ci + 1
    /\ pc' = IF ci + 1 <= Len(chains) THEN "address" ELSE "done"

(* After the items: a cursor continues with the next page, none breaks.    *)
PageDone ==
    /\ pc = "items"
    /\ items = <<>>
    /\ IF more
         THEN /\ cursor' = cursor + 1
              /\ pc' = "request"
              /\ UNCHANGED ci
         ELSE /\ NextChain
              /\ UNCHANGED cursor
    /\ UNCHANGED <<kind, chains, items, more, collected, answer>>

Next ==
    \/ GetAddress
    \/ SendRequest
    \/ MatchResponse
    \/ ConvertItem
    \/ ConvertTransfer
    \/ PageDone

Spec == Init /\ [][Next]_vars

(* Every await of the listing completes (the requests have their own       *)
(* transport timeouts), so the client's steps are weakly fair.             *)
FairSpec == Spec /\ WF_vars(Next)

-----------------------------------------------------------------------------
(* Properties.                                                             *)

(* Everything the server holds for the requested chains, page after page   *)
(* and chain after chain.                                                  *)
AllItems == FlattenSeq([k \in DOMAIN chains |-> FlattenSeq(Pages[chains[k]])])

(* The status a transfer has: incoming when its recipient is the wallet's *)
(* account on that chain.                                                  *)
IntendedStatus(c, i) == IF Recipient[i].acct = WalletOf[c].acct THEN "Receive" ELSE "Send"

(* Every transfer the server holds for the requested chains, in order, each *)
(* with its status.                                                        *)
AllTransfers ==
    FlattenSeq([k \in DOMAIN chains |->
                  LET f == FlattenSeq(Pages[chains[k]])
                  IN  [j \in DOMAIN f |-> <<f[j], IntendedStatus(chains[k], f[j])>>]])

(* A listing that succeeds returns every item of every page of every      *)
(* requested chain exactly once, in the server's order; a transfer         *)
(* listing marks each transfer to the wallet Receive and every other Send.*)
ListedInServerOrder ==
    pc = "done" => collected = IF kind = "nfts" THEN AllItems ELSE AllTransfers

(* The listing ends: with the full list or with an error.                  *)
ListingTerminates == <>(pc \in {"done", "failed"})

=============================================================================
