----------------------------- MODULE SearchPage -----------------------------
(***************************************************************************)
(* The paging of SearchStrategy::_process (plugin/search_strategy.cpp):    *)
(* which of the tot_cnt results, best first, a page shows.  page comes     *)
(* from the request's parameter p and is limited from above only.          *)
(***************************************************************************)
EXTENDS Integers

PAGE_RESULT_CNT == 20

(* Mutant: one page too many for a full last page.                         *)
PageCnt_Extra(tot_cnt) == tot_cnt \div PAGE_RESULT_CNT + 1

(* (tot_cnt - 1) / PAGE_RESULT_CNT + 1; C rounds -1 / 20 towards 0.        *)
PageCnt(tot_cnt) ==
    IF tot_cnt = 0 THEN 1 ELSE (tot_cnt - 1) \div PAGE_RESULT_CNT + 1

ClampPage(tot_cnt, page) ==
    IF page > PageCnt(tot_cnt) THEN PageCnt(tot_cnt) ELSE page

(* The results shown are those behind the first `begin' up to `end'.       *)
Paging(tot_cnt, asked) ==
    LET page_cnt == PageCnt(tot_cnt)
        page     == ClampPage(tot_cnt, asked)
    IN  [nxt_page |-> IF page >= page_cnt THEN page_cnt ELSE page + 1,
         bef_page |-> IF page > 1 THEN page - 1 ELSE 1,
         begin    |-> (page - 1) * PAGE_RESULT_CNT,
         end      |-> IF page >= page_cnt THEN tot_cnt ELSE page * PAGE_RESULT_CNT]

(* Is result number n on the page?                                         *)
Shows(tot_cnt, page, n) ==
    LET p == Paging(tot_cnt, page) IN p.begin < n /\ n <= p.end
=============================================================================
