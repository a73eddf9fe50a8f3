----------------------------- MODULE MCCalendar -----------------------------
(***************************************************************************)
(* The 400 years after 1970, and walks across the years -32768, -10000,    *)
(* 0, 10000, 32768 and 67506 (which a short keeps as 1970).                *)
(***************************************************************************)
EXTENDS Calendar

Across == {<<0, 146097>>, <<-87, 24000>>, <<-30, 12000>>, <<-5, 13000>>,
           <<20, 12000>>, <<76, 146097>>, <<163, 146097>>}
=============================================================================
