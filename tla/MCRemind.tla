------------------------------ MODULE MCRemind ------------------------------
(***************************************************************************)
(* Model checking of Remind: a few people, two of one name, in cells that  *)
(* are written differently from row to row.                                *)
(***************************************************************************)
EXTENDS Remind

Of(name, team) == [name |-> name, team |-> team]

\* Names with and without a team, namesakes in two teams, no owner.
Cells == {<<>>, <<Of("kim", "")>>, <<Of("lee", "A"), Of("kim", "A")>>,
          <<Of("kim", "B"), Of("lee", "A")>>}

Row(group, owners, mode, server, sched, asset) ==
    [group |-> group, owners |-> owners, mode |-> mode, server |-> server,
     sched |-> sched, asset |-> asset]

\* Two rows of one service or of two; of one mode and server, or of two, and
\* then the second has a month in the sheet.  The first may be without owner.
MCRegisters ==
    {[i \in Items |->
        IF i = 1 THEN Row("g1", cells[i], "real", 1, "none", Of("kim", "C"))
        ELSE Row(key, cells[i], IF alike THEN "real" ELSE "nonstop",
                 IF alike THEN 1 ELSE 2, IF alike THEN "none" ELSE "month", Of("nobody", ""))] :
        key \in {"g1", "g2"}, cells \in {c \in [Items -> Cells] : c[N] # <<>>}, alike \in BOOLEAN}

MCRequesters == {[name |-> "kim", full |-> FALSE], [name |-> "lee", full |-> TRUE]}
=============================================================================
