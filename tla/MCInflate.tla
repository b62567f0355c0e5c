------------------------------ MODULE MCInflate ------------------------------
EXTENDS Inflate

\* Codes are looked up by four bits and are one to four bits long.
One(v)  == Field("lit", 1, 4, 0, v)
Four(v) == Field("lit", 4, 4, 0, v)
Eob2    == Field("eob", 2, 4, 0, 0)
Eob4    == Field("eob", 4, 4, 0, 0)
Match(c, d) == <<Field("len", 3, 4, 1, c), Field("dist", 1, 2, 2, d)>>

Opening(kind, last) == Field(kind, 3, 3, 0, last)
Wrong == Field("bad", 3, 3, 0, 0)

StoredBlock(n, last) ==
  <<Opening("stored", last), Field("lens", 8, 8, 0, n)>>
    \o [j \in 1 .. n |-> Field("byte", 4, 4, 0, j)]

Copies(last) ==
  <<Opening("fixed", last), Four(1), One(2)>> \o Match(4, 2)
    \o <<One(3), Four(4)>> \o Match(3, 6) \o <<One(5), Eob4>>
Short(last) ==
  <<Opening("fixed", last), One(1), One(2), One(3), One(4), Eob2>>
\* The literal at its end finds the window full and needs the tenth byte, of
\* which the end of the block leaves all bits.
Runs(last) ==
  <<Opening("dynamic", last), Field("table", 3, 3, 0, 2),
    Field("tree", 2, 3, 0, 0), Field("tree", 3, 3, 0, 0), One(1)>>
    \o Match(4, 1) \o Match(4, 3) \o Match(4, 5) \o <<One(7), Eob2>>

Blocks(last) == {Copies(last), Short(last), Runs(last),
                 StoredBlock(0, last), StoredBlock(9, last)}

\* What is left of the file behind an error, which nobody reads.
Unread == Field("bad", 14, 14, 0, 0)

\* Streams that break off with an error in each of the places for one.
Torn ==
  {<<Wrong>>,
   <<Opening("stored", 1), Wrong>>,
   <<Opening("dynamic", 1), Wrong>>,
   <<Opening("dynamic", 1), Field("table", 3, 3, 0, 1), Wrong>>,
   <<Opening("fixed", 1), One(1), Wrong, Unread>>,
   <<Opening("fixed", 1), One(1), Field("len", 3, 4, 1, 4), Wrong, Unread>>}

MCStreams == Blocks(1) \union Torn
    \union {a \o b : a \in Blocks(0), b \in Blocks(1)}
    \union {a \o b \o c : a \in Blocks(0), b \in Blocks(0), c \in Blocks(1)}
=============================================================================
