-------------------------- MODULE FeedsProperties --------------------------
(***************************************************************************)
(* What the lists on the screen have to do with the lists on the server.   *)
(***************************************************************************)
EXTENDS Feeds

\* What the rows of a controller show.
Shown(c) == SubSeq(IF c.topic = "coupons" THEN table ELSE c.data, 1, c.rows)

\* Nothing of the topic is on its way to the controllers.
Quiet(topic) ==
    /\ listen[topic] = "synced" /\ seen[topic] = server[topic]
    /\ \A i \in DOMAIN mainq : stack[mainq[i].to].topic # topic

\* The coupon table on the screen never has more rows than the shared arrays,
\* which a new instance empties and every old one still fills: tapping or
\* drawing a row (tokenArr[indexPath.section]) stays in range.
RowsInRange == Alive /\ Top.topic = "coupons" => Top.rows <= Len(table)

\* Once the news has arrived, the last rows of a list are the list as it is on
\* the server, complete: the row too many that AgendaVC's get() adds is the row
\* that numberOfSections leaves out, also after further updates, and controllers
\* that were covered meanwhile have missed nothing.
NewestIsShown ==
    \A i \in DOMAIN stack :
        Quiet(stack[i].topic) /\ (stack[i].topic = "coupons" => i = Len(stack))
            => IsSuffix(server[stack[i].topic], Shown(stack[i]))

\* A change of the list on the screen comes to be shown without a tap.
UpdateIsShown ==
    \A f \in Topics : \A list \in Lists :
        (Alive /\ Top.topic = f /\ server[f] = list)
            ~> \/ ~Alive \/ Top.topic # f \/ server[f] # list
               \/ IsSuffix(list, Shown(Top))

-----------------------------------------------------------------------------
(* An inductive invariant that implies the first two (FeedsProofs). *)

\* The k-th event waiting will add to what controller i shows.
Fills(k, i) ==
    \/ mainq[k].to = i
    \/ stack[i].topic = "coupons" /\ stack[mainq[k].to].topic = "coupons"

\* The last of these events brings the SDK's copy, and brings it to i itself;
\* when there is none any more, the copy is what the last rows show.
UpToDate(i) ==
    LET f == stack[i].topic
    IN  /\ \A k \in DOMAIN mainq :
              Fills(k, i) /\ (\A l \in DOMAIN mainq : Fills(l, i) => l <= k)
                  => mainq[k].to = i /\ mainq[k].list = seen[f]
        /\ listen[f] = "synced" /\ (\A k \in DOMAIN mainq : ~Fills(k, i))
               => /\ IsSuffix(seen[f], Shown(stack[i]))
                  /\ f = "coupons" => stack[i].rows = Len(table)

FeedsInv ==
    /\ TypeOK
    /\ \A k \in DOMAIN mainq : listen[stack[mainq[k].to].topic] = "synced"
    /\ \A i \in DOMAIN stack :
          (stack[i].topic = "coupons" => i = Len(stack)) => UpToDate(i)
    /\ RowsInRange

-----------------------------------------------------------------------------
\* README.md:35, "you will see the timeline of the event.  Keep checking the
\* timeline in case of live updates": after an update the timeline is the
\* agenda of the event.  Feeds refutes it (see README.md).
TimelineIsTheAgenda ==
    Alive /\ Top.topic = "agenda" /\ Quiet("agenda")
        => Shown(Top) = server["agenda"]
=============================================================================
