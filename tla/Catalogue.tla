----------------------------- MODULE Catalogue -----------------------------
(***************************************************************************)
(* Products with their pictures and ratings, reviews, comments, categories *)
(* and roles.  Nothing here is a transaction: a call looks something up,   *)
(* uploads, and writes; other calls run in between.                        *)
(*                                                                         *)
(* A row has the name of the call that made it.  Each call does one of the *)
(* Jobs, records with the operation and its inputs.                        *)
(***************************************************************************)
EXTENDS Integers, FiniteSets, FiniteSetsExt, Functions

CONSTANTS
    Edits,     \* calls
    Jobs,      \* what they are asked to do
    Pictures,  \* how many pictures a call puts into a gallery
    Nobody     \* no call

\* A review is made with nothing found yet.
ASSUME CatalogueAssumption ==
    /\ IsFiniteSet(Edits) /\ Nobody \notin Edits /\ Pictures \in Nat
    /\ \A job \in Jobs : job.op = "review" =>
           /\ job.stars \in Nat
           /\ job = [op |-> "review", user |-> job.user, stars |-> job.stars, found |-> Nobody]

VARIABLES
    product,   \* rows of product
    gallery,   \* rows of product-image-gallery: [product, by, picture]
    review,    \* rows of product-review
    comment,   \* rows of product_comments
    entry,     \* rows of the three category tables and of roles
    edit,      \* the calls
    together   \* pairs of calls that were in flight together

catalogueVars == <<product, gallery, review, comment, entry, edit, together>>

\* A slug is a name and a counter; rated: the call that computed the rating of the
\* row, Nobody when reviews changed without one.  The slug of an entry is named by the
\* call that wrote it, and by those that had when the call found it in its own row.
NoProduct == [st |-> "none", slug |-> <<"none", 0>>, named |-> Nobody, rating |-> 0, rated |-> Nobody]
NoReview == [st |-> "none", product |-> Nobody, user |-> "none", stars |-> 0]
NoComment == [st |-> "none", product |-> Nobody, parent |-> Nobody, shown |-> FALSE]
NoEntry == [st |-> "none", table |-> "none", slug |-> "none", named |-> {}]
NewEdit == [pc |-> "new", job |-> [op |-> "none"], row |-> Nobody, slug |-> <<"none", 0>>, value |-> 0,
            claims |-> {}]

CatalogueInit ==
    /\ product = [k \in Edits |-> NoProduct]
    /\ gallery = {}
    /\ review = [k \in Edits |-> NoReview]
    /\ comment = [k \in Edits |-> NoComment]
    /\ entry = [k \in Edits |-> NoEntry]
    /\ edit = [k \in Edits |-> NewEdit]
    /\ together = {}

\* A call whose pictures failed has answered, and goes on with the other inserts.
Busy == {k \in Edits : edit[k].pc \notin {"new", "done"}}

\* The first read of a call, and what it keeps of it.
BeginsAs(k, pc, job, row, slug, claims) ==
    /\ edit[k].pc = "new"
    /\ edit' = [edit EXCEPT ![k] = [pc |-> pc, job |-> job, row |-> row, slug |-> slug, value |-> 0,
                                    claims |-> claims]]
    /\ together' = together \cup {{j, k} : j \in Busy}
Begins(k, pc, job, row, slug) == BeginsAs(k, pc, job, row, slug, {k})
Goes(k, pc) == edit' = [edit EXCEPT ![k].pc = pc] /\ UNCHANGED together

InStock(p) == p \in Edits /\ product[p].st = "live"

----------------------------------------------------------------------------
(* ProductService                                                           *)

\* generateUniqueSlug: the name, or the name with the first free counter from 2 on.
UniqueSlug(name, self) ==
    <<name, Min({n \in 1 .. Cardinality(Edits) + 1 :
                    \A p \in Edits \ {self} : InStock(p) => product[p].slug # <<name, n>>})>>

CreateProduct(k, job) ==
    /\ job.op = "create"
    /\ Begins(k, "insert", job, k, UniqueSlug(job.name, Nobody))
    /\ UNCHANGED <<product, gallery, review, comment, entry>>

InsertProduct(k) ==
    /\ edit[k].pc = "insert"
    /\ product' = [product EXCEPT ![k] = [NoProduct EXCEPT !.st = "live", !.slug = edit[k].slug, !.named = k]]
    /\ Goes(k, "pictures")
    /\ UNCHANGED <<gallery, review, comment, entry>>

\* The name is the old one or a new one; a slug is only looked for when one is given.
UpdateProduct(k, job) ==
    \E p \in Edits :
        /\ job.op = "update" /\ InStock(p)
        /\ Begins(k, "clear", job, p, IF job.name = "none" THEN <<"none", 0>> ELSE UniqueSlug(job.name, p))
        /\ UNCHANGED <<product, gallery, review, comment, entry>>

\* Mutant: pictures are added to those that are there.
KeepPictures(p) == gallery
OtherPictures(p) == {g \in gallery : g.product # p}
ClearGallery(k) ==
    /\ edit[k].pc = "clear"
    /\ gallery' = OtherPictures(edit[k].row)
    /\ Goes(k, "pictures")
    /\ UNCHANGED <<product, review, comment, entry>>

\* The inserts run together, each by itself: which picture comes first does not matter,
\* and when one fails the call has failed and the others still happen.
AddPicture(k) ==
    /\ edit[k].pc \in {"pictures", "failed"} /\ edit[k].value < Pictures
    /\ gallery' = gallery \cup {[product |-> edit[k].row, by |-> k, picture |-> edit[k].value + 1]}
    /\ edit' = [edit EXCEPT ![k].value = @ + 1]
    /\ UNCHANGED <<product, review, comment, entry, together>>

\* A new product is done, an old one is updated now.
PicturesDone(k) ==
    /\ edit[k].pc = "pictures" /\ edit[k].value = Pictures
    /\ Goes(k, IF edit[k].job.op = "create" THEN "done" ELSE "save")
    /\ UNCHANGED <<product, gallery, review, comment, entry>>

SaveProduct(k) ==
    LET p == edit[k].row IN
    /\ edit[k].pc = "save"
    /\ product' = IF edit[k].job.name = "none" THEN product
                  ELSE [product EXCEPT ![p] = [@ EXCEPT !.slug = edit[k].slug, !.named = k]]
    /\ Goes(k, "done")
    /\ UNCHANGED <<gallery, review, comment, entry>>

\* What softDelete writes back besides the mark is only in a row that nobody reads.
RemoveProduct(k, job) ==
    \E p \in Edits :
        /\ job.op = "remove" /\ InStock(p)
        /\ Begins(k, "done", job, p, <<"none", 0>>)
        /\ product' = [product EXCEPT ![p].st = "deleted"]
        /\ UNCHANGED <<gallery, review, comment, entry>>

----------------------------------------------------------------------------
(* ProductReviewService                                                     *)

ReviewsOf(p) == {r \in Edits : review[r].st = "live" /\ review[r].product = p}

\* The customer's review of the product is looked up, then updated or made.  The product
\* is not: it may be deleted.
Review(k, job) ==
    \E p \in Edits, found \in Edits \cup {Nobody} :
        LET mine == {r \in ReviewsOf(p) : review[r].user = job.user} IN
        /\ job.op = "review" /\ product[p].st # "none"
        /\ IF mine = {} THEN found = Nobody ELSE found \in mine
        /\ edit[k].pc = "new"
        /\ edit' = [edit EXCEPT ![k] = [pc |-> "write", job |-> [job EXCEPT !.found = found],
                                        row |-> p, slug |-> <<"none", 0>>, value |-> 0, claims |-> {k}]]
        /\ together' = together \cup {{j, k} : j \in Busy}
        /\ UNCHANGED <<product, gallery, review, comment, entry>>

WriteReview(k) ==
    LET job == edit[k].job
        r == IF job.found = Nobody THEN k ELSE job.found
    IN /\ edit[k].pc = "write"
       /\ review' = [review EXCEPT ![r] =
              IF r = k THEN [st |-> "live", product |-> edit[k].row, user |-> job.user, stars |-> job.stars]
              ELSE [@ EXCEPT !.stars = job.stars]]
       /\ Goes(k, "average")
       /\ UNCHANGED <<product, gallery, comment, entry>>

\* AVG(rating) with two decimals, in hundredths.
StarsOf(p) == [r \in ReviewsOf(p) |-> review[r].stars]
Average(stars) ==
    LET n == Cardinality(DOMAIN stars)
    IN (200 * SumFunction(stars) + n) \div (2 * n)

ReadAverage(k) ==
    LET p == edit[k].row IN
    /\ edit[k].pc = "average"
    /\ edit' = [edit EXCEPT ![k] = IF ReviewsOf(p) = {} THEN [@ EXCEPT !.pc = "done"]
                                   ELSE [@ EXCEPT !.pc = "rate", !.value = Average(StarsOf(p))]]
    /\ UNCHANGED <<product, gallery, review, comment, entry, together>>

WriteRating(k) ==
    /\ edit[k].pc = "rate"
    /\ product' = [product EXCEPT ![edit[k].row] = [@ EXCEPT !.rating = edit[k].value, !.rated = k]]
    /\ Goes(k, "done")
    /\ UNCHANGED <<gallery, review, comment, entry>>

\* The rating keeps the review that is removed.
RemoveReview(k, job) ==
    \E r \in Edits :
        /\ job.op = "unreview" /\ review[r].st = "live"
        /\ Begins(k, "done", job, r, <<"none", 0>>)
        /\ review' = [review EXCEPT ![r].st = "deleted"]
        /\ product' = [product EXCEPT ![review[r].product].rated = Nobody]
        /\ UNCHANGED <<gallery, comment, entry>>

----------------------------------------------------------------------------
(* ProductCommentService                                                    *)

\* A reply needs a parent of the product that is not deleted.
Comment(k, job) ==
    \E p \in Edits, parent \in Edits \cup {Nobody} :
        /\ job.op = "comment" /\ InStock(p)
        /\ parent # Nobody => comment[parent].st = "live" /\ comment[parent].product = p
        /\ Begins(k, "done", job, p, <<"none", 0>>)
        /\ comment' = [comment EXCEPT ![k] = [st |-> "live", product |-> p, parent |-> parent, shown |-> FALSE]]
        /\ UNCHANGED <<product, gallery, review, entry>>

\* updateStatus and remove; update changes the text alone.
Moderate(k, job) ==
    \E c \in Edits :
        /\ job.op \in {"approve", "disapprove", "uncomment"} /\ comment[c].st = "live"
        /\ Begins(k, "done", job, c, <<"none", 0>>)
        /\ comment' = [comment EXCEPT ![c] =
               IF job.op = "uncomment" THEN [@ EXCEPT !.st = "deleted"]
               ELSE [@ EXCEPT !.shown = (job.op = "approve")]]
        /\ UNCHANGED <<product, gallery, review, entry>>

\* listForProduct: approved comments, with all their replies, approved or not.
TopComments(p) == {c \in Edits : /\ comment[c].st = "live" /\ comment[c].product = p
                                /\ comment[c].parent = Nobody /\ comment[c].shown}
Replies(c) == {r \in Edits : comment[r].st = "live" /\ comment[r].parent = c}

----------------------------------------------------------------------------
(* The categories and the roles: one table each, checked and then written.  *)
(* A category that is renamed is checked again, a role is not; a role is    *)
(* deleted, a category is marked.                                          *)

EntriesNamed(t, name) == {e \in Edits : entry[e].st = "live" /\ entry[e].table = t /\ entry[e].slug = name}

CreateEntry(k, job) ==
    /\ job.op = "enter" /\ EntriesNamed(job.table, job.name) = {}
    /\ Begins(k, "enter", job, k, <<job.name, 1>>)
    /\ UNCHANGED <<product, gallery, review, comment, entry>>

\* findBySlug finds one row of the slug, whichever, and the row itself is no conflict.
RenameEntry(k, job) ==
    \E e \in Edits :
        LET named == EntriesNamed(job.table, job.name) IN
        /\ job.op = "rename" /\ entry[e].st = "live" /\ entry[e].table = job.table
        /\ job.table = "role" \/ named = {} \/ e \in named
        /\ BeginsAs(k, "rename", job, e, <<job.name, 1>>,
                    IF e \in named THEN {k} \cup entry[e].named ELSE {k})
        /\ UNCHANGED <<product, gallery, review, comment, entry>>

\* A renamed row may have been removed meanwhile; it stays removed.
WriteEntry(k) ==
    LET job == edit[k].job IN
    /\ edit[k].pc \in {"enter", "rename"}
    /\ entry' = [entry EXCEPT ![edit[k].row] =
           [st |-> IF job.op = "enter" THEN "live" ELSE @.st, table |-> job.table,
            slug |-> job.name, named |-> edit[k].claims]]
    /\ Goes(k, "done")
    /\ UNCHANGED <<product, gallery, review, comment>>

RemoveEntry(k, job) ==
    \E e \in Edits :
        /\ job.op = "drop" /\ entry[e].st = "live" /\ entry[e].table = job.table
        /\ Begins(k, "done", job, e, <<"none", 0>>)
        /\ entry' = [entry EXCEPT ![e].st = "deleted"]
        /\ UNCHANGED <<product, gallery, review, comment>>

----------------------------------------------------------------------------
\* An error ends a call between two of its steps, and its pictures not before the last
\* insert has ended.  A review that is written stays unrated.
EditFails(k) ==
    /\ k \in Busy
    /\ Goes(k, IF edit[k].pc = "pictures" THEN "failed" ELSE "done")
    /\ product' = IF edit[k].pc \in {"average", "rate"} THEN [product EXCEPT ![edit[k].row].rated = Nobody] ELSE product
    /\ UNCHANGED <<gallery, review, comment, entry>>

ProductCalls(k, job) == CreateProduct(k, job) \/ UpdateProduct(k, job) \/ RemoveProduct(k, job)
ReviewCalls(k, job) == Review(k, job) \/ RemoveReview(k, job)
CommentCalls(k, job) == Comment(k, job) \/ Moderate(k, job)
EntryCalls(k, job, table) ==
    /\ job.op \in {"enter", "rename", "drop"} /\ job.table = table
    /\ CreateEntry(k, job) \/ RenameEntry(k, job) \/ RemoveEntry(k, job)
MainCategoryCalls(k, job) == EntryCalls(k, job, "main")
FirstCategoryCalls(k, job) == EntryCalls(k, job, "first")
SecondCategoryCalls(k, job) == EntryCalls(k, job, "second")
RoleCalls(k, job) == EntryCalls(k, job, "role")

CatalogueNext ==
    \E k \in Edits :
        \/ edit[k].pc = "new" /\ \E job \in Jobs :
              \/ ProductCalls(k, job) \/ ReviewCalls(k, job) \/ CommentCalls(k, job)
              \/ MainCategoryCalls(k, job) \/ FirstCategoryCalls(k, job) \/ SecondCategoryCalls(k, job)
              \/ RoleCalls(k, job)
        \/ InsertProduct(k) \/ ClearGallery(k) \/ AddPicture(k) \/ PicturesDone(k) \/ SaveProduct(k)
        \/ WriteReview(k) \/ ReadAverage(k) \/ WriteRating(k) \/ WriteEntry(k)
        \/ EditFails(k)

CatalogueSpec == CatalogueInit /\ [][CatalogueNext]_catalogueVars

----------------------------------------------------------------------------
(* Properties.                                                              *)

CatalogueTypeOK ==
    \A k \in Edits :
        /\ product[k].st \in {"none", "live", "deleted"} /\ product[k].rating \in Nat
        /\ review[k].st \in {"none", "live", "deleted"}
        /\ comment[k].st \in {"none", "live", "deleted"} /\ comment[k].shown \in BOOLEAN
        /\ entry[k].st \in {"none", "live", "deleted"}
        /\ edit[k].pc \in {"new", "insert", "clear", "pictures", "failed", "save", "write", "average", "rate",
                         "enter", "rename", "done"}

Met(j, k) == j = k \/ {j, k} \in together

\* Only calls that were in flight together disturb one another: products and categories
\* of one slug, two reviews of a customer, pictures of two calls in a gallery.  A call
\* whose pictures failed is in flight till its inserts have ended.
SlugsDiffer ==
    \A p, q \in Edits :
        /\ InStock(p) /\ InStock(q) /\ product[p].slug = product[q].slug =>
               Met(product[p].named, product[q].named)
        /\ entry[p].st = "live" /\ q \in EntriesNamed(entry[p].table, entry[p].slug) /\ entry[p].table # "role" =>
               \E j \in entry[p].named, l \in entry[q].named : Met(j, l)
OneReviewEach ==
    \A r, s \in Edits :
        s \in ReviewsOf(review[r].product) /\ review[r].st = "live" /\ review[r].user = review[s].user => Met(r, s)
\* A shown comment is of the product, and so are the replies under it.
RepliesBelong ==
    \A p \in Edits : \A c \in TopComments(p) : \A r \in Replies(c) : comment[r].product = p
GalleryOfOneCall ==
    \A g, h \in gallery : g.product = h.product => Met(g.by, h.by)

\* The rating is the average of the reviews, when the call that computed it met none
\* that changed reviews of the product, none was removed since and none is being written.
ChangesReviewsOf(k, p) ==
    \/ edit[k].job.op = "review" /\ edit[k].row = p
    \/ edit[k].job.op = "unreview" /\ review[edit[k].row].product = p
RatingIsAverage ==
    \A p \in Edits :
        /\ InStock(p) /\ product[p].rated # Nobody
        /\ \A k \in Edits : ChangesReviewsOf(k, p) =>
               edit[k].pc = "done" /\ (k = product[p].rated \/ ~Met(k, product[p].rated))
        => product[p].rating = Average(StarsOf(p))

QuietCatalogueIsConsistent == SlugsDiffer /\ OneReviewEach /\ RepliesBelong /\ GalleryOfOneCall /\ RatingIsAverage
=============================================================================
