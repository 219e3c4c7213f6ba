---------------------------- MODULE Cache_proofs ----------------------------
(***************************************************************************)
(* Proofs about the store's thread and its tables, for any messages,       *)
(* views, queue, number of restarts and contents of the file at the start. *)
(***************************************************************************)
EXTENDS Cache, SequenceTheorems, TLAPS

Triggers == {"messages_fts_ai", "messages_fts_ad", "messages_fts_au"}

Objects == {"message_fts", "messages_fts_ai", "messages_fts_ad", "messages_fts_au",
            "_fts_rebuild_v1", "_body_cache_v2", "message_mailboxes", "pending_op_at",
            "_pending_op_at_v1"}

Databases == [objs : SUBSET Objects, rows : [Emails -> Row \cup {NULL}],
              atts : [Emails -> SUBSET Parts], filed : SUBSET Emails,
              fts : SUBSET (Emails \X Subjects \X (Body \cup {NULL}))]

\* The foreign keys, and an index that follows the rows.
Keys(d) ==
  /\ d \in Databases
  /\ \A e \in Emails : d.rows[e] = NULL => d.atts[e] = {} /\ e \notin d.filed

Indexed(d) == Triggers \subseteq d.objs /\ d.fts = Mirror(d)

Whole(d, e) == d.rows[e].body # NULL => d.atts[e] = d.rows[e].body.parts

Old(d, e)     == d.rows[e] # NULL /\ d.rows[e].body # NULL /\ d.rows[e].body.by # "new"
Untimed(d, e) == d.rows[e] # NULL /\ d.rows[e].pending = "untimed"
Bare(d, e)    == d.rows[e] # NULL /\ e \notin d.filed

\* A message's body and attachments are whole, or are those of before.
Keeps(d, n, e) ==
  n.rows[e] # NULL =>
    \/ Whole(n, e)
    \/ d.rows[e] # NULL /\ n.rows[e].body = d.rows[e].body /\ n.atts[e] = d.atts[e]

\* What a statement makes of a database: the keys hold, the index follows, and
\* nothing old, untimed or without a mailbox is new.
Follows(d, n) ==
  /\ Keys(n) /\ d.objs \subseteq n.objs
  /\ Indexed(d) => Indexed(n)
  /\ \A e \in Emails : /\ Old(n, e) => Old(d, e)
                       /\ Untimed(n, e) => Untimed(d, e)
                       /\ Bare(n, e) => Bare(d, e)

\* What a command makes of it: no object is new and no body is lost either.
Serves(d, n) ==
  /\ Follows(d, n) /\ n.objs = d.objs
  /\ \A e \in Emails :
       d.rows[e] # NULL /\ d.rows[e].body # NULL /\ n.rows[e] # NULL => n.rows[e].body # NULL

-----------------------------------------------------------------------------
\* The statements.

LEMMA EntryFacts ==
  ASSUME NEW e, NEW r, NEW f, NEW s
  PROVE  Entry(e, r) = Entry(f, s) => e = f
BY DEF Entry

LEMMA MirrorFacts ==
  ASSUME NEW d \in Databases, NEW d2 \in Databases, NEW e \in Emails, NEW new \in Row \cup {NULL},
         d2.rows = [d.rows EXCEPT ![e] = new]
  PROVE  \A x : x \in Mirror(d2) <=> \/ x \in Mirror(d) /\ (d.rows[e] # NULL => x # Entry(e, d.rows[e]))
                                     \/ new # NULL /\ x = Entry(e, new)
<1>0. d2.rows[e] = new /\ \A f \in Emails : f # e => d2.rows[f] = d.rows[f]
  BY DEF Databases
<1>1. ASSUME NEW x \in Mirror(d2)
      PROVE  \/ x \in Mirror(d) /\ (d.rows[e] # NULL => x # Entry(e, d.rows[e]))
             \/ new # NULL /\ x = Entry(e, new)
  <2>1. PICK f \in Emails : d2.rows[f] # NULL /\ x = Entry(f, d2.rows[f])
    BY DEF Mirror, Stored
  <2>2. CASE f = e
    BY <1>0, <2>1, <2>2
  <2>3. CASE f # e
    <3>1. x \in Mirror(d) /\ x = Entry(f, d.rows[f])
      BY <1>0, <2>1, <2>3 DEF Mirror, Stored
    <3>2. x # Entry(e, d.rows[e])
      BY <2>3, <3>1, EntryFacts
    <3> QED BY <3>1, <3>2
  <2> QED BY <2>2, <2>3
<1>2. ASSUME NEW x \in Mirror(d), d.rows[e] # NULL => x # Entry(e, d.rows[e])
      PROVE  x \in Mirror(d2)
  <2>1. PICK f \in Emails : d.rows[f] # NULL /\ x = Entry(f, d.rows[f])
    BY DEF Mirror, Stored
  <2>2. f # e
    BY <1>2, <2>1
  <2> QED BY <1>0, <2>1, <2>2 DEF Mirror, Stored
<1>3. new # NULL => Entry(e, new) \in Mirror(d2)
  BY <1>0 DEF Mirror, Stored
<1> QED BY <1>1, <1>2, <1>3

\* A row is written and the triggers run.
LEMMA SetRowFacts ==
  ASSUME NEW d \in Databases, NEW e \in Emails, NEW new \in Row \cup {NULL}
  PROVE  LET n == SetRow(d, e, new)
         IN  /\ n \in Databases /\ n.objs = d.objs /\ n.atts = d.atts /\ n.filed = d.filed
             /\ n.rows[e] = new /\ \A f \in Emails : f # e => n.rows[f] = d.rows[f]
             /\ Indexed(d) => Indexed(n)
<1>0. PICK n : n = SetRow(d, e, new)
  OBVIOUS
<1>1. Index(d, e, new) \in SUBSET (Emails \X Subjects \X (Body \cup {NULL}))
  <2>1. new # NULL => Entry(e, new) \in Emails \X Subjects \X (Body \cup {NULL})
    BY DEF Entry, Row
  <2>2. d.fts \in SUBSET (Emails \X Subjects \X (Body \cup {NULL}))
    BY DEF Databases
  <2> QED BY <2>1, <2>2 DEF Index
<1>2. /\ n \in Databases /\ n.objs = d.objs /\ n.atts = d.atts /\ n.filed = d.filed
      /\ n.rows = [d.rows EXCEPT ![e] = new] /\ n.fts = Index(d, e, new)
  <2>1. PICK i : i = Index(d, e, new)
    OBVIOUS
  <2>2. n = [d EXCEPT !.rows[e] = new, !.fts = i]
    BY <1>0, <2>1 DEF SetRow
  <2>3. n = [[d EXCEPT !.rows = [d.rows EXCEPT ![e] = new]] EXCEPT !.fts = i]
    BY <2>2 DEF Databases
  <2>4. PICK r \in [Emails -> Row \cup {NULL}] : r = [d.rows EXCEPT ![e] = new]
    BY DEF Databases
  <2>5. n = [[d EXCEPT !.rows = r] EXCEPT !.fts = i]
    BY <2>3, <2>4
  <2>6. n \in Databases /\ n.objs = d.objs /\ n.atts = d.atts /\ n.filed = d.filed
        /\ n.rows = r /\ n.fts = i
    BY <1>1, <2>1, <2>5 DEF Databases
  <2> QED BY <2>1, <2>4, <2>6
<1>3. /\ n.rows[e] = new /\ \A f \in Emails : f # e => n.rows[f] = d.rows[f]
  BY <1>2 DEF Databases
<1>4. ASSUME Indexed(d) PROVE Indexed(n)
  <2>1. Triggers \subseteq n.objs /\ d.fts = Mirror(d)
    BY <1>2, <1>4 DEF Indexed
  <2>2. \A x : x \in n.fts <=> \/ x \in Mirror(d) /\ (d.rows[e] # NULL => x # Entry(e, d.rows[e]))
                               \/ new # NULL /\ x = Entry(e, new)
    BY <1>2, <2>1 DEF Index, Triggers
  <2>3. \A x : x \in Mirror(n) <=> \/ x \in Mirror(d) /\ (d.rows[e] # NULL => x # Entry(e, d.rows[e]))
                                   \/ new # NULL /\ x = Entry(e, new)
    BY <1>2, MirrorFacts
  <2> QED BY <2>1, <2>2, <2>3 DEF Indexed
<1> QED BY <1>0, <1>2, <1>3, <1>4

\* One message is written; the others stay.
Writes(d, n, e) ==
  /\ n \in Databases /\ n.objs = d.objs
  /\ \A g \in Emails : g # e => n.rows[g] = d.rows[g] /\ n.atts[g] = d.atts[g]
  /\ Indexed(d) => Indexed(n)

LEMMA WriteFacts ==
  ASSUME NEW d \in Databases, NEW e \in Emails, NEW new \in Row \cup {NULL},
         NEW n \in Databases, n.objs = d.objs,
         n.rows = SetRow(d, e, new).rows, n.fts = SetRow(d, e, new).fts,
         \A g \in Emails : g # e => n.atts[g] = d.atts[g]
  PROVE  Writes(d, n, e) /\ n.rows[e] = new
<1>1. PICK m : m = SetRow(d, e, new)
  OBVIOUS
<1>2. /\ m \in Databases /\ m.objs = d.objs
      /\ m.rows[e] = new /\ \A g \in Emails : g # e => m.rows[g] = d.rows[g]
      /\ Indexed(d) => Indexed(m)
  BY <1>1, SetRowFacts
<1>3. Mirror(n) = Mirror(m)
  BY <1>1 DEF Mirror, Stored
<1>4. Indexed(m) => Indexed(n)
  BY <1>1, <1>2, <1>3 DEF Indexed
<1> QED BY <1>1, <1>2, <1>4 DEF Writes

LEMMA UpsertFacts ==
  ASSUME NEW d \in Databases, NEW e \in Emails, NEW s \in Subjects
  PROVE  LET n == Upsert(d, e, s)
         IN  /\ Writes(d, n, e) /\ n.rows[e] # NULL
             /\ n.atts[e] = d.atts[e] /\ n.filed = d.filed \cup {e}
             /\ n.rows[e].body = IF d.rows[e] = NULL THEN NULL ELSE d.rows[e].body
             /\ n.rows[e].pending = IF d.rows[e] = NULL THEN "none" ELSE d.rows[e].pending
<1>1. PICK new : new = IF d.rows[e] = NULL
                       THEN [subject |-> s, body |-> NULL, pending |-> "none"]
                       ELSE [d.rows[e] EXCEPT !.subject = s]
  OBVIOUS
<1>2. /\ new \in Row
      /\ new.body = IF d.rows[e] = NULL THEN NULL ELSE d.rows[e].body
      /\ new.pending = IF d.rows[e] = NULL THEN "none" ELSE d.rows[e].pending
  BY <1>1 DEF Databases, Row
<1>3. PICK m : m = SetRow(d, e, new)
  OBVIOUS
<1>4. m \in Databases /\ m.objs = d.objs /\ m.atts = d.atts /\ m.filed = d.filed
  BY <1>2, <1>3, SetRowFacts
<1>5. PICK n : n = [m EXCEPT !.filed = @ \cup {e}]
  OBVIOUS
<1>6. /\ n \in Databases /\ n.objs = m.objs /\ n.rows = m.rows /\ n.fts = m.fts
      /\ n.atts = m.atts /\ n.filed = d.filed \cup {e}
  BY <1>4, <1>5 DEF Databases
<1>7. Writes(d, n, e) /\ n.rows[e] = new
  BY <1>2, <1>3, <1>4, <1>6, WriteFacts
<1>8. n = Upsert(d, e, s)
  BY <1>1, <1>3, <1>5 DEF Upsert
<1> QED BY <1>2, <1>4, <1>6, <1>7, <1>8, CacheAssumption

LEMMA RemoveFacts ==
  ASSUME NEW d \in Databases, NEW e \in Emails
  PROVE  LET n == Remove(d, e)
         IN  Writes(d, n, e) /\ n.rows[e] = NULL /\ n.atts[e] = {} /\ n.filed = d.filed \ {e}
<1>1. PICK m : m = SetRow(d, e, NULL)
  OBVIOUS
<1>2. m \in Databases /\ m.objs = d.objs /\ m.atts = d.atts /\ m.filed = d.filed
  BY <1>1, SetRowFacts
<1>3. PICK n : n = [m EXCEPT !.atts[e] = {}, !.filed = @ \ {e}]
  OBVIOUS
<1>4. PICK a \in [Emails -> SUBSET Parts] : a = [m.atts EXCEPT ![e] = {}]
  BY <1>2 DEF Databases
<1>5. n = [m EXCEPT !.atts = a, !.filed = @ \ {e}]
  BY <1>2, <1>3, <1>4 DEF Databases
<1>6. /\ n \in Databases /\ n.objs = m.objs /\ n.rows = m.rows /\ n.fts = m.fts
      /\ n.atts = a /\ n.filed = d.filed \ {e}
  BY <1>2, <1>5 DEF Databases
<1>7. a[e] = {} /\ \A g \in Emails : g # e => a[g] = d.atts[g]
  BY <1>2, <1>4 DEF Databases
<1>8. Writes(d, n, e) /\ n.rows[e] = NULL
  BY <1>1, <1>2, <1>6, <1>7, WriteFacts
<1>9. n = Remove(d, e)
  BY <1>1, <1>3 DEF Remove
<1> QED BY <1>6, <1>7, <1>8, <1>9

LEMMA SaveBodyFacts ==
  ASSUME NEW d \in Databases, NEW e \in Emails, NEW parts \in SUBSET Parts, d.rows[e] # NULL
  PROVE  LET n == SaveBody(d, e, parts)
         IN  /\ Writes(d, n, e) /\ n.rows[e] # NULL
             /\ n.atts[e] = parts /\ n.filed = d.filed
             /\ n.rows[e].body = [by |-> "new", parts |-> parts]
             /\ n.rows[e].pending = d.rows[e].pending
<1>1. PICK body \in Body : body = [by |-> "new", parts |-> parts]
  BY DEF Body
<1>2. PICK new : new = [d.rows[e] EXCEPT !.body = body]
  OBVIOUS
<1>3. new \in Row /\ new.body = body /\ new.pending = d.rows[e].pending
  BY <1>1, <1>2 DEF Databases, Row
<1>4. PICK m : m = SetRow(d, e, new)
  OBVIOUS
<1>5. m \in Databases /\ m.objs = d.objs /\ m.atts = d.atts /\ m.filed = d.filed
  BY <1>3, <1>4, SetRowFacts
<1>6. PICK n : n = [m EXCEPT !.atts[e] = parts]
  OBVIOUS
<1>7. PICK a \in [Emails -> SUBSET Parts] : a = [m.atts EXCEPT ![e] = parts]
  BY <1>5 DEF Databases
<1>8. n = [m EXCEPT !.atts = a]
  BY <1>5, <1>6, <1>7 DEF Databases
<1>9. /\ n \in Databases /\ n.objs = m.objs /\ n.rows = m.rows /\ n.fts = m.fts
      /\ n.atts = a /\ n.filed = d.filed
  BY <1>5, <1>8 DEF Databases
<1>10. a[e] = parts /\ \A g \in Emails : g # e => a[g] = d.atts[g]
  BY <1>5, <1>7 DEF Databases
<1>11. Writes(d, n, e) /\ n.rows[e] = new
  BY <1>3, <1>4, <1>5, <1>9, <1>10, WriteFacts
<1>12. n = SaveBody(d, e, parts)
  BY <1>1, <1>2, <1>4, <1>6 DEF SaveBody
<1> QED BY <1>1, <1>3, <1>9, <1>10, <1>11, <1>12, CacheAssumption

LEMMA MarkPendingFacts ==
  ASSUME NEW d \in Databases, NEW e \in Emails, d.rows[e] # NULL
  PROVE  LET n == MarkPending(d, e)
         IN  /\ Writes(d, n, e) /\ n.rows[e] # NULL
             /\ n.atts[e] = d.atts[e] /\ n.filed = d.filed
             /\ n.rows[e].body = d.rows[e].body /\ n.rows[e].pending = "timed"
<1>1. PICK new : new = [d.rows[e] EXCEPT !.pending = "timed"]
  OBVIOUS
<1>2. new \in Row /\ new.body = d.rows[e].body /\ new.pending = "timed"
  BY <1>1 DEF Databases, Row
<1>3. PICK n : n = SetRow(d, e, new)
  OBVIOUS
<1>4. n \in Databases /\ n.objs = d.objs /\ n.atts = d.atts /\ n.filed = d.filed
  BY <1>2, <1>3, SetRowFacts
<1>5. Writes(d, n, e) /\ n.rows[e] = new
  BY <1>2, <1>3, <1>4, WriteFacts
<1>6. n = MarkPending(d, e)
  BY <1>1, <1>3 DEF MarkPending
<1> QED BY <1>2, <1>4, <1>5, <1>6, CacheAssumption

LEMMA PruneFacts ==
  ASSUME NEW d, Keys(d), NEW leave \in SUBSET Emails
  PROVE  LET n == Prune(d, leave)
         IN  /\ n \in Databases /\ n.objs = d.objs /\ n.filed = d.filed \ leave
             /\ \A e \in Emails :
                  IF e \in d.filed \ leave THEN n.rows[e] = d.rows[e] /\ n.atts[e] = d.atts[e]
                  ELSE n.rows[e] = NULL /\ n.atts[e] = {}
             /\ Indexed(d) => Indexed(n)
<1>0. d \in Databases
  BY DEF Keys
<1>1. PICK keep \in SUBSET Emails : keep = d.filed \ leave
  BY <1>0 DEF Databases
<1>2. PICK r \in [Emails -> Row \cup {NULL}] :
        r = [e \in Emails |-> IF e \in keep THEN d.rows[e] ELSE NULL]
  BY <1>0 DEF Databases
<1>3. PICK a \in [Emails -> SUBSET Parts] :
        a = [e \in Emails |-> IF e \in keep THEN d.atts[e] ELSE {}]
  BY <1>0 DEF Databases
<1>4. PICK i : i = d.fts \ {Entry(e, d.rows[e]) : e \in Stored(d) \ keep}
  OBVIOUS
<1>5. i \in SUBSET (Emails \X Subjects \X (Body \cup {NULL}))
  BY <1>0, <1>4 DEF Databases
<1>6. PICK n : n = [d EXCEPT !.rows = r, !.atts = a, !.filed = keep, !.fts = i]
  OBVIOUS
<1>7. n \in Databases /\ n.objs = d.objs /\ n.filed = keep /\ n.rows = r /\ n.atts = a /\ n.fts = i
  BY <1>0, <1>5, <1>6 DEF Databases
<1>8. n = Prune(d, leave)
  BY <1>0, <1>1, <1>2, <1>3, <1>4, <1>6 DEF Prune, Databases
<1>9. ASSUME Indexed(d) PROVE Indexed(n)
  <2>1. d.fts = Mirror(d) /\ Triggers \subseteq n.objs
    BY <1>7, <1>9 DEF Indexed
  <2>2. ASSUME NEW x \in Mirror(n) PROVE x \in i
    <3>1. PICK e \in Emails : r[e] # NULL /\ x = Entry(e, r[e])
      BY <1>7 DEF Mirror, Stored
    <3>2. e \in keep /\ r[e] = d.rows[e]
      BY <1>2, <3>1
    <3>3. x \in Mirror(d)
      BY <3>1, <3>2 DEF Mirror, Stored
    <3>4. \A f \in Stored(d) \ keep : x # Entry(f, d.rows[f])
      BY <3>1, <3>2, EntryFacts
    <3> QED BY <1>4, <2>1, <3>3, <3>4
  <2>3. ASSUME NEW x \in i PROVE x \in Mirror(n)
    <3>1. x \in Mirror(d) /\ \A f \in Stored(d) \ keep : x # Entry(f, d.rows[f])
      BY <1>4, <2>1
    <3>2. PICK e \in Stored(d) : x = Entry(e, d.rows[e])
      BY <3>1 DEF Mirror
    <3>3. e \in keep /\ e \in Emails /\ d.rows[e] # NULL
      BY <3>1, <3>2 DEF Stored
    <3>4. r[e] = d.rows[e]
      BY <1>2, <3>3
    <3> QED BY <1>7, <3>2, <3>3, <3>4 DEF Mirror, Stored
  <2> QED BY <1>7, <2>1, <2>2, <2>3 DEF Indexed
<1>10. \A e \in Emails : IF e \in d.filed \ leave THEN n.rows[e] = d.rows[e] /\ n.atts[e] = d.atts[e]
                         ELSE n.rows[e] = NULL /\ n.atts[e] = {}
  BY <1>1, <1>2, <1>3, <1>7
<1> QED BY <1>1, <1>7, <1>8, <1>9, <1>10

-----------------------------------------------------------------------------
\* What the commands promise.

LEMMA WritesServe ==
  ASSUME NEW d, Keys(d), NEW n, NEW e \in Emails, Writes(d, n, e),
         n.filed \ {e} = d.filed \ {e},
         n.rows[e] = NULL => n.atts[e] = {} /\ e \notin n.filed,
         Old(n, e) => Old(d, e), Untimed(n, e) => Untimed(d, e), Bare(n, e) => Bare(d, e),
         d.rows[e] # NULL /\ d.rows[e].body # NULL /\ n.rows[e] # NULL => n.rows[e].body # NULL
  PROVE  Serves(d, n) /\ \A f \in Emails : f # e => Keeps(d, n, f)
<1>1. ASSUME NEW f \in Emails, f # e
      PROVE  /\ n.rows[f] = d.rows[f] /\ n.atts[f] = d.atts[f] /\ (f \in n.filed <=> f \in d.filed)
             /\ d.rows[f] = NULL => d.atts[f] = {} /\ f \notin d.filed
  BY <1>1 DEF Writes, Keys
<1>2. Keys(n)
  BY <1>1 DEF Keys, Writes
<1>3. \A f \in Emails : Old(n, f) => Old(d, f)
  BY <1>1 DEF Old
<1>4. \A f \in Emails : Untimed(n, f) => Untimed(d, f)
  BY <1>1 DEF Untimed
<1>5. \A f \in Emails : Bare(n, f) => Bare(d, f)
  BY <1>1 DEF Bare
<1>6. \A f \in Emails :
        d.rows[f] # NULL /\ d.rows[f].body # NULL /\ n.rows[f] # NULL => n.rows[f].body # NULL
  BY <1>1
<1>7. \A f \in Emails : f # e => Keeps(d, n, f)
  BY <1>1 DEF Keeps
<1> QED BY <1>2, <1>3, <1>4, <1>5, <1>6, <1>7 DEF Serves, Follows, Writes

LEMMA UpsertServes ==
  ASSUME NEW d, Keys(d), NEW e \in Emails, NEW s \in Subjects
  PROVE  Serves(d, Upsert(d, e, s)) /\ \A f \in Emails : Keeps(d, Upsert(d, e, s), f)
<1>1. PICK n : n = Upsert(d, e, s)
  OBVIOUS
<1>2. d \in Databases
  BY DEF Keys
<1>3. /\ Writes(d, n, e) /\ n.rows[e] # NULL
      /\ n.atts[e] = d.atts[e] /\ n.filed = d.filed \cup {e}
      /\ n.rows[e].body = IF d.rows[e] = NULL THEN NULL ELSE d.rows[e].body
      /\ n.rows[e].pending = IF d.rows[e] = NULL THEN "none" ELSE d.rows[e].pending
  BY <1>1, <1>2, UpsertFacts
<1>4. /\ Old(n, e) => Old(d, e)
      /\ Untimed(n, e) => Untimed(d, e)
      /\ Bare(n, e) => Bare(d, e)
  BY <1>3 DEF Old, Untimed, Bare
<1>5. Serves(d, n) /\ \A f \in Emails : f # e => Keeps(d, n, f)
  BY <1>3, <1>4, WritesServe
<1>6. Keeps(d, n, e)
  BY <1>3 DEF Keeps, Whole
<1> QED BY <1>1, <1>5, <1>6

LEMMA RemoveServes ==
  ASSUME NEW d, Keys(d), NEW e \in Emails
  PROVE  /\ Serves(d, Remove(d, e)) /\ \A f \in Emails : Keeps(d, Remove(d, e), f)
         /\ Remove(d, e).rows[e] = NULL
<1>1. PICK n : n = Remove(d, e)
  OBVIOUS
<1>2. d \in Databases
  BY DEF Keys
<1>3. Writes(d, n, e) /\ n.rows[e] = NULL /\ n.atts[e] = {} /\ n.filed = d.filed \ {e}
  BY <1>1, <1>2, RemoveFacts
<1>4. Serves(d, n) /\ \A f \in Emails : f # e => Keeps(d, n, f)
  BY <1>3, WritesServe DEF Old, Untimed, Bare
<1>5. Keeps(d, n, e)
  BY <1>3 DEF Keeps
<1> QED BY <1>1, <1>3, <1>4, <1>5

LEMMA SaveBodyServes ==
  ASSUME NEW d, Keys(d), NEW e \in Emails, NEW parts \in SUBSET Parts
  PROVE  /\ Serves(d, SaveBody(d, e, parts))
         /\ \A f \in Emails : Keeps(d, SaveBody(d, e, parts), f)
         /\ SaveBody(d, e, parts) # d => Whole(SaveBody(d, e, parts), e)
<1>1. PICK n : n = SaveBody(d, e, parts)
  OBVIOUS
<1>2. d \in Databases
  BY DEF Keys
<1>3. CASE d.rows[e] = NULL
  <2>1. n = d
    BY <1>1, <1>3 DEF SaveBody
  <2> QED BY <1>1, <2>1 DEF Serves, Follows, Keeps
<1>4. CASE d.rows[e] # NULL
  <2>1. /\ Writes(d, n, e) /\ n.rows[e] # NULL
        /\ n.atts[e] = parts /\ n.filed = d.filed
        /\ n.rows[e].body = [by |-> "new", parts |-> parts]
        /\ n.rows[e].pending = d.rows[e].pending
    BY <1>1, <1>2, <1>4, SaveBodyFacts
  <2>2. n.rows[e].body \in Body /\ n.rows[e].body.by = "new" /\ n.rows[e].body.parts = parts
    BY <2>1 DEF Body
  <2>3. /\ Old(n, e) => Old(d, e)
        /\ Untimed(n, e) => Untimed(d, e)
        /\ Bare(n, e) => Bare(d, e)
    BY <1>4, <2>1, <2>2 DEF Old, Untimed, Bare
  <2>4. Serves(d, n) /\ \A f \in Emails : f # e => Keeps(d, n, f)
    BY <2>1, <2>2, <2>3, WritesServe, CacheAssumption
  <2>5. Whole(n, e)
    BY <2>1, <2>2 DEF Whole
  <2> QED BY <1>1, <2>1, <2>4, <2>5 DEF Keeps
<1> QED BY <1>3, <1>4

LEMMA MarkPendingServes ==
  ASSUME NEW d, Keys(d), NEW e \in Emails
  PROVE  Serves(d, MarkPending(d, e)) /\ \A f \in Emails : Keeps(d, MarkPending(d, e), f)
<1>1. PICK n : n = MarkPending(d, e)
  OBVIOUS
<1>2. d \in Databases
  BY DEF Keys
<1>3. CASE d.rows[e] = NULL
  <2>1. n = d
    BY <1>1, <1>3 DEF MarkPending
  <2> QED BY <1>1, <2>1 DEF Serves, Follows, Keeps
<1>4. CASE d.rows[e] # NULL
  <2>1. /\ Writes(d, n, e) /\ n.rows[e] # NULL
        /\ n.atts[e] = d.atts[e] /\ n.filed = d.filed
        /\ n.rows[e].body = d.rows[e].body /\ n.rows[e].pending = "timed"
    BY <1>1, <1>2, <1>4, MarkPendingFacts
  <2>2. /\ Old(n, e) => Old(d, e)
        /\ Untimed(n, e) => Untimed(d, e)
        /\ Bare(n, e) => Bare(d, e)
    BY <1>4, <2>1 DEF Old, Untimed, Bare
  <2>3. Serves(d, n) /\ \A f \in Emails : f # e => Keeps(d, n, f)
    BY <2>1, <2>2, WritesServe
  <2> QED BY <1>1, <1>4, <2>1, <2>3 DEF Keeps
<1> QED BY <1>3, <1>4

LEMMA PruneServes ==
  ASSUME NEW d, Keys(d), NEW leave \in SUBSET Emails
  PROVE  Serves(d, Prune(d, leave)) /\ \A f \in Emails : Keeps(d, Prune(d, leave), f)
<1>1. PICK n : n = Prune(d, leave)
  OBVIOUS
<1>2. /\ n \in Databases /\ n.objs = d.objs /\ n.filed = d.filed \ leave
      /\ \A e \in Emails : IF e \in d.filed \ leave THEN n.rows[e] = d.rows[e] /\ n.atts[e] = d.atts[e]
                           ELSE n.rows[e] = NULL /\ n.atts[e] = {}
      /\ Indexed(d) => Indexed(n)
  BY <1>1, PruneFacts
<1>3. Keys(n)
  BY <1>2 DEF Keys
<1>4. \A e \in Emails : /\ Old(n, e) => Old(d, e)
                        /\ Untimed(n, e) => Untimed(d, e)
                        /\ Bare(n, e) => Bare(d, e)
                        /\ n.rows[e] # NULL => n.rows[e] = d.rows[e]
                        /\ Keeps(d, n, e)
  BY <1>2 DEF Old, Untimed, Bare, Keeps
<1> QED BY <1>1, <1>2, <1>3, <1>4 DEF Serves, Follows

\* The first half of a removal: no attachments, until the row goes too.
LEMMA DropAttachmentsServes ==
  ASSUME NEW d, Keys(d), NEW e \in Emails
  PROVE  LET n == [d EXCEPT !.atts[e] = {}]
         IN  Serves(d, n) /\ \A f \in Emails : f # e => Keeps(d, n, f)
<1>1. PICK n : n = [d EXCEPT !.atts[e] = {}]
  OBVIOUS
<1>2. d \in Databases
  BY DEF Keys
<1>3. PICK a \in [Emails -> SUBSET Parts] : a = [d.atts EXCEPT ![e] = {}]
  BY <1>2 DEF Databases
<1>4. n = [d EXCEPT !.atts = a]
  BY <1>1, <1>2, <1>3 DEF Databases
<1>5. /\ n \in Databases /\ n.objs = d.objs /\ n.rows = d.rows /\ n.fts = d.fts
      /\ n.atts = a /\ n.filed = d.filed
  BY <1>2, <1>4 DEF Databases
<1>6. a[e] = {} /\ \A g \in Emails : g # e => a[g] = d.atts[g]
  BY <1>2, <1>3 DEF Databases
<1>7. Mirror(n) = Mirror(d)
  BY <1>5 DEF Mirror, Stored
<1>8. Writes(d, n, e)
  BY <1>5, <1>6, <1>7 DEF Writes, Indexed
<1>9. Serves(d, n) /\ \A f \in Emails : f # e => Keeps(d, n, f)
  <2>1. n.rows[e] = NULL => n.atts[e] = {} /\ e \notin n.filed
    BY <1>5, <1>6 DEF Keys
  <2>2. /\ Old(n, e) => Old(d, e)
        /\ Untimed(n, e) => Untimed(d, e)
        /\ Bare(n, e) => Bare(d, e)
    BY <1>5 DEF Old, Untimed, Bare
  <2> QED BY <1>5, <1>8, <2>1, <2>2, WritesServe
<1> QED BY <1>1, <1>9

-----------------------------------------------------------------------------
\* The statements of the migrations.

LEMMA MigrationFacts ==
  /\ Len(Migrations) = 8
  /\ Migrations[1] = [marker |-> NULL, run |-> <<"message_fts">>]
  /\ Migrations[2] = [marker |-> NULL, run |-> <<"messages_fts_ai">>]
  /\ Migrations[3] = [marker |-> NULL, run |-> <<"messages_fts_ad">>]
  /\ Migrations[4] = [marker |-> NULL, run |-> <<"messages_fts_au">>]
  /\ Migrations[5] = [marker |-> "_fts_rebuild_v1", run |-> <<"rebuild", "_fts_rebuild_v1">>]
  /\ Migrations[6] = [marker |-> "_body_cache_v2", run |-> <<"invalidate", "_body_cache_v2">>]
  /\ Migrations[7] = [marker |-> "message_mailboxes", run |-> <<"message_mailboxes", "backfill">>]
  /\ Migrations[8] = [marker |-> "_pending_op_at_v1",
                      run |-> <<"pending_op_at", "stamp", "_pending_op_at_v1">>]
BY DEF Migrations

LEMMA NameFacts ==
  /\ NULL \notin Objects
  /\ "backfill" \notin Emails /\ "stamp" \notin Emails /\ "_pending_op_at_v1" \notin Emails
<1>1. \A m \in 1..8 : \A s \in 1..Len(Migrations[m].run) :
        Migrations[m].run[s] \notin Emails \cup {NULL}
  BY NameAssumption, MigrationFacts
<1>2. \A m \in 1..4 : Len(Migrations[m].run) = 1
  BY MigrationFacts
<1>3. \A m \in 5..7 : Len(Migrations[m].run) = 2
  BY MigrationFacts
<1>4. Len(Migrations[8].run) = 3
  BY MigrationFacts
<1>5. \A m \in 1..8 : Migrations[m].run[1] \notin Emails \cup {NULL}
  BY <1>1, <1>2, <1>3, <1>4
<1>6. \A m \in 5..8 : Migrations[m].run[2] \notin Emails \cup {NULL}
  BY <1>1, <1>3, <1>4
<1>7. Migrations[8].run[3] \notin Emails \cup {NULL}
  BY <1>1, <1>4
<1>8. /\ Migrations[1].run[1] = "message_fts" /\ Migrations[2].run[1] = "messages_fts_ai"
      /\ Migrations[3].run[1] = "messages_fts_ad" /\ Migrations[4].run[1] = "messages_fts_au"
      /\ Migrations[5].run[2] = "_fts_rebuild_v1" /\ Migrations[6].run[2] = "_body_cache_v2"
      /\ Migrations[7].run[1] = "message_mailboxes" /\ Migrations[8].run[1] = "pending_op_at"
  BY MigrationFacts
<1>9. Migrations[7].run[2] = "backfill" /\ Migrations[8].run[2] = "stamp"
      /\ Migrations[8].run[3] = "_pending_op_at_v1"
  BY MigrationFacts
<1>10. "backfill" \notin Emails /\ "stamp" \notin Emails /\ "_pending_op_at_v1" \notin Emails
       /\ NULL # "_pending_op_at_v1"
  BY <1>6, <1>7, <1>9
<1>11. NULL # "message_fts" /\ NULL # "messages_fts_ai" /\ NULL # "messages_fts_ad"
       /\ NULL # "messages_fts_au"
  BY <1>5, <1>8
<1>12. NULL # "_fts_rebuild_v1" /\ NULL # "_body_cache_v2" /\ NULL # "message_mailboxes"
       /\ NULL # "pending_op_at"
  BY <1>5, <1>6, <1>8
<1> QED BY <1>10, <1>11, <1>12 DEF Objects

\* A statement that changes every row, with the trigger.
LEMMA RewriteFacts ==
  ASSUME NEW d, Keys(d), NEW f \in [Emails -> Row \cup {NULL}],
         \A e \in Emails : f[e] = NULL <=> d.rows[e] = NULL
  PROVE  LET n == Rewrite(d, f)
         IN  /\ Keys(n) /\ n.objs = d.objs /\ n.atts = d.atts /\ n.filed = d.filed /\ n.rows = f
             /\ Indexed(d) => Indexed(n)
<1>1. PICK n : n = Rewrite(d, f)
  OBVIOUS
<1>2. d \in Databases
  BY DEF Keys
<1>3. PICK i : i = IF "messages_fts_au" \in d.objs
                   THEN (d.fts \ Mirror(d)) \cup {Entry(e, f[e]) : e \in Stored(d)} ELSE d.fts
  OBVIOUS
<1>4. i \in SUBSET (Emails \X Subjects \X (Body \cup {NULL}))
  <2>1. \A e \in Stored(d) : Entry(e, f[e]) \in Emails \X Subjects \X (Body \cup {NULL})
    BY DEF Entry, Row, Stored
  <2>2. d.fts \in SUBSET (Emails \X Subjects \X (Body \cup {NULL}))
    BY <1>2 DEF Databases
  <2> QED BY <1>3, <2>1, <2>2
<1>5. n = [[d EXCEPT !.rows = f] EXCEPT !.fts = i]
  BY <1>1, <1>2, <1>3 DEF Rewrite, Databases
<1>6. /\ n \in Databases /\ n.objs = d.objs /\ n.atts = d.atts /\ n.filed = d.filed
      /\ n.rows = f /\ n.fts = i
  BY <1>2, <1>4, <1>5 DEF Databases
<1>7. Keys(n)
  BY <1>6 DEF Keys
<1>8. ASSUME Indexed(d) PROVE Indexed(n)
  <2>1. "messages_fts_au" \in d.objs /\ d.fts = Mirror(d) /\ Triggers \subseteq n.objs
    BY <1>6, <1>8 DEF Indexed, Triggers
  <2>2. i = {Entry(e, f[e]) : e \in Stored(d)}
    BY <1>3, <2>1
  <2>3. Stored(n) = Stored(d)
    BY <1>6 DEF Stored
  <2>4. Mirror(n) = {Entry(e, f[e]) : e \in Stored(d)}
    BY <1>6, <2>3 DEF Mirror
  <2> QED BY <1>6, <2>1, <2>2, <2>4 DEF Indexed
<1> QED BY <1>1, <1>6, <1>7, <1>8

LEMMA InvalidateFollows ==
  ASSUME NEW d, Keys(d)
  PROVE  LET n == Execute(d, "invalidate")
         IN  /\ Follows(d, n) /\ n.objs = d.objs
             /\ \A e \in Emails : Keeps(d, n, e) /\ (n.rows[e] # NULL => n.rows[e].body = NULL)
<1>1. PICK n : n = Execute(d, "invalidate")
  OBVIOUS
<1>2. d \in Databases
  BY DEF Keys
<1>3. PICK f : f = [e \in Emails |-> IF d.rows[e] = NULL THEN NULL
                                     ELSE [d.rows[e] EXCEPT !.body = NULL]]
  OBVIOUS
<1>4. n = Rewrite(d, f)
  BY <1>1, <1>3 DEF Execute
<1>5. ASSUME NEW e \in Emails
      PROVE  /\ f[e] \in Row \cup {NULL} /\ (f[e] = NULL <=> d.rows[e] = NULL)
             /\ f[e] # NULL => f[e].body = NULL /\ f[e].pending = d.rows[e].pending
  <2>1. CASE d.rows[e] = NULL
    BY <1>3, <2>1
  <2>2. CASE d.rows[e] # NULL
    <3>1. d.rows[e] \in Row
      BY <1>2, <2>2 DEF Databases
    <3>2. PICK r : r = [d.rows[e] EXCEPT !.body = NULL]
      OBVIOUS
    <3>3. r \in Row /\ r.body = NULL /\ r.pending = d.rows[e].pending
      BY <3>1, <3>2 DEF Row
    <3> QED BY <1>3, <2>2, <3>2, <3>3, CacheAssumption
  <2> QED BY <2>1, <2>2
<1>6. f \in [Emails -> Row \cup {NULL}]
  BY <1>3, <1>5
<1>7. /\ Keys(n) /\ n.objs = d.objs /\ n.atts = d.atts /\ n.filed = d.filed /\ n.rows = f
      /\ Indexed(d) => Indexed(n)
  BY <1>4, <1>5, <1>6, RewriteFacts
<1>8. \A e \in Emails : /\ ~Old(n, e) /\ (Untimed(n, e) => Untimed(d, e))
                        /\ Bare(n, e) => Bare(d, e)
                        /\ Keeps(d, n, e) /\ (n.rows[e] # NULL => n.rows[e].body = NULL)
  BY <1>5, <1>7 DEF Old, Untimed, Bare, Keeps, Whole
<1> QED BY <1>1, <1>7, <1>8 DEF Follows

LEMMA StampFollows ==
  ASSUME NEW d, Keys(d)
  PROVE  LET n == Execute(d, "stamp")
         IN  /\ Follows(d, n) /\ n.objs = d.objs
             /\ \A e \in Emails : /\ Keeps(d, n, e) /\ ~Untimed(n, e)
                                  /\ n.rows[e] # NULL => n.rows[e].body = d.rows[e].body
<1>1. PICK n : n = Execute(d, "stamp")
  OBVIOUS
<1>2. d \in Databases
  BY DEF Keys
<1>3. PICK f : f = [e \in Emails |-> IF d.rows[e] # NULL /\ d.rows[e].pending = "untimed"
                                     THEN [d.rows[e] EXCEPT !.pending = "timed"] ELSE d.rows[e]]
  OBVIOUS
<1>4. n = Rewrite(d, f)
  BY <1>1, <1>3 DEF Execute
<1>5. ASSUME NEW e \in Emails
      PROVE  /\ f[e] \in Row \cup {NULL} /\ (f[e] = NULL <=> d.rows[e] = NULL)
             /\ f[e] # NULL => f[e].body = d.rows[e].body /\ f[e].pending # "untimed"
  <2>1. CASE d.rows[e] # NULL /\ d.rows[e].pending = "untimed"
    <3>1. d.rows[e] \in Row
      BY <1>2, <2>1 DEF Databases
    <3>2. PICK r : r = [d.rows[e] EXCEPT !.pending = "timed"]
      OBVIOUS
    <3>3. r \in Row /\ r.body = d.rows[e].body /\ r.pending = "timed"
      BY <3>1, <3>2 DEF Row
    <3> QED BY <1>3, <2>1, <3>2, <3>3, CacheAssumption
  <2>2. CASE ~(d.rows[e] # NULL /\ d.rows[e].pending = "untimed")
    BY <1>2, <1>3, <2>2 DEF Databases
  <2> QED BY <2>1, <2>2
<1>6. f \in [Emails -> Row \cup {NULL}]
  BY <1>3, <1>5
<1>7. /\ Keys(n) /\ n.objs = d.objs /\ n.atts = d.atts /\ n.filed = d.filed /\ n.rows = f
      /\ Indexed(d) => Indexed(n)
  BY <1>4, <1>5, <1>6, RewriteFacts
<1>8. \A e \in Emails : /\ Old(n, e) => Old(d, e)
                        /\ ~Untimed(n, e) /\ (Bare(n, e) => Bare(d, e))
                        /\ Keeps(d, n, e)
                        /\ n.rows[e] # NULL => n.rows[e].body = d.rows[e].body
  BY <1>5, <1>7 DEF Old, Untimed, Bare, Keeps
<1> QED BY <1>1, <1>7, <1>8 DEF Follows

LEMMA RebuildFollows ==
  ASSUME NEW d, Keys(d)
  PROVE  LET n == Execute(d, "rebuild")
         IN  /\ Follows(d, n) /\ n.objs = d.objs /\ n.rows = d.rows /\ n.fts = Mirror(n)
             /\ \A e \in Emails : Keeps(d, n, e)
<1>1. PICK n : n = Execute(d, "rebuild")
  OBVIOUS
<1>2. d \in Databases
  BY DEF Keys
<1>3. PICK i : i = Mirror(d)
  OBVIOUS
<1>4. i \in SUBSET (Emails \X Subjects \X (Body \cup {NULL}))
  BY <1>2, <1>3 DEF Mirror, Stored, Entry, Databases, Row
<1>5. n = [d EXCEPT !.fts = i]
  BY <1>1, <1>3 DEF Execute
<1>6. /\ n \in Databases /\ n.objs = d.objs /\ n.rows = d.rows /\ n.atts = d.atts
      /\ n.filed = d.filed /\ n.fts = i
  BY <1>2, <1>4, <1>5 DEF Databases
<1>7. Mirror(n) = Mirror(d)
  BY <1>6 DEF Mirror, Stored
<1>8. Keys(n) /\ (Indexed(d) => Indexed(n))
  BY <1>3, <1>6, <1>7 DEF Keys, Indexed
<1>9. \A e \in Emails : /\ Old(n, e) => Old(d, e)
                        /\ Untimed(n, e) => Untimed(d, e)
                        /\ Bare(n, e) => Bare(d, e)
                        /\ Keeps(d, n, e)
  BY <1>6 DEF Old, Untimed, Bare, Keeps
<1> QED BY <1>1, <1>3, <1>6, <1>7, <1>8, <1>9 DEF Follows

LEMMA BackfillFollows ==
  ASSUME NEW d, Keys(d)
  PROVE  LET n == Execute(d, "backfill")
         IN  /\ Follows(d, n) /\ n.objs = d.objs /\ n.rows = d.rows
             /\ \A e \in Emails : Keeps(d, n, e) /\ ~Bare(n, e)
<1>1. PICK n : n = Execute(d, "backfill")
  OBVIOUS
<1>2. d \in Databases
  BY DEF Keys
<1>3. PICK k \in SUBSET Emails : k = Stored(d)
  BY DEF Stored
<1>4. n = [d EXCEPT !.filed = k]
  BY <1>1, <1>3 DEF Execute
<1>5. /\ n \in Databases /\ n.objs = d.objs /\ n.rows = d.rows /\ n.atts = d.atts
      /\ n.filed = k /\ n.fts = d.fts
  BY <1>2, <1>4 DEF Databases
<1>6. Mirror(n) = Mirror(d)
  BY <1>5 DEF Mirror, Stored
<1>7. Keys(n) /\ (Indexed(d) => Indexed(n))
  BY <1>3, <1>5, <1>6 DEF Keys, Indexed, Stored
<1>8. \A e \in Emails : /\ Old(n, e) => Old(d, e)
                        /\ Untimed(n, e) => Untimed(d, e)
                        /\ ~Bare(n, e) /\ Keeps(d, n, e)
  BY <1>3, <1>5 DEF Old, Untimed, Bare, Keeps, Stored
<1> QED BY <1>1, <1>5, <1>7, <1>8 DEF Follows

\* A statement that creates an object, or inserts a marker.
LEMMA CreateFollows ==
  ASSUME NEW d, Keys(d), NEW o \in Objects
  PROVE  LET n == Execute(d, o)
         IN  /\ Follows(d, n) /\ n.objs = d.objs \cup {o} /\ n.rows = d.rows
             /\ n.filed = d.filed /\ n.fts = d.fts /\ Mirror(n) = Mirror(d)
             /\ \A e \in Emails : Keeps(d, n, e)
<1>1. PICK n : n = Execute(d, o)
  OBVIOUS
<1>2. d \in Databases
  BY DEF Keys
<1>3. n = [d EXCEPT !.objs = @ \cup {o}]
  BY <1>1 DEF Execute, Objects
<1>4. PICK k \in SUBSET Objects : k = d.objs \cup {o}
  BY <1>2 DEF Databases
<1>5. n = [d EXCEPT !.objs = k]
  BY <1>2, <1>3, <1>4 DEF Databases
<1>6. /\ n \in Databases /\ n.objs = k /\ n.rows = d.rows /\ n.atts = d.atts
      /\ n.filed = d.filed /\ n.fts = d.fts
  BY <1>2, <1>5 DEF Databases
<1>7. Mirror(n) = Mirror(d)
  BY <1>6 DEF Mirror, Stored
<1>8. Keys(n) /\ (Indexed(d) => Indexed(n))
  BY <1>4, <1>6, <1>7 DEF Keys, Indexed
<1>9. \A e \in Emails : /\ Old(n, e) => Old(d, e)
                        /\ Untimed(n, e) => Untimed(d, e)
                        /\ Bare(n, e) => Bare(d, e)
                        /\ Keeps(d, n, e)
  BY <1>6 DEF Old, Untimed, Bare, Keeps
<1> QED BY <1>1, <1>4, <1>6, <1>7, <1>8, <1>9 DEF Follows

\* Every statement but one leaves the bodies alone.
LEMMA StatementKeepsBody ==
  ASSUME NEW d, Keys(d), NEW e \in Emails,
         NEW s \in Objects \cup {"rebuild", "backfill", "stamp"}
  PROVE  Execute(d, s).rows[e] # NULL => Execute(d, s).rows[e].body = d.rows[e].body
<1>1. CASE s \in Objects
  BY <1>1, CreateFollows
<1>2. CASE s = "rebuild"
  BY <1>2, RebuildFollows
<1>3. CASE s = "backfill"
  BY <1>3, BackfillFollows
<1>4. CASE s = "stamp"
  BY <1>4, StampFollows
<1> QED BY <1>1, <1>2, <1>3, <1>4

-----------------------------------------------------------------------------
\* The inductive invariant.

\* The commands in the channel, with what each carries.
Orders ==
  [op : {"load", "delta", "remove", "flag"}, id : Emails, arg : {{}}, from : Tasks \cup {NULL}]
    \cup [op : {"save"}, id : Emails, arg : SUBSET Parts, from : Tasks \cup {NULL}]
    \cup [op : {"upsert"}, id : Emails, arg : Subjects, from : Tasks \cup {NULL}]
    \cup [op : {"prune"}, id : {NULL}, arg : SUBSET Emails, from : Tasks \cup {NULL}]

States == [pc : {"idle", "waiting"}] \cup [pc : {"loading", "fetching", "saving"}, id : Emails]

\* A removal between its two statements is at the head of the channel.
HalfOK ==
  half # NULL => Open /\ queue # <<>> /\ Head(queue).op = "remove" /\ Head(queue).id = half

ChannelOK ==
  /\ queue \in Seq(Orders) /\ Len(queue) <= MaxQueue
  /\ ~Open => queue = <<>>
  /\ task \in [Tasks -> States]
  /\ half \in Emails \cup {NULL} /\ HalfOK

\* Where open is: the migration and the statement, and past them all when it is done.
Places   == {p \in (1..8) \X (1..3) : p[2] <= Len(Migrations[p[1]].run)}
Stage(p) == IF p = <<>> THEN 9 ELSE p[1]
Line(p)  == IF p = <<>> THEN 1 ELSE p[2]

\* The marker of the rebuild says that the index follows; the triggers come first.
IndexOK(d, m, s) ==
  /\ m > 2 => "messages_fts_ai" \in d.objs
  /\ m > 3 => "messages_fts_ad" \in d.objs
  /\ m > 4 => "messages_fts_au" \in d.objs
  /\ m = 5 /\ s = 2 => d.fts = Mirror(d)
  /\ m > 5 => "_fts_rebuild_v1" \in d.objs
  /\ "_fts_rebuild_v1" \in d.objs => Indexed(d)

\* What the other markers say of the old bodies, the mailboxes and the pending
\* operations, and what holds when the migration is passed over.
BodiesOK(d, m, s) ==
  /\ m = 6 /\ s = 2 => \A e \in Emails : d.rows[e] # NULL => d.rows[e].body = NULL
  /\ m > 6 \/ "_body_cache_v2" \in d.objs => \A e \in Emails : ~Old(d, e)

MailboxesOK(d, m, s, t) ==
  /\ m > 7 \/ (m = 7 /\ s = 2) => "message_mailboxes" \in d.objs
  /\ "message_mailboxes" \in d.objs /\ "backfill" \notin t /\ ~(m = 7 /\ s = 2)
       => \A e \in Emails : ~Bare(d, e)

PendingOK(d, m, s, t) ==
  /\ m > 8 \/ (m = 8 /\ s > 1) \/ "_pending_op_at_v1" \in d.objs => "pending_op_at" \in d.objs
  /\ "pending_op_at" \in d.objs /\ "stamp" \notin t /\ "_pending_op_at_v1" \notin t
       /\ ~(m = 8 /\ s = 2)
       => \A e \in Emails : ~Untimed(d, e)

FileOK(d, m, s, t) ==
  IndexOK(d, m, s) /\ BodiesOK(d, m, s) /\ MailboxesOK(d, m, s, t) /\ PendingOK(d, m, s, t)

\* Bodies and attachments fit, apart from removals that are or were half done.
WholeOK(d, t, h) == \A e \in Emails : d.rows[e] # NULL /\ e \notin t \cup {h} => Whole(d, e)

IInv ==
  /\ Keys(db) /\ ChannelOK
  /\ Open \/ at \in Places
  /\ FileOK(db, Stage(at), Line(at), torn)
  /\ WholeOK(db, torn, half)

-----------------------------------------------------------------------------
\* Opening the file.

Goes(from, to, d) == at = from /\ at' = to /\ db' = d

\* Migrate, statement by statement.
Opens ==
  \/ Goes(<<1, 1>>, <<2, 1>>, Execute(db, "message_fts"))
  \/ Goes(<<2, 1>>, <<3, 1>>, Execute(db, "messages_fts_ai"))
  \/ Goes(<<3, 1>>, <<4, 1>>, Execute(db, "messages_fts_ad"))
  \/ Goes(<<4, 1>>, <<5, 1>>, Execute(db, "messages_fts_au"))
  \/ Goes(<<5, 1>>, <<6, 1>>, db) /\ "_fts_rebuild_v1" \in db.objs
  \/ Goes(<<5, 1>>, <<5, 2>>, Execute(db, "rebuild"))
  \/ Goes(<<5, 2>>, <<6, 1>>, Execute(db, "_fts_rebuild_v1"))
  \/ /\ Goes(<<6, 1>>, <<7, 1>>, db)
     /\ \/ "_body_cache_v2" \in db.objs
        \/ \A e \in Emails : db.rows[e] # NULL => db.rows[e].body = NULL
  \/ Goes(<<6, 1>>, <<6, 2>>, Execute(db, "invalidate")) /\ "_body_cache_v2" \notin db.objs
  \/ Goes(<<6, 2>>, <<7, 1>>, Execute(db, "_body_cache_v2"))
  \/ Goes(<<7, 1>>, <<8, 1>>, db) /\ "message_mailboxes" \in db.objs
  \/ Goes(<<7, 1>>, <<7, 2>>, Execute(db, "message_mailboxes"))
  \/ Goes(<<7, 2>>, <<8, 1>>, Execute(db, "backfill"))
  \/ Goes(<<8, 1>>, <<>>, db) /\ db.objs \cap {"_pending_op_at_v1", "pending_op_at"} # {}
  \/ Goes(<<8, 1>>, <<8, 2>>, Execute(db, "pending_op_at"))
  \/ Goes(<<8, 2>>, <<8, 3>>, Execute(db, "stamp"))
  \/ Goes(<<8, 3>>, <<>>, Execute(db, "_pending_op_at_v1"))

LEMMA MigrateOpens ==
  ASSUME IInv, Migrate
  PROVE  Opens
<1>1. ~Open /\ Keys(db) /\ at \in Places
  BY DEF Migrate, IInv
<1>2. PICK m \in 1..8, s \in 1..3 : at = <<m, s>> /\ s <= Len(Migrations[m].run)
  <2>1. at \in (1..8) \X (1..3) /\ at[2] <= Len(Migrations[at[1]].run)
    BY <1>1 DEF Places
  <2>2. at[1] \in 1..8 /\ at[2] \in 1..3 /\ at = <<at[1], at[2]>>
    BY <2>1
  <2> QED BY <2>1, <2>2
<1>3. NULL \notin db.objs
  BY <1>1, NameFacts DEF Keys, Databases
<1>4. /\ After(1) = <<2, 1>> /\ After(2) = <<3, 1>> /\ After(3) = <<4, 1>>
      /\ After(4) = <<5, 1>> /\ After(5) = <<6, 1>> /\ After(6) = <<7, 1>>
      /\ After(7) = <<8, 1>> /\ After(8) = <<>>
  BY MigrationFacts DEF After
<1>0. IF (s = 1 /\ Done(db, Migrations[m])) \/ Fails(db, Migrations[m].run[s])
      THEN at' = After(m) /\ db' = db
      ELSE /\ db' = Execute(db, Migrations[m].run[s])
           /\ at' = IF s < Len(Migrations[m].run) THEN <<m, s + 1>> ELSE After(m)
  <2>1. at[1] = m /\ at[2] = s
    BY <1>2
  <2> QED BY <2>1 DEF Migrate
<1>5. CASE m = 1
  <2>1. s = 1 /\ ~Done(db, Migrations[m]) /\ ~Fails(db, Migrations[m].run[s])
        /\ Migrations[m].run[s] = "message_fts" /\ Len(Migrations[m].run) = 1
    BY <1>2, <1>3, <1>5, MigrationFacts, NameFacts DEF Done, Fails, Objects
  <2>2. Goes(<<1, 1>>, After(1), Execute(db, "message_fts"))
    BY <1>0, <1>2, <1>5, <2>1 DEF Goes
  <2> QED BY <1>4, <2>2 DEF Opens
<1>6. CASE m = 2
  <2>1. s = 1 /\ ~Done(db, Migrations[m]) /\ ~Fails(db, Migrations[m].run[s])
        /\ Migrations[m].run[s] = "messages_fts_ai" /\ Len(Migrations[m].run) = 1
    BY <1>2, <1>3, <1>6, MigrationFacts, NameFacts DEF Done, Fails, Objects
  <2>2. Goes(<<2, 1>>, After(2), Execute(db, "messages_fts_ai"))
    BY <1>0, <1>2, <1>6, <2>1 DEF Goes
  <2> QED BY <1>4, <2>2 DEF Opens
<1>7. CASE m = 3
  <2>1. s = 1 /\ ~Done(db, Migrations[m]) /\ ~Fails(db, Migrations[m].run[s])
        /\ Migrations[m].run[s] = "messages_fts_ad" /\ Len(Migrations[m].run) = 1
    BY <1>2, <1>3, <1>7, MigrationFacts, NameFacts DEF Done, Fails, Objects
  <2>2. Goes(<<3, 1>>, After(3), Execute(db, "messages_fts_ad"))
    BY <1>0, <1>2, <1>7, <2>1 DEF Goes
  <2> QED BY <1>4, <2>2 DEF Opens
<1>8. CASE m = 4
  <2>1. s = 1 /\ ~Done(db, Migrations[m]) /\ ~Fails(db, Migrations[m].run[s])
        /\ Migrations[m].run[s] = "messages_fts_au" /\ Len(Migrations[m].run) = 1
    BY <1>2, <1>3, <1>8, MigrationFacts, NameFacts DEF Done, Fails, Objects
  <2>2. Goes(<<4, 1>>, After(4), Execute(db, "messages_fts_au"))
    BY <1>0, <1>2, <1>8, <2>1 DEF Goes
  <2> QED BY <1>4, <2>2 DEF Opens
<1>9. CASE m = 5
  <2>1. /\ Migrations[m].marker = "_fts_rebuild_v1" /\ Len(Migrations[m].run) = 2
        /\ Migrations[m].run[1] = "rebuild" /\ Migrations[m].run[2] = "_fts_rebuild_v1"
    BY <1>9, MigrationFacts
  <2>2. /\ Done(db, Migrations[m]) => "_fts_rebuild_v1" \in db.objs
        /\ \A i \in 1..2 : ~Fails(db, Migrations[m].run[i])
    BY <2>1 DEF Done, Fails
  <2>3. CASE s = 1
    <3>1. \/ "_fts_rebuild_v1" \in db.objs /\ Goes(<<5, 1>>, After(5), db)
          \/ Goes(<<5, 1>>, <<5, 2>>, Execute(db, "rebuild"))
      BY <1>0, <1>2, <1>9, <2>1, <2>2, <2>3 DEF Goes
    <3> QED BY <1>4, <3>1 DEF Opens
  <2>4. CASE s = 2
    <3>1. Goes(<<5, 2>>, After(5), Execute(db, "_fts_rebuild_v1"))
      BY <1>0, <1>2, <1>9, <2>1, <2>2, <2>4 DEF Goes
    <3> QED BY <1>4, <3>1 DEF Opens
  <2> QED BY <1>2, <2>1, <2>3, <2>4
<1>10. CASE m = 6
  <2>1. /\ Migrations[m].marker = "_body_cache_v2" /\ Len(Migrations[m].run) = 2
        /\ Migrations[m].run[1] = "invalidate" /\ Migrations[m].run[2] = "_body_cache_v2"
    BY <1>10, MigrationFacts
  <2>2. /\ Done(db, Migrations[m]) => \/ "_body_cache_v2" \in db.objs
                                      \/ \A e \in Emails : db.rows[e] # NULL => db.rows[e].body = NULL
        /\ "_body_cache_v2" \in db.objs => Done(db, Migrations[m])
        /\ \A i \in 1..2 : ~Fails(db, Migrations[m].run[i])
    BY <2>1 DEF Done, Fails, Stored
  <2>3. CASE s = 1
    <3>1. \/ Done(db, Migrations[m]) /\ Goes(<<6, 1>>, After(6), db)
          \/ Goes(<<6, 1>>, <<6, 2>>, Execute(db, "invalidate")) /\ ~Done(db, Migrations[m])
      BY <1>0, <1>2, <1>10, <2>1, <2>2, <2>3 DEF Goes
    <3> QED BY <1>4, <2>2, <3>1 DEF Opens
  <2>4. CASE s = 2
    <3>1. Goes(<<6, 2>>, After(6), Execute(db, "_body_cache_v2"))
      BY <1>0, <1>2, <1>10, <2>1, <2>2, <2>4 DEF Goes
    <3> QED BY <1>4, <3>1 DEF Opens
  <2> QED BY <1>2, <2>1, <2>3, <2>4
<1>11. CASE m = 7
  <2>1. /\ Migrations[m].marker = "message_mailboxes" /\ Len(Migrations[m].run) = 2
        /\ Migrations[m].run[1] = "message_mailboxes" /\ Migrations[m].run[2] = "backfill"
    BY <1>11, MigrationFacts
  <2>2. /\ Done(db, Migrations[m]) => "message_mailboxes" \in db.objs
        /\ \A i \in 1..2 : ~Fails(db, Migrations[m].run[i])
    BY <2>1 DEF Done, Fails
  <2>3. CASE s = 1
    <3>1. \/ "message_mailboxes" \in db.objs /\ Goes(<<7, 1>>, After(7), db)
          \/ Goes(<<7, 1>>, <<7, 2>>, Execute(db, "message_mailboxes"))
      BY <1>0, <1>2, <1>11, <2>1, <2>2, <2>3 DEF Goes
    <3> QED BY <1>4, <3>1 DEF Opens
  <2>4. CASE s = 2
    <3>1. Goes(<<7, 2>>, After(7), Execute(db, "backfill"))
      BY <1>0, <1>2, <1>11, <2>1, <2>2, <2>4 DEF Goes
    <3> QED BY <1>4, <3>1 DEF Opens
  <2> QED BY <1>2, <2>1, <2>3, <2>4
<1>12. CASE m = 8
  <2>1. /\ Migrations[m].marker = "_pending_op_at_v1" /\ Len(Migrations[m].run) = 3
        /\ Migrations[m].run[1] = "pending_op_at" /\ Migrations[m].run[2] = "stamp"
        /\ Migrations[m].run[3] = "_pending_op_at_v1"
    BY <1>12, MigrationFacts
  <2>2. /\ Done(db, Migrations[m]) => "_pending_op_at_v1" \in db.objs
        /\ Fails(db, Migrations[m].run[1]) => "pending_op_at" \in db.objs
        /\ ~Fails(db, Migrations[m].run[2]) /\ ~Fails(db, Migrations[m].run[3])
    BY <2>1 DEF Done, Fails
  <2>3. CASE s = 1
    <3>1. \/ /\ Done(db, Migrations[m]) \/ Fails(db, Migrations[m].run[1])
             /\ Goes(<<8, 1>>, After(8), db)
          \/ Goes(<<8, 1>>, <<8, 2>>, Execute(db, "pending_op_at"))
      BY <1>0, <1>2, <1>12, <2>1, <2>2, <2>3 DEF Goes
    <3> QED BY <1>4, <2>2, <3>1 DEF Opens
  <2>4. CASE s = 2
    <3>1. Goes(<<8, 2>>, <<8, 3>>, Execute(db, "stamp"))
      BY <1>0, <1>2, <1>12, <2>1, <2>2, <2>4 DEF Goes
    <3> QED BY <3>1 DEF Opens
  <2>5. CASE s = 3
    <3>1. Goes(<<8, 3>>, After(8), Execute(db, "_pending_op_at_v1"))
      BY <1>0, <1>2, <1>12, <2>1, <2>2, <2>5 DEF Goes
    <3> QED BY <1>4, <3>1 DEF Opens
  <2> QED BY <2>3, <2>4, <2>5
<1> QED BY <1>5, <1>6, <1>7, <1>8, <1>9, <1>10, <1>11, <1>12

LEMMA StageFacts ==
  /\ \A m \in 1..8, s \in 1..3 : Stage(<<m, s>>) = m /\ Line(<<m, s>>) = s
  /\ Stage(<<>>) = 9 /\ Line(<<>>) = 1
  /\ {<<m, 1>> : m \in 1..8} \cup {<<5, 2>>, <<6, 2>>, <<7, 2>>, <<8, 2>>, <<8, 3>>} \subseteq Places
<1>1. \A m, s : <<m, s>> # <<>>
  OBVIOUS
<1>2. ASSUME NEW m \in 1..8, NEW run, run = Migrations[m].run, NEW s \in 1..3, s <= Len(run)
      PROVE  <<m, s>> \in Places
  BY <1>2 DEF Places
<1>4. ASSUME NEW m \in 1..8, NEW s \in 1..3, s = 1 \/ (s = 2 /\ m > 4) \/ (s = 3 /\ m = 8)
      PROVE  <<m, s>> \in Places
  <2>0. PICK run : run = Migrations[m].run
    OBVIOUS
  <2>1. m = 1 => Len(run) = 1
    BY <2>0, MigrationFacts
  <2>2. m = 2 => Len(run) = 1
    BY <2>0, MigrationFacts
  <2>3. m = 3 => Len(run) = 1
    BY <2>0, MigrationFacts
  <2>4. m = 4 => Len(run) = 1
    BY <2>0, MigrationFacts
  <2>5. m = 5 => Len(run) = 2
    BY <2>0, MigrationFacts
  <2>6. m = 6 => Len(run) = 2
    BY <2>0, MigrationFacts
  <2>7. m = 7 => Len(run) = 2
    BY <2>0, MigrationFacts
  <2>8. m = 8 => Len(run) = 3
    BY <2>0, MigrationFacts
  <2>9. PICK l : l = Len(run)
    OBVIOUS
  <2>10. s <= l
    BY <1>4, <2>1, <2>2, <2>3, <2>4, <2>5, <2>6, <2>7, <2>8, <2>9
  <2> QED BY <1>2, <2>0, <2>9, <2>10
<1>5. \A m \in 1..8 : <<m, 1>> \in Places
  BY <1>4
<1>6. {<<5, 2>>, <<6, 2>>, <<7, 2>>, <<8, 2>>, <<8, 3>>} \subseteq Places
  BY <1>4
<1> QED BY <1>1, <1>5, <1>6 DEF Stage, Line

\* Each of these steps keeps what the markers say, and the next ones up to the
\* place where open has got to.
LEMMA OpensKeeps ==
  ASSUME IInv, Opens
  PROVE  /\ Keys(db') /\ (Open' \/ at' \in Places)
         /\ FileOK(db', Stage(at'), Line(at'), torn)
         /\ \A e \in Emails : Keeps(db, db', e)
<1> USE DEF Goes
<1>1. Keys(db) /\ FileOK(db, Stage(at), Line(at), torn)
  BY DEF IInv
<1>2. Open' \/ at' \in Places
  <2>1. {<<1, 1>>, <<2, 1>>, <<3, 1>>, <<4, 1>>, <<5, 1>>, <<6, 1>>, <<7, 1>>, <<8, 1>>,
         <<5, 2>>, <<6, 2>>, <<7, 2>>, <<8, 2>>, <<8, 3>>} \subseteq Places
    BY StageFacts
  <2> QED BY <2>1 DEF Opens, Open
<1>3. /\ Follows(db, db) /\ \A e \in Emails : Keeps(db, db, e)
      /\ \A o \in Objects \cup {"invalidate", "stamp", "rebuild", "backfill"} :
           Follows(db, Execute(db, o)) /\ \A e \in Emails : Keeps(db, Execute(db, o), e)
  BY <1>1, CreateFollows, InvalidateFollows, StampFollows, RebuildFollows, BackfillFollows
     DEF Follows, Keeps
<1>4. Follows(db, db') /\ \A e \in Emails : Keeps(db, db', e)
  BY <1>3 DEF Opens, Objects
<1>5. CASE Goes(<<1, 1>>, <<2, 1>>, Execute(db, "message_fts"))
  <2>1. Stage(at) = 1 /\ Line(at) = 1 /\ Stage(at') = 2 /\ Line(at') = 1
    BY <1>5, StageFacts
  <2>2. db'.objs = db.objs \cup {"message_fts"} /\ db'.fts = db.fts /\ Mirror(db') = Mirror(db)
        /\ db'.rows = db.rows
    BY <1>5, <1>1, CreateFollows DEF Objects
  <2> QED BY <1>1, <1>2, <1>4, <1>5, <2>1, <2>2
          DEF FileOK, IndexOK, BodiesOK, MailboxesOK, PendingOK, Follows, Indexed, Triggers, Old
<1>6. CASE Goes(<<2, 1>>, <<3, 1>>, Execute(db, "messages_fts_ai"))
  <2>1. Stage(at) = 2 /\ Line(at) = 1 /\ Stage(at') = 3 /\ Line(at') = 1
    BY <1>6, StageFacts
  <2>2. db'.objs = db.objs \cup {"messages_fts_ai"} /\ db'.fts = db.fts /\ Mirror(db') = Mirror(db)
        /\ db'.rows = db.rows
    BY <1>6, <1>1, CreateFollows DEF Objects
  <2> QED BY <1>1, <1>2, <1>4, <1>6, <2>1, <2>2
          DEF FileOK, IndexOK, BodiesOK, MailboxesOK, PendingOK, Follows, Indexed, Triggers, Old
<1>7. CASE Goes(<<3, 1>>, <<4, 1>>, Execute(db, "messages_fts_ad"))
  <2>1. Stage(at) = 3 /\ Line(at) = 1 /\ Stage(at') = 4 /\ Line(at') = 1
    BY <1>7, StageFacts
  <2>2. db'.objs = db.objs \cup {"messages_fts_ad"} /\ db'.fts = db.fts /\ Mirror(db') = Mirror(db)
        /\ db'.rows = db.rows
    BY <1>7, <1>1, CreateFollows DEF Objects
  <2> QED BY <1>1, <1>2, <1>4, <1>7, <2>1, <2>2
          DEF FileOK, IndexOK, BodiesOK, MailboxesOK, PendingOK, Follows, Indexed, Triggers, Old
<1>8. CASE Goes(<<4, 1>>, <<5, 1>>, Execute(db, "messages_fts_au"))
  <2>1. Stage(at) = 4 /\ Line(at) = 1 /\ Stage(at') = 5 /\ Line(at') = 1
    BY <1>8, StageFacts
  <2>2. db'.objs = db.objs \cup {"messages_fts_au"} /\ db'.fts = db.fts /\ Mirror(db') = Mirror(db)
        /\ db'.rows = db.rows
    BY <1>8, <1>1, CreateFollows DEF Objects
  <2> QED BY <1>1, <1>2, <1>4, <1>8, <2>1, <2>2
          DEF FileOK, IndexOK, BodiesOK, MailboxesOK, PendingOK, Follows, Indexed, Triggers, Old
<1>9. CASE Goes(<<5, 1>>, <<6, 1>>, db) /\ "_fts_rebuild_v1" \in db.objs
  <2>1. Stage(at) = 5 /\ Line(at) = 1 /\ Stage(at') = 6 /\ Line(at') = 1
    BY <1>9, StageFacts
  <2> QED BY <1>1, <1>2, <1>4, <1>9, <2>1
          DEF FileOK, IndexOK, BodiesOK, MailboxesOK, PendingOK, Follows, Indexed, Triggers, Old
<1>10. CASE Goes(<<5, 1>>, <<5, 2>>, Execute(db, "rebuild"))
  <2>1. Stage(at) = 5 /\ Line(at) = 1 /\ Stage(at') = 5 /\ Line(at') = 2
    BY <1>10, StageFacts
  <2>2. db'.objs = db.objs /\ db'.fts = Mirror(db')
    BY <1>10, <1>1, RebuildFollows
  <2> QED BY <1>1, <1>2, <1>4, <1>10, <2>1, <2>2
          DEF FileOK, IndexOK, BodiesOK, MailboxesOK, PendingOK, Follows, Indexed, Triggers, Old
<1>11. CASE Goes(<<5, 2>>, <<6, 1>>, Execute(db, "_fts_rebuild_v1"))
  <2>1. Stage(at) = 5 /\ Line(at) = 2 /\ Stage(at') = 6 /\ Line(at') = 1
    BY <1>11, StageFacts
  <2>2. db'.objs = db.objs \cup {"_fts_rebuild_v1"} /\ db'.fts = db.fts /\ Mirror(db') = Mirror(db)
        /\ db'.rows = db.rows
    BY <1>11, <1>1, CreateFollows DEF Objects
  <2> QED BY <1>1, <1>2, <1>4, <1>11, <2>1, <2>2
          DEF FileOK, IndexOK, BodiesOK, MailboxesOK, PendingOK, Follows, Indexed, Triggers, Old
<1>12. CASE /\ Goes(<<6, 1>>, <<7, 1>>, db)
             /\ \/ "_body_cache_v2" \in db.objs
                \/ \A e \in Emails : db.rows[e] # NULL => db.rows[e].body = NULL
  <2>1. Stage(at) = 6 /\ Line(at) = 1 /\ Stage(at') = 7 /\ Line(at') = 1
    BY <1>12, StageFacts
  <2> QED BY <1>1, <1>2, <1>4, <1>12, <2>1
          DEF FileOK, IndexOK, BodiesOK, MailboxesOK, PendingOK, Follows, Indexed, Triggers, Old
<1>13. CASE Goes(<<6, 1>>, <<6, 2>>, Execute(db, "invalidate"))
  <2>1. Stage(at) = 6 /\ Line(at) = 1 /\ Stage(at') = 6 /\ Line(at') = 2
    BY <1>13, StageFacts
  <2>2. db'.objs = db.objs
        /\ \A e \in Emails : db'.rows[e] # NULL => db'.rows[e].body = NULL
    BY <1>13, <1>1, InvalidateFollows
  <2> QED BY <1>1, <1>2, <1>4, <1>13, <2>1, <2>2
          DEF FileOK, IndexOK, BodiesOK, MailboxesOK, PendingOK, Follows, Indexed, Triggers, Old
<1>14. CASE Goes(<<6, 2>>, <<7, 1>>, Execute(db, "_body_cache_v2"))
  <2>1. Stage(at) = 6 /\ Line(at) = 2 /\ Stage(at') = 7 /\ Line(at') = 1
    BY <1>14, StageFacts
  <2>2. db'.objs = db.objs \cup {"_body_cache_v2"} /\ db'.fts = db.fts /\ Mirror(db') = Mirror(db)
        /\ db'.rows = db.rows
    BY <1>14, <1>1, CreateFollows DEF Objects
  <2> QED BY <1>1, <1>2, <1>4, <1>14, <2>1, <2>2
          DEF FileOK, IndexOK, BodiesOK, MailboxesOK, PendingOK, Follows, Indexed, Triggers, Old
<1>15. CASE Goes(<<7, 1>>, <<8, 1>>, db) /\ "message_mailboxes" \in db.objs
  <2>1. Stage(at) = 7 /\ Line(at) = 1 /\ Stage(at') = 8 /\ Line(at') = 1
    BY <1>15, StageFacts
  <2> QED BY <1>1, <1>2, <1>4, <1>15, <2>1
          DEF FileOK, IndexOK, BodiesOK, MailboxesOK, PendingOK, Follows, Indexed, Triggers, Old
<1>16. CASE Goes(<<7, 1>>, <<7, 2>>, Execute(db, "message_mailboxes"))
  <2>1. Stage(at) = 7 /\ Line(at) = 1 /\ Stage(at') = 7 /\ Line(at') = 2
    BY <1>16, StageFacts
  <2>2. db'.objs = db.objs \cup {"message_mailboxes"} /\ db'.fts = db.fts /\ Mirror(db') = Mirror(db)
        /\ db'.rows = db.rows
    BY <1>16, <1>1, CreateFollows DEF Objects
  <2> QED BY <1>1, <1>2, <1>4, <1>16, <2>1, <2>2
          DEF FileOK, IndexOK, BodiesOK, MailboxesOK, PendingOK, Follows, Indexed, Triggers, Old
<1>17. CASE Goes(<<7, 2>>, <<8, 1>>, Execute(db, "backfill"))
  <2>1. Stage(at) = 7 /\ Line(at) = 2 /\ Stage(at') = 8 /\ Line(at') = 1
    BY <1>17, StageFacts
  <2>2. db'.objs = db.objs /\ \A e \in Emails : ~Bare(db', e)
    BY <1>17, <1>1, BackfillFollows
  <2> QED BY <1>1, <1>2, <1>4, <1>17, <2>1, <2>2
          DEF FileOK, IndexOK, BodiesOK, MailboxesOK, PendingOK, Follows, Indexed, Triggers, Old
<1>18. CASE Goes(<<8, 1>>, <<>>, db) /\ db.objs \cap {"_pending_op_at_v1", "pending_op_at"} # {}
  <2>1. Stage(at) = 8 /\ Line(at) = 1 /\ Stage(at') = 9 /\ Line(at') = 1
    BY <1>18, StageFacts
  <2> QED BY <1>1, <1>2, <1>4, <1>18, <2>1
          DEF FileOK, IndexOK, BodiesOK, MailboxesOK, PendingOK, Follows, Indexed, Triggers, Old
<1>19. CASE Goes(<<8, 1>>, <<8, 2>>, Execute(db, "pending_op_at"))
  <2>1. Stage(at) = 8 /\ Line(at) = 1 /\ Stage(at') = 8 /\ Line(at') = 2
    BY <1>19, StageFacts
  <2>2. db'.objs = db.objs \cup {"pending_op_at"} /\ db'.fts = db.fts /\ Mirror(db') = Mirror(db)
        /\ db'.rows = db.rows
    BY <1>19, <1>1, CreateFollows DEF Objects
  <2> QED BY <1>1, <1>2, <1>4, <1>19, <2>1, <2>2
          DEF FileOK, IndexOK, BodiesOK, MailboxesOK, PendingOK, Follows, Indexed, Triggers, Old
<1>20. CASE Goes(<<8, 2>>, <<8, 3>>, Execute(db, "stamp"))
  <2>1. Stage(at) = 8 /\ Line(at) = 2 /\ Stage(at') = 8 /\ Line(at') = 3
    BY <1>20, StageFacts
  <2>2. db'.objs = db.objs /\ \A e \in Emails : ~Untimed(db', e)
    BY <1>20, <1>1, StampFollows
  <2> QED BY <1>1, <1>2, <1>4, <1>20, <2>1, <2>2
          DEF FileOK, IndexOK, BodiesOK, MailboxesOK, PendingOK, Follows, Indexed, Triggers, Old
<1>21. CASE Goes(<<8, 3>>, <<>>, Execute(db, "_pending_op_at_v1"))
  <2>1. Stage(at) = 8 /\ Line(at) = 3 /\ Stage(at') = 9 /\ Line(at') = 1
    BY <1>21, StageFacts
  <2>2. db'.objs = db.objs \cup {"_pending_op_at_v1"} /\ db'.fts = db.fts /\ Mirror(db') = Mirror(db)
        /\ db'.rows = db.rows
    BY <1>21, <1>1, CreateFollows DEF Objects
  <2> QED BY <1>1, <1>2, <1>4, <1>21, <2>1, <2>2
          DEF FileOK, IndexOK, BodiesOK, MailboxesOK, PendingOK, Follows, Indexed, Triggers, Old
<1> QED BY <1>5, <1>6, <1>7, <1>8, <1>9, <1>10, <1>11, <1>12, <1>13, <1>14, <1>15, <1>16, <1>17, <1>18, <1>19, <1>20, <1>21 DEF Opens

-----------------------------------------------------------------------------
\* The channel and the tasks.

\* A command in the channel is one of Orders, whatever task awaits it.
LEMMA OrderFacts ==
  ASSUME NEW c \in Orders, NEW f \in Tasks \cup {NULL}
  PROVE  LET n == [c EXCEPT !.from = f]
         IN  n \in Orders /\ n.op = c.op /\ n.id = c.id
<1>1. CASE c \in [op : {"load", "delta", "remove", "flag"}, id : Emails, arg : {{}},
                  from : Tasks \cup {NULL}]
  BY <1>1 DEF Orders
<1>2. CASE c \in [op : {"save"}, id : Emails, arg : SUBSET Parts, from : Tasks \cup {NULL}]
  BY <1>2 DEF Orders
<1>3. CASE c \in [op : {"upsert"}, id : Emails, arg : Subjects, from : Tasks \cup {NULL}]
  BY <1>3 DEF Orders
<1>4. CASE c \in [op : {"prune"}, id : {NULL}, arg : SUBSET Emails, from : Tasks \cup {NULL}]
  BY <1>4 DEF Orders
<1> QED BY <1>1, <1>2, <1>3, <1>4 DEF Orders

\* What the commands carry.
LEMMA CarryFacts ==
  ASSUME NEW c \in Orders
  PROVE  /\ c.op \in {"load", "delta", "remove", "flag", "save", "upsert"} => c.id \in Emails
         /\ c.op = "save" => c.arg \in SUBSET Parts
         /\ c.op = "upsert" => c.arg \in Subjects
         /\ c.op = "prune" => c.arg \in SUBSET Emails
         /\ c.from \in Tasks \cup {NULL}
BY DEF Orders

LEMMA CommandFacts ==
  /\ \A e \in Emails : /\ \A op \in {"load", "delta", "remove", "flag"} : Command(op, e, {}) \in Orders
                       /\ \A parts \in SUBSET Parts : Command("save", e, parts) \in Orders
                       /\ \A s \in Subjects : Command("upsert", e, s) \in Orders
  /\ \A leave \in SUBSET Emails : Command("prune", NULL, leave) \in Orders
BY DEF Command, Orders

LEMMA SendChannel ==
  ASSUME ChannelOK, NEW t \in Tasks, NEW c \in Orders, NEW state \in States, Send(t, c, state)
  PROVE  ChannelOK'
<1>1. PICK n : n = [c EXCEPT !.from = t]
  OBVIOUS
<1>2. n \in Orders
  BY <1>1, OrderFacts
<1>3. /\ Open /\ Len(queue) < MaxQueue /\ queue \in Seq(Orders) /\ MaxQueue \in Nat
      /\ queue' = Append(queue, n) /\ task' = [task EXCEPT ![t] = state]
      /\ UNCHANGED <<at, half>>
  BY <1>1, StoreAssumption DEF Send, ChannelOK
<1>4. /\ queue' \in Seq(Orders) /\ Len(queue') <= MaxQueue /\ queue' # <<>>
      /\ queue # <<>> => Head(queue') = Head(queue)
  BY <1>2, <1>3
<1>5. task' \in [Tasks -> States]
  BY <1>3 DEF ChannelOK
<1>6. HalfOK'
  BY <1>3, <1>4 DEF ChannelOK, HalfOK, Open
<1> QED BY <1>3, <1>4, <1>5, <1>6 DEF ChannelOK, Open

LEMMA CancelChannel ==
  ASSUME ChannelOK, NEW v \in Views, Cancel(v)
  PROVE  ChannelOK'
<1>1. PICK m : m = [c \in Orders |-> IF c.from = v THEN [c EXCEPT !.from = NULL] ELSE c]
  OBVIOUS
<1>2. ASSUME NEW c \in Orders
      PROVE  m[c] \in Orders /\ m[c].op = c.op /\ m[c].id = c.id
  <2>1. PICK n : n = [c EXCEPT !.from = NULL]
    OBVIOUS
  <2>2. n \in Orders /\ n.op = c.op /\ n.id = c.id
    BY <2>1, OrderFacts
  <2> QED BY <1>1, <2>1, <2>2
<1>3. m \in [Orders -> Orders]
  BY <1>1, <1>2
<1>4. queue \in Seq(Orders) /\ UNCHANGED <<at, half>> /\ task' = [task EXCEPT ![v] = Idle]
  BY DEF ChannelOK, Cancel
<1>5. queue' = [i \in 1..Len(queue) |-> m[queue[i]]]
  <2>1. \A i \in 1..Len(queue) : queue[i] \in Orders
    BY <1>4
  <2> QED BY <1>1, <2>1 DEF Cancel
<1>6. queue' \in Seq(Orders) /\ Len(queue') = Len(queue)
  BY <1>3, <1>4, <1>5
<1>7. queue # <<>> => queue' # <<>> /\ Head(queue) \in Orders /\ Head(queue') = m[Head(queue)]
  BY <1>3, <1>4, <1>5
<1>8. queue = <<>> => queue' = <<>>
  BY <1>4, <1>6
<1>9. HalfOK'
  BY <1>2, <1>4, <1>7 DEF ChannelOK, HalfOK, Open
<1>10. task' \in [Tasks -> States]
  BY <1>4 DEF ChannelOK, States, Idle
<1> QED BY <1>4, <1>6, <1>8, <1>9, <1>10 DEF ChannelOK, Open

LEMMA ReplyChannel ==
  ASSUME ChannelOK, Open, queue # <<>>, NEW state \in States, Reply(Head(queue), state),
         at' = at, half' = NULL
  PROVE  ChannelOK'
<1>1. Head(queue) \in Orders /\ queue' \in Seq(Orders) /\ Len(queue') <= MaxQueue
  <2>1. queue \in Seq(Orders) /\ Len(queue) <= MaxQueue /\ MaxQueue \in Nat /\ queue' = Tail(queue)
    BY StoreAssumption DEF ChannelOK, Reply
  <2>2. Len(queue) \in Nat /\ Len(Tail(queue)) = Len(queue) - 1
    BY <2>1
  <2> QED BY <2>1, <2>2
<1>2. task' \in [Tasks -> States]
  BY DEF ChannelOK, Reply
<1> QED BY <1>1, <1>2 DEF ChannelOK, HalfOK, Open

-----------------------------------------------------------------------------
\* The invariant holds.

\* While the thread serves, what the markers say stays.
LEMMA ServesFile ==
  ASSUME NEW d, NEW n, NEW m, NEW s, NEW t, NEW u, Keys(d), Serves(d, n), FileOK(d, m, s, t),
         m = 9, \A x \in {"backfill", "stamp", "_pending_op_at_v1"} : x \in t => x \in u
  PROVE  Keys(n) /\ FileOK(n, m, s, u)
<1>1. /\ Keys(n) /\ n.objs = d.objs /\ (Indexed(d) => Indexed(n))
      /\ \A e \in Emails : /\ Old(n, e) => Old(d, e)
                           /\ Untimed(n, e) => Untimed(d, e)
                           /\ Bare(n, e) => Bare(d, e)
  BY DEF Serves, Follows
<1>2. IndexOK(n, m, s) /\ BodiesOK(n, m, s)
  BY <1>1 DEF FileOK, IndexOK, BodiesOK
<1>3. MailboxesOK(n, m, s, u)
  BY <1>1 DEF FileOK, MailboxesOK
<1>4. PendingOK(n, m, s, u)
  BY <1>1 DEF FileOK, PendingOK
<1> QED BY <1>1, <1>2, <1>3, <1>4 DEF FileOK

LEMMA KeepsWhole ==
  ASSUME NEW d, NEW n, NEW e, NEW t, NEW h, WholeOK(d, t, h), e \in Emails,
         Keeps(d, n, e), n.rows[e] # NULL, e \notin t \cup {h}
  PROVE  Whole(n, e)
BY DEF WholeOK, Keeps, Whole

LEMMA InitIInv ==
  ASSUME Init PROVE IInv
<1>1. PICK r \in [Emails -> OldRow \cup {NULL}] :
        db = [objs |-> {}, rows |-> r, filed |-> {}, fts |-> {},
              atts |-> [e \in Emails |-> IF r[e] # NULL /\ r[e].body # NULL THEN Parts ELSE {}]]
  BY DEF Init, Files
<1>2. OldRow \subseteq Row /\ \A o \in OldRow : o.body # NULL => o.body.parts = Parts
  BY DEF OldRow, Row, Body
<1>3. Keys(db)
  BY <1>1, <1>2 DEF Keys, Databases
<1>4. ChannelOK
  BY StoreAssumption DEF Init, ChannelOK, HalfOK, States, Idle
<1>5. at \in Places /\ Stage(at) = 1 /\ Line(at) = 1
  BY StageFacts DEF Init
<1>6. FileOK(db, 1, 1, torn)
  BY <1>1 DEF FileOK, IndexOK, BodiesOK, MailboxesOK, PendingOK
<1>7. WholeOK(db, torn, half)
  BY <1>1, <1>2 DEF WholeOK, Whole
<1> QED BY <1>3, <1>4, <1>5, <1>6, <1>7 DEF IInv

LEMMA MigrateIInv ==
  ASSUME IInv, Migrate
  PROVE  IInv' /\ \A e \in Emails : Keeps(db, db', e)
<1>1. UNCHANGED <<queue, half, task, torn>> /\ ~Open
  BY DEF Migrate
<1>2. /\ Keys(db') /\ (Open' \/ at' \in Places)
      /\ FileOK(db', Stage(at'), Line(at'), torn)
      /\ \A e \in Emails : Keeps(db, db', e)
  BY MigrateOpens, OpensKeeps
<1>3. ChannelOK'
  BY <1>1 DEF IInv, ChannelOK, HalfOK
<1>4. WholeOK(db', torn, half)
  BY <1>2, KeepsWhole DEF IInv, WholeOK
<1> QED BY <1>1, <1>2, <1>3, <1>4 DEF IInv

\* A command whose reply is sent: it is none between its two statements.
LEMMA ServeFacts ==
  ASSUME IInv, Open, queue # <<>>
  PROVE  /\ Head(queue) \in Orders /\ Keys(db) /\ ChannelOK /\ HalfOK
         /\ Stage(at) = 9 /\ Line(at) = 1 /\ FileOK(db, 9, 1, torn) /\ WholeOK(db, torn, half)
         /\ Head(queue).op # "remove" => half = NULL
<1>1. Head(queue) \in Orders
  BY DEF IInv, ChannelOK
<1>2. Stage(at) = 9 /\ Line(at) = 1
  BY DEF Open, Stage, Line
<1> QED BY <1>1, <1>2 DEF IInv, ChannelOK, HalfOK

\* What remains to show of a command: the message it is about, if it keeps the others.
LEMMA ServedIInv ==
  ASSUME IInv, Open, queue # <<>>, at' = at, ChannelOK', Serves(db, db'),
         \A x : x \in torn => x \in torn' \/ x \in Emails,
         \A e \in Emails : db'.rows[e] # NULL /\ e \notin torn' \cup {half'} => Whole(db', e)
  PROVE  IInv'
<1>1. Keys(db) /\ FileOK(db, 9, 1, torn) /\ Stage(at) = 9 /\ Line(at) = 1
  BY ServeFacts
<1>2. Keys(db') /\ FileOK(db', 9, 1, torn')
  BY <1>1, NameFacts, ServesFile
<1> QED BY <1>1, <1>2 DEF IInv, WholeOK, Open

LEMMA LoadIInv ==
  ASSUME IInv, Open, queue # <<>>, at' = at, Load(Head(queue))
  PROVE  IInv'
<1>1. PICK c : c = Head(queue)
  OBVIOUS
<1>2. c \in Orders /\ c.op = "load" /\ half = NULL /\ UNCHANGED <<db, half, torn>>
  BY <1>1, ServeFacts DEF Load
<1>3. PICK state \in States : Reply(c, state)
  <2>1. Idle \in States /\ [pc |-> "fetching", id |-> c.id] \in States
    BY <1>2, CarryFacts DEF Idle, States
  <2> QED BY <1>1, <2>1 DEF Load
<1>4. ChannelOK'
  BY <1>1, <1>2, <1>3, ServeFacts, ReplyChannel
<1> QED BY <1>2, <1>4 DEF IInv, Open

LEMMA SaveIInv ==
  ASSUME IInv, Open, queue # <<>>, at' = at, Save(Head(queue))
  PROVE  IInv' /\ Serves(db, db')
<1>1. PICK c : c = Head(queue)
  OBVIOUS
<1>2. /\ c \in Orders /\ c.op = "save" /\ half = NULL /\ half' = half /\ Reply(c, Idle)
      /\ db' = db \/ db' = SaveBody(db, c.id, c.arg)
      /\ torn' = IF db' = db THEN torn ELSE torn \ {c.id}
  BY <1>1, ServeFacts DEF Save
<1>3. c.id \in Emails /\ c.arg \in SUBSET Parts /\ Keys(db) /\ WholeOK(db, torn, half)
  BY <1>2, CarryFacts, ServeFacts
<1>4. /\ Serves(db, db') /\ \A e \in Emails : Keeps(db, db', e)
      /\ db' # db => Whole(db', c.id)
  <2>1. Serves(db, db) /\ \A e \in Emails : Keeps(db, db, e)
    BY <1>3 DEF Serves, Follows, Keeps
  <2> QED BY <1>2, <1>3, <2>1, SaveBodyServes
<1>5. ChannelOK'
  BY <1>1, <1>2, ServeFacts, ReplyChannel DEF States, Idle
<1>6. ASSUME NEW e \in Emails, db'.rows[e] # NULL, e \notin torn' \cup {half'} PROVE Whole(db', e)
  <2>1. CASE e = c.id /\ db' # db
    BY <1>4, <2>1
  <2>2. CASE ~(e = c.id /\ db' # db)
    BY <1>2, <1>3, <1>4, <1>6, <2>2, KeepsWhole
  <2> QED BY <2>1, <2>2
<1> QED BY <1>2, <1>3, <1>4, <1>5, <1>6, ServedIInv

LEMMA WriteIInv ==
  ASSUME IInv, Open, queue # <<>>, at' = at, Write(Head(queue))
  PROVE  IInv' /\ Serves(db, db')
<1>1. PICK c : c = Head(queue)
  OBVIOUS
<1>2. /\ c \in Orders /\ half' = half /\ Reply(c, Idle)
      /\ \/ c.op = "upsert" /\ db' = Upsert(db, c.id, c.arg)
         \/ c.op = "delta"  /\ db' = Remove(db, c.id)
         \/ c.op = "prune"  /\ db' = Prune(db, c.arg)
         \/ c.op = "flag"   /\ db' = MarkPending(db, c.id)
      /\ torn' = torn \ (Emails \ Stored(db'))
  BY <1>1, ServeFacts DEF Write
<1>3. half = NULL /\ Keys(db) /\ WholeOK(db, torn, half)
  BY <1>1, <1>2, ServeFacts
<1>4. Serves(db, db') /\ \A e \in Emails : Keeps(db, db', e)
  <2>1. CASE c.op = "upsert" /\ db' = Upsert(db, c.id, c.arg)
    BY <1>2, <1>3, <2>1, CarryFacts, UpsertServes
  <2>2. CASE c.op = "delta" /\ db' = Remove(db, c.id)
    BY <1>2, <1>3, <2>2, CarryFacts, RemoveServes
  <2>3. CASE c.op = "prune" /\ db' = Prune(db, c.arg)
    BY <1>2, <1>3, <2>3, CarryFacts, PruneServes
  <2>4. CASE c.op = "flag" /\ db' = MarkPending(db, c.id)
    BY <1>2, <1>3, <2>4, CarryFacts, MarkPendingServes
  <2> QED BY <1>2, <2>1, <2>2, <2>3, <2>4
<1>5. ChannelOK'
  BY <1>1, <1>2, <1>3, ServeFacts, ReplyChannel DEF States, Idle
<1>6. ASSUME NEW e \in Emails, db'.rows[e] # NULL, e \notin torn' \cup {half'} PROVE Whole(db', e)
  <2>1. e \notin torn \cup {half}
    BY <1>2, <1>6 DEF Stored
  <2> QED BY <1>3, <1>4, <1>6, <2>1, KeepsWhole
<1> QED BY <1>2, <1>4, <1>5, <1>6, ServedIInv

LEMMA RemoveAttachmentsIInv ==
  ASSUME IInv, Open, queue # <<>>, at' = at, RemoveAttachments(Head(queue))
  PROVE  IInv' /\ Serves(db, db')
<1>1. PICK c : c = Head(queue)
  OBVIOUS
<1>2. /\ c \in Orders /\ c.op = "remove" /\ half = NULL /\ half' = c.id
      /\ db' = [db EXCEPT !.atts[c.id] = {}] /\ UNCHANGED <<queue, task, torn>>
  BY <1>1, ServeFacts DEF RemoveAttachments
<1>3. c.id \in Emails /\ Keys(db) /\ WholeOK(db, torn, half) /\ ChannelOK
  BY <1>2, CarryFacts, ServeFacts
<1>4. Serves(db, db') /\ \A e \in Emails : e # c.id => Keeps(db, db', e)
  BY <1>2, <1>3, DropAttachmentsServes
<1>5. ChannelOK'
  BY <1>1, <1>2, <1>3 DEF ChannelOK, HalfOK, Open
<1>6. ASSUME NEW e \in Emails, db'.rows[e] # NULL, e \notin torn' \cup {half'} PROVE Whole(db', e)
  <2>1. e # c.id /\ e \notin torn \cup {half}
    BY <1>2, <1>6, CacheAssumption
  <2> QED BY <1>3, <1>4, <1>6, <2>1, KeepsWhole
<1> QED BY <1>2, <1>4, <1>5, <1>6, ServedIInv

LEMMA RemoveRowIInv ==
  ASSUME IInv, Open, queue # <<>>, at' = at, RemoveRow(Head(queue))
  PROVE  IInv' /\ Serves(db, db')
<1>1. PICK c : c = Head(queue)
  OBVIOUS
<1>2. /\ c \in Orders /\ c.op = "remove" /\ half = c.id /\ half' = NULL
      /\ db' = Remove(db, c.id) /\ torn' = torn \ {c.id} /\ Reply(c, Idle)
  BY <1>1, ServeFacts DEF RemoveRow, HalfOK
<1>3. c.id \in Emails /\ Keys(db) /\ WholeOK(db, torn, half)
  BY <1>2, CarryFacts, ServeFacts
<1>4. Serves(db, db') /\ (\A e \in Emails : Keeps(db, db', e)) /\ db'.rows[c.id] = NULL
  BY <1>2, <1>3, RemoveServes
<1>5. ChannelOK'
  BY <1>1, <1>2, <1>3, ServeFacts, ReplyChannel DEF States, Idle
<1>6. ASSUME NEW e \in Emails, db'.rows[e] # NULL, e \notin torn' \cup {half'} PROVE Whole(db', e)
  <2>1. e # c.id /\ e \notin torn \cup {half}
    BY <1>2, <1>4, <1>6
  <2> QED BY <1>3, <1>4, <1>6, <2>1, KeepsWhole
<1> QED BY <1>2, <1>3, <1>4, <1>5, <1>6, ServedIInv

LEMMA ServeIInv ==
  ASSUME IInv, Serve
  PROVE  IInv' /\ Serves(db, db')
<1>1. Open /\ queue # <<>> /\ at' = at
  BY DEF Serve, Dispatch
<1>2. CASE Load(Head(queue))
  <2>1. Serves(db, db')
    BY <1>2 DEF Load, Serves, Follows, IInv
  <2> QED BY <1>1, <1>2, <2>1, LoadIInv
<1>3. CASE Save(Head(queue))
  BY <1>1, <1>3, SaveIInv
<1>4. CASE Write(Head(queue))
  BY <1>1, <1>4, WriteIInv
<1>5. CASE RemoveAttachments(Head(queue))
  BY <1>1, <1>5, RemoveAttachmentsIInv
<1>6. CASE RemoveRow(Head(queue))
  BY <1>1, <1>6, RemoveRowIInv
<1> QED BY <1>2, <1>3, <1>4, <1>5, <1>6 DEF Serve, Dispatch

\* The steps of the tasks leave the database alone.
LEMMA ChannelIInv ==
  ASSUME IInv, ChannelOK', UNCHANGED <<db, at, half, starts, torn>>
  PROVE  IInv'
BY DEF IInv, Open

LEMMA ViewIInv ==
  ASSUME IInv, NEW v \in Views, NEW e \in Emails, View(v, e)
  PROVE  IInv'
<1>1. [pc |-> "loading", id |-> e] \in States /\ Command("load", e, {}) \in Orders /\ v \in Tasks
  BY CommandFacts DEF States, Tasks
<1>2. ChannelOK'
  BY <1>1, SendChannel DEF View, IInv
<1> QED BY <1>2, ChannelIInv DEF View, Send

LEMMA FetchIInv ==
  ASSUME IInv, NEW v \in Views, Fetch(v)
  PROVE  IInv'
<1>1. v \in Tasks /\ task \in [Tasks -> States] /\ task[v].pc = "fetching" /\ ChannelOK
  BY DEF IInv, ChannelOK, Fetch, Tasks
<1>2. task[v].id \in Emails
  BY <1>1 DEF States
<1>3. CASE task' = [task EXCEPT ![v] = Idle] /\ UNCHANGED <<db, at, queue, half, starts, torn>>
  <2>1. ChannelOK'
    BY <1>1, <1>3 DEF ChannelOK, HalfOK, Open, States, Idle
  <2> QED BY <1>3, <2>1, ChannelIInv
<1>4. ASSUME NEW parts \in Downloaded,
             Send(v, Command("save", task[v].id, parts), [pc |-> "saving", id |-> task[v].id])
      PROVE  IInv'
  <2>1. /\ Command("save", task[v].id, parts) \in Orders
        /\ [pc |-> "saving", id |-> task[v].id] \in States
    BY <1>2, CommandFacts DEF Downloaded, States
  <2>2. ChannelOK'
    BY <1>1, <1>4, <2>1, SendChannel
  <2> QED BY <1>4, <2>2, ChannelIInv DEF Send
<1> QED BY <1>3, <1>4 DEF Fetch

LEMMA ChangeIInv ==
  ASSUME IInv, NEW c \in Commands, Change(c)
  PROVE  IInv'
<1>1. c \in Orders
  BY CommandFacts DEF Commands
<1>2. [pc |-> "waiting"] \in States /\ SYNC \in Tasks
  BY DEF States, Tasks
<1>3. ChannelOK'
  BY <1>1, <1>2, SendChannel DEF Change, IInv
<1> QED BY <1>3, ChannelIInv DEF Change, Send

LEMMA CancelIInv ==
  ASSUME IInv, NEW v \in Views, Cancel(v)
  PROVE  IInv'
<1>1. ChannelOK'
  BY CancelChannel DEF IInv
<1> QED BY <1>1, ChannelIInv DEF Cancel

\* A crash in a migration is remembered, unless the migration had done nothing.
LEMMA RestartIInv ==
  ASSUME IInv, Restart
  PROVE  IInv'
<1>1. /\ db' = db /\ at' = <<1, 1>> /\ queue' = <<>> /\ half' = NULL
      /\ task' = [t \in Tasks |-> Idle]
      /\ torn \subseteq torn' /\ (half # NULL => half \in torn')
      /\ ~Open /\ at[2] > 1 => Migrations[at[1]].run[at[2]] \in torn'
  BY DEF Restart
<1>2. ChannelOK'
  BY <1>1, StoreAssumption DEF ChannelOK, HalfOK, States, Idle
<1>3. at' \in Places /\ Stage(at') = 1 /\ Line(at') = 1
  BY <1>1, StageFacts
<1>4. Open \/ at \in Places
  BY DEF IInv
<1>5. PICK m \in 1..9, s \in 1..3 :
        /\ Stage(at) = m /\ Line(at) = s
        /\ m = 7 /\ s = 2 => "backfill" \in torn'
        /\ m = 8 /\ s = 2 => "stamp" \in torn'
  <2>1. CASE Open
    BY <2>1, StageFacts DEF Open
  <2>2. CASE ~Open
    <3>1. PICK m \in 1..8, s \in 1..3 : at = <<m, s>>
      BY <1>4, <2>2 DEF Places
    <3>2. at[1] = m /\ at[2] = s /\ Stage(at) = m /\ Line(at) = s
      BY <3>1, StageFacts
    <3>3. m = 7 /\ s = 2 => "backfill" \in torn'
      BY <1>1, <2>2, <3>2, MigrationFacts
    <3>4. m = 8 /\ s = 2 => "stamp" \in torn'
      BY <1>1, <2>2, <3>2, MigrationFacts
    <3> QED BY <3>2, <3>3, <3>4
  <2> QED BY <2>1, <2>2
<1>6. FileOK(db, m, s, torn)
  BY <1>5 DEF IInv
<1>7. FileOK(db, 1, 1, torn')
  BY <1>1, <1>5, <1>6 DEF FileOK, IndexOK, BodiesOK, MailboxesOK, PendingOK
<1>8. WholeOK(db, torn', NULL)
  BY <1>1, CacheAssumption DEF IInv, WholeOK
<1> QED BY <1>1, <1>2, <1>3, <1>7, <1>8 DEF IInv

LEMMA NextIInv ==
  ASSUME IInv, [Next]_vars
  PROVE  IInv'
<1>1. CASE Migrate
  BY <1>1, MigrateIInv
<1>2. CASE Serve
  BY <1>2, ServeIInv
<1>3. CASE Restart
  BY <1>3, RestartIInv
<1>4. CASE \E v \in Views : Fetch(v) \/ Cancel(v) \/ \E e \in Emails : View(v, e)
  BY <1>4, FetchIInv, CancelIInv, ViewIInv
<1>5. CASE \E c \in Commands : Change(c)
  BY <1>5, ChangeIInv
<1>6. CASE UNCHANGED vars
  BY <1>6 DEF vars, IInv, ChannelOK, HalfOK, Open
<1> QED BY <1>1, <1>2, <1>3, <1>4, <1>5, <1>6 DEF Next

LEMMA Invariance ==
  Spec => []IInv
<1>1. Init => IInv
  BY InitIInv
<1>2. IInv /\ [Next]_vars => IInv'
  BY NextIInv
<1> QED BY <1>1, <1>2, PTL DEF Spec

-----------------------------------------------------------------------------
\* The theorems.

\* The state has its shape, and attachments and mailboxes belong to rows, whatever
\* is served and wherever the process is stopped.
THEOREM CacheTyped ==
  Spec => []TypeOK
<1>1. IInv => TypeOK
  <2> SUFFICES ASSUME IInv PROVE TypeOK
    OBVIOUS
  <2>1. Keys(db) /\ ChannelOK /\ (Open \/ at \in Places)
    BY DEF IInv
  <2>2. /\ db.rows \in [Emails -> Row \cup {NULL}]
        /\ \A e \in Emails : db.atts[e] \subseteq Parts /\ (db.atts[e] # {} => e \in Stored(db))
        /\ db.filed \subseteq Stored(db)
    BY <2>1 DEF Keys, Databases, Stored
  <2>3. Open \/ at[2] \in 1..Len(Migrations[at[1]].run)
    BY <2>1 DEF Places
  <2> QED BY <2>1, <2>2, <2>3 DEF TypeOK, ChannelOK
<1> QED BY <1>1, Invariance, PTL

\* Once open, a search finds exactly the rows by their text as it is, through every
\* command, and after every start however the starts before it were cut short.
THEOREM SearchFindsTheRows ==
  Spec => []SearchFindsRows
<1>1. IInv => SearchFindsRows
  BY StageFacts DEF IInv, FileOK, IndexOK, Indexed, SearchFindsRows, Open
<1> QED BY <1>1, Invariance, PTL

\* A body in the cache has the attachments that were saved with it, whatever views
\* raced for it, but for a message whose removal is between its two statements, or
\* was cut short there and neither saved nor removed since.
THEOREM BodiesAreWhole ==
  Spec => []BodyWhole
<1>1. IInv => BodyWhole
  BY DEF IInv, WholeOK, Whole, BodyWhole, Stored
<1> QED BY <1>1, Invariance, PTL

\* When the thread starts and from then on: no body of an old rendering is left; every
\* message is in a mailbox, unless a start was cut short before the INSERT into
\* message_mailboxes; every pending operation has a time, unless a start was cut short
\* behind the ADD COLUMN of pending_op_at (src/store/schema.rs).  Starts cut short
\* anywhere else are made good.
THEOREM MigrationsFinish ==
  Spec => []Migrated
<1>1. IInv => Migrated
  <2> SUFFICES ASSUME IInv, Open PROVE Migrated
    BY DEF Migrated
  <2>1. Keys(db) /\ FileOK(db, 9, 1, torn)
    BY StageFacts DEF IInv, Open
  <2>2. \A e \in Stored(db) : db.rows[e].body # NULL => db.rows[e].body.by = "new"
    BY <2>1 DEF FileOK, BodiesOK, Old, Stored
  <2>3. "backfill" \notin torn => db.filed = Stored(db)
    BY <2>1 DEF FileOK, MailboxesOK, Bare, Stored, Keys, Databases
  <2>4. torn \cap {"stamp", "_pending_op_at_v1"} = {} =>
          \A e \in Stored(db) : db.rows[e].pending # "untimed"
    BY <2>1 DEF FileOK, PendingOK, Untimed, Stored
  <2> QED BY <2>2, <2>3, <2>4 DEF Migrated
<1> QED BY <1>1, Invariance, PTL

\* Whatever is saved, synced, viewed or flagged, and however often the store is opened
\* again, a row that stays keeps having a body, but for the UPDATE of
\* migrate_invalidate_body_cache at a start that does not find its marker.  (A view may
\* replace the body by another; the row may go, and the body with it.)
THEOREM BodiesAreKept ==
  Spec => BodyKept
<1> DEFINE Lost == \E e \in Stored(db) : /\ db.rows[e].body # NULL
                                         /\ db'.rows[e] # NULL /\ db'.rows[e].body = NULL
           Kept == \A e \in Stored(db) :
                     db.rows[e].body # NULL /\ db'.rows[e] # NULL /\ db'.rows[e].body = NULL
                       => ~Open /\ "_body_cache_v2" \notin db.objs
<1>1. IInv /\ [Next]_vars => Kept
  <2> SUFFICES ASSUME IInv, [Next]_vars, Lost
               PROVE  ~Open /\ "_body_cache_v2" \notin db.objs
    OBVIOUS
  <2>1. CASE Serve
    BY <2>1, ServeIInv DEF Serves, Stored
  <2>2. CASE Migrate
    <3>1. Opens /\ ~Open /\ Keys(db)
      BY <2>2, MigrateOpens DEF Migrate, IInv
    <3>2. \A s \in Objects \cup {"rebuild", "backfill", "stamp"} : db' # Execute(db, s)
      BY <3>1, StatementKeepsBody DEF Stored
    <3>3. db' # db
      OBVIOUS
    <3> QED BY <3>1, <3>2, <3>3 DEF Opens, Goes, Objects
  <2>3. CASE db' = db
    BY <2>3
  <2> QED BY <2>1, <2>2, <2>3
          DEF Next, Restart, Fetch, Cancel, View, Change, Send, vars
<1>2. [Kept]_vars <=> Kept
  BY DEF vars
<1> QED BY <1>1, Invariance, PTL DEF Spec, BodyKept
=============================================================================
