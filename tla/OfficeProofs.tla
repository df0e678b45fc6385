----------------------------- MODULE OfficeProofs -----------------------------
(***************************************************************************)
(* Proofs about the register of consents and the knowledge base.           *)
(***************************************************************************)
EXTENDS Consents, KnowledgeBase, SequenceTheorems, TLAPS

-----------------------------------------------------------------------------
(* The register of consents.                                               *)

\* At most one record for a purpose is open, expired or not, and none is when
\* the user has withdrawn: so the one withdraw_consent finds is the only one.
OneOpen(records) ==
    \A i, j \in DOMAIN records :
        /\ records[i].purpose = records[j].purpose
        /\ ~records[i].withdrawn /\ ~records[j].withdrawn
        => i = j
ConsentsInv ==
    /\ ConsentsTypeOK
    /\ \A u \in Users : OneOpen(consents[u])
    /\ \A u \in Users, p \in Purposes : <<u, p>> \in refused => Open(u, p) = {}

\* What a grant makes of a user's records: those for the purpose are all
\* withdrawn, the others are as they were, and one is added.
LEMMA GrantedRecords ==
  ASSUME NEW records \in Seq(ConsentRecord), NEW p \in Purposes, OneOpen(records),
         NEW new, new = [purpose |-> p, withdrawn |-> FALSE, expired |-> FALSE]
  PROVE  LET after == Append(Revoked(records, p), new) IN
         /\ after \in Seq(ConsentRecord)
         /\ OneOpen(after)
         /\ \A q \in Purposes \ {p} :
              (\A i \in DOMAIN records : records[i].purpose = q => records[i].withdrawn)
              => (\A i \in DOMAIN after : after[i].purpose = q => after[i].withdrawn)
  <1> DEFINE revoked == Revoked(records, p)
             after == Append(revoked, new)
  <1>1. new \in ConsentRecord /\ new.purpose = p
    BY DEF ConsentRecord
  <1>2. DOMAIN records = 1..Len(records) /\ Len(records) \in Nat
        /\ \A i \in DOMAIN records : records[i] \in ConsentRecord
    OBVIOUS
  <1>3. revoked = [i \in 1..Len(records) |-> revoked[i]]
        /\ \A i \in 1..Len(records) :
             /\ revoked[i] \in ConsentRecord
             /\ revoked[i].purpose = records[i].purpose
             /\ revoked[i].withdrawn = (records[i].withdrawn \/ records[i].purpose = p)
    BY <1>2 DEF Revoked, ConsentRecord
  <1> HIDE DEF revoked
  <1>4. revoked \in Seq(ConsentRecord) /\ Len(revoked) = Len(records)
    BY <1>2, <1>3
  <1>5. /\ after \in Seq(ConsentRecord)
        /\ DOMAIN after = 1..Len(records) + 1
        /\ \A i \in 1..Len(records) : after[i] = revoked[i]
        /\ after[Len(records) + 1] = new
    BY <1>1, <1>2, <1>4
  <1> HIDE DEF after
  <1>6. \A i \in DOMAIN after : i \in 1..Len(records) \/ i = Len(records) + 1
    BY <1>2, <1>5
  <1>7. \A i \in DOMAIN after : after[i].purpose = p /\ ~after[i].withdrawn => i = Len(records) + 1
    BY <1>3, <1>5, <1>6
  <1>8. \A i \in DOMAIN after : after[i].purpose # p =>
          i \in DOMAIN records /\ after[i].purpose = records[i].purpose
          /\ after[i].withdrawn = records[i].withdrawn
    <2> SUFFICES ASSUME NEW i \in DOMAIN after, after[i].purpose # p
                 PROVE  i \in DOMAIN records /\ after[i].purpose = records[i].purpose
                        /\ after[i].withdrawn = records[i].withdrawn
      OBVIOUS
    <2>1. i \in 1..Len(records)
      BY <1>1, <1>5, <1>6
    <2>2. after[i] = revoked[i] /\ records[i].purpose # p
      BY <1>3, <1>5, <2>1
    <2>3. records[i].withdrawn \in BOOLEAN
      BY <1>2, <2>1 DEF ConsentRecord
    <2>4. revoked[i].withdrawn = records[i].withdrawn
      BY <1>3, <2>1, <2>2, <2>3
    <2> QED BY <1>2, <1>3, <2>1, <2>2, <2>4
  <1>9. OneOpen(after)
    BY <1>7, <1>8 DEF OneOpen
  <1> QED BY <1>5, <1>8, <1>9 DEF after, revoked

LEMMA GrantKeepsConsents ==
  ASSUME ConsentsInv, NEW u \in Users, NEW p \in Purposes, GrantConsent(u, p)
  PROVE  ConsentsInv'
  <1> DEFINE new == [purpose |-> p, withdrawn |-> FALSE, expired |-> FALSE]
             after == Append(Revoked(consents[u], p), new)
  <1>1. consents[u] \in Seq(ConsentRecord) /\ OneOpen(consents[u])
    BY DEF ConsentsInv, ConsentsTypeOK
  <1>2. /\ after \in Seq(ConsentRecord)
        /\ OneOpen(after)
        /\ \A q \in Purposes \ {p} :
             (\A i \in DOMAIN consents[u] : consents[u][i].purpose = q => consents[u][i].withdrawn)
             => (\A i \in DOMAIN after : after[i].purpose = q => after[i].withdrawn)
    BY <1>1, GrantedRecords
  <1>3. consents' = [consents EXCEPT ![u] = after] /\ refused' = refused \ {<<u, p>>}
    BY DEF GrantConsent
  <1> HIDE DEF after
  <1>4. ConsentsTypeOK' /\ \A v \in Users : OneOpen(consents'[v])
    BY <1>2, <1>3 DEF ConsentsInv, ConsentsTypeOK
  <1>5. ASSUME NEW v \in Users, NEW q \in Purposes, <<v, q>> \in refused'
        PROVE  Open(v, q)' = {}
    <2>1. <<v, q>> \in refused /\ Open(v, q) = {}
      BY <1>3, <1>5 DEF ConsentsInv
    <2>2. CASE v # u
      BY <1>3, <2>1, <2>2 DEF Open, ConsentsInv, ConsentsTypeOK
    <2>3. CASE v = u
      <3>1. q # p
        BY <1>3, <1>5, <2>3
      <3>2. consents'[u] = after
        BY <1>3 DEF ConsentsInv, ConsentsTypeOK
      <3> QED BY <1>2, <2>1, <2>3, <3>1, <3>2 DEF Open
    <2> QED BY <2>2, <2>3
  <1> QED BY <1>4, <1>5 DEF ConsentsInv

\* Only a record that is open is touched: afterwards its purpose has none.
LEMMA WithdrawKeepsConsents ==
  ASSUME ConsentsInv, NEW u \in Users, NEW p \in Purposes, WithdrawConsent(u, p)
  PROVE  ConsentsInv'
  <1>1. refused' = refused \cup {<<u, p>>}
    BY DEF WithdrawConsent
  <1>2. CASE Open(u, p) = {}
    <2>1. UNCHANGED consents
      BY <1>2 DEF WithdrawConsent
    <2> QED BY <1>1, <1>2, <2>1 DEF ConsentsInv, ConsentsTypeOK, Open
  <1>3. CASE Open(u, p) # {}
    <2>1. PICK first \in Open(u, p) :
             consents' = [consents EXCEPT ![u][first].withdrawn = TRUE]
      BY <1>3 DEF WithdrawConsent
    <2> DEFINE records == consents[u]
               after == [records EXCEPT ![first] = [records[first] EXCEPT !.withdrawn = TRUE]]
    <2>2. records \in Seq(ConsentRecord) /\ OneOpen(records)
      BY DEF ConsentsInv, ConsentsTypeOK
    <2>3. first \in DOMAIN records /\ records[first].purpose = p /\ ~records[first].withdrawn
      BY <2>1 DEF Open
    <2>4. consents' = [consents EXCEPT ![u] = after]
      BY <2>1
    <2>5. after[first] = [records[first] EXCEPT !.withdrawn = TRUE]
          /\ records[first] \in ConsentRecord
      BY <2>2, <2>3
    <2>6. /\ after[first] \in ConsentRecord
          /\ after[first].purpose = p /\ after[first].withdrawn
      BY <2>3, <2>5 DEF ConsentRecord
    <2>7. after \in Seq(ConsentRecord) /\ DOMAIN after = DOMAIN records
          /\ \A i \in DOMAIN records \ {first} : after[i] = records[i]
      BY <2>2, <2>3, <2>6
    <2>8. consents'[u] = after /\ \A v \in Users \ {u} : consents'[v] = consents[v]
      BY <2>4 DEF ConsentsInv, ConsentsTypeOK
    <2> HIDE DEF after
    <2>9. OneOpen(after)
      BY <2>2, <2>6, <2>7 DEF OneOpen
    <2>10. ConsentsTypeOK' /\ \A v \in Users : OneOpen(consents'[v])
      BY <1>1, <2>4, <2>7, <2>8, <2>9 DEF ConsentsInv, ConsentsTypeOK
    <2>11. \A i \in DOMAIN after : after[i].purpose = p => after[i].withdrawn
      BY <2>2, <2>3, <2>6, <2>7 DEF OneOpen
    <2>12. ASSUME NEW v \in Users, NEW q \in Purposes, <<v, q>> \in refused'
           PROVE  Open(v, q)' = {}
      <3>1. CASE v = u /\ q = p
        BY <2>8, <2>11, <3>1 DEF Open
      <3>2. CASE ~(v = u /\ q = p)
        <4>1. Open(v, q) = {}
          BY <1>1, <2>12, <3>2 DEF ConsentsInv
        <4>2. CASE v # u
          BY <2>8, <4>1, <4>2 DEF Open
        <4>3. CASE v = u
          BY <2>6, <2>7, <2>8, <3>2, <4>1, <4>3 DEF Open
        <4> QED BY <4>2, <4>3
      <3> QED BY <3>1, <3>2
    <2> QED BY <2>10, <2>12 DEF ConsentsInv
  <1> QED BY <1>2, <1>3

LEMMA ExpiryKeepsConsents ==
  ASSUME ConsentsInv, NEW u \in Users, NEW k \in DOMAIN consents[u], Expires(u, k)
  PROVE  ConsentsInv'
  <1> DEFINE records == consents[u]
             after == [records EXCEPT ![k] = [records[k] EXCEPT !.expired = TRUE]]
  <1>1. records \in Seq(ConsentRecord) /\ OneOpen(records) /\ records[k] \in ConsentRecord
    BY DEF ConsentsInv, ConsentsTypeOK
  <1>2. consents' = [consents EXCEPT ![u] = after] /\ UNCHANGED refused
    BY DEF Expires
  <1>3. after[k] = [records[k] EXCEPT !.expired = TRUE]
    BY <1>1
  <1>4. /\ after[k] \in ConsentRecord
        /\ after[k].purpose = records[k].purpose /\ after[k].withdrawn = records[k].withdrawn
    BY <1>1, <1>3 DEF ConsentRecord
  <1>5. after \in Seq(ConsentRecord) /\ DOMAIN after = DOMAIN records
        /\ \A i \in DOMAIN records : after[i].purpose = records[i].purpose
                                     /\ after[i].withdrawn = records[i].withdrawn
    BY <1>1, <1>4
  <1>6. consents'[u] = after /\ \A v \in Users \ {u} : consents'[v] = consents[v]
    BY <1>2 DEF ConsentsInv, ConsentsTypeOK
  <1>7. ConsentsTypeOK'
    BY <1>2, <1>5 DEF ConsentsInv, ConsentsTypeOK
  <1> HIDE DEF after
  <1>8. \A v \in Users : OneOpen(consents'[v])
    BY <1>1, <1>5, <1>6 DEF OneOpen, ConsentsInv
  <1>9. \A v \in Users, q \in Purposes : Open(v, q)' = Open(v, q)
    BY <1>5, <1>6 DEF Open
  <1> QED BY <1>2, <1>7, <1>8, <1>9 DEF ConsentsInv

LEMMA ConsentsAreInvariant == ConsentsSpec => []ConsentsInv
  <1>1. ConsentsInit => ConsentsInv
    BY DEF ConsentsInit, ConsentsInv, ConsentsTypeOK, OneOpen, Open
  <1>2. ConsentsInv /\ [ConsentsNext]_consentVars => ConsentsInv'
    <2> SUFFICES ASSUME ConsentsInv, [ConsentsNext]_consentVars PROVE ConsentsInv'
      OBVIOUS
    <2>1. CASE ConsentsNext
      BY <2>1, GrantKeepsConsents, WithdrawKeepsConsents, ExpiryKeepsConsents DEF ConsentsNext
    <2>2. CASE UNCHANGED consentVars
      BY <2>2 DEF consentVars, ConsentsInv, ConsentsTypeOK, OneOpen, Open
    <2> QED BY <2>1, <2>2
  <1> QED BY <1>1, <1>2, PTL DEF ConsentsSpec

\* For any purposes and however many records: one withdrawal is enough.
THEOREM OneWithdrawalIsEnough == ConsentsSpec => []WithdrawalHolds
  <1>1. ConsentsInv => WithdrawalHolds
    BY DEF ConsentsInv, WithdrawalHolds, HasValidConsent
  <1> QED BY ConsentsAreInvariant, <1>1, PTL

-----------------------------------------------------------------------------
(* The knowledge base.                                                     *)

\* The index knows every word of the articles that are not torn, published or
\* not: an article that is taken back is found when it is published again.
IndexKnows(table, known, excepted) ==
    \A id \in ArticleIds \ excepted : \A w \in WordsOf(table[id]) : id \in known[w]
KBInv ==
    /\ KBTypeOK
    /\ IndexKnows(articles, index, torn)

LEMMA WordsAreWords ==
  ASSUME NEW article, article \in Article \/ article = NoArticle
  PROVE  WordsOf(article) \subseteq Words
  BY DEF WordsOf, Article, NoArticle

\* A field is set to a word it is given or keeps the one it has.
LEMMA SetIsArticle ==
  ASSUME NEW article \in Article, NEW change \in Changes, NEW published \in BOOLEAN
  PROVE  Set(article, change, published) \in Article
  BY DEF Set, Article, Changes

\* A word that is indexed stays so, and the words of ids are all indexed.
LEMMA IndexGrows ==
  ASSUME KBInv, NEW table, NEW ids \in SUBSET ArticleIds,
         \A id \in ids : WordsOf(table[id]) \subseteq Words
  PROVE  /\ Indexed(table, ids) \in [Words -> SUBSET ArticleIds]
         /\ \A w \in Words : index[w] \subseteq Indexed(table, ids)[w]
         /\ \A id \in ids : \A w \in WordsOf(table[id]) : id \in Indexed(table, ids)[w]
  BY DEF KBInv, KBTypeOK, Indexed

LEMMA CreateKeepsBase ==
  ASSUME KBInv, NEW ids \in SUBSET ArticleIds, NEW table \in [ids -> Article],
         CreateArticles(ids, table)
  PROVE  KBInv'
  <1>1. \A id \in ids : table[id] \in Article /\ WordsOf(table[id]) \subseteq Words
    BY WordsAreWords
  <1>2. /\ index' \in [Words -> SUBSET ArticleIds]
        /\ \A w \in Words : index[w] \subseteq index'[w]
        /\ \A id \in ids : \A w \in WordsOf(table[id]) : id \in index'[w]
    BY <1>1, IndexGrows DEF CreateArticles
  <1>3. /\ DOMAIN articles' = ArticleIds /\ torn' = torn
        /\ \A id \in ArticleIds : articles'[id] = IF id \in ids THEN table[id] ELSE articles[id]
    BY DEF CreateArticles
  <1>4. KBTypeOK'
    BY <1>1, <1>2, <1>3 DEF KBInv, KBTypeOK
  <1>5. \A id \in ArticleIds : WordsOf(articles[id]) \subseteq Words
    BY WordsAreWords DEF KBInv, KBTypeOK
  <1>6. IndexKnows(articles', index', torn')
    BY <1>2, <1>3, <1>5 DEF KBInv, IndexKnows
  <1> QED BY <1>4, <1>6 DEF KBInv

\* An update, whole or half done: the others are as they were, and this one is
\* either indexed or torn or has the words it had.
LEMMA ChangeKeepsBase ==
  ASSUME KBInv, NEW id \in ArticleIds, NEW new \in Article,
         articles' = [articles EXCEPT ![id] = new],
         index' \in [Words -> SUBSET ArticleIds],
         \A w \in Words : index[w] \subseteq index'[w],
         torn' \in SUBSET ArticleIds, torn \ {id} \subseteq torn',
         \/ id \in torn'
         \/ \A w \in WordsOf(new) : id \in index'[w]
  PROVE  KBInv'
  <1>1. KBTypeOK'
    BY DEF KBInv, KBTypeOK
  <1>2. /\ articles'[id] = new
        /\ \A other \in ArticleIds \ {id} : articles'[other] = articles[other]
    BY DEF KBInv, KBTypeOK
  <1>3. \A other \in ArticleIds : WordsOf(articles[other]) \subseteq Words
    BY WordsAreWords DEF KBInv, KBTypeOK
  <1>4. IndexKnows(articles', index', torn')
    BY <1>2, <1>3 DEF KBInv, IndexKnows
  <1> QED BY <1>1, <1>4 DEF KBInv

LEMMA UpdateKeepsBase ==
  ASSUME KBInv, NEW id \in ArticleIds, NEW change \in Changes, NEW published \in BOOLEAN,
         UpdateArticle(id, change, published)
  PROVE  KBInv'
  <1> DEFINE new == Set(articles[id], change, published)
             table == [articles EXCEPT ![id] = new]
  <1>1. articles[id] \in Article
    BY DEF UpdateArticle, Stored, KBInv, KBTypeOK
  <1>2. new \in Article /\ WordsOf(new) \subseteq Words
    BY <1>1, SetIsArticle, WordsAreWords
  <1> HIDE DEF new
  <1>3. table[id] = new
    BY DEF KBInv, KBTypeOK
  <1>4. articles' = table /\ index' = Indexed(table, {id}) /\ torn' = torn \ {id}
    BY DEF UpdateArticle, new
  <1> HIDE DEF table
  <1>5. /\ index' \in [Words -> SUBSET ArticleIds]
        /\ \A w \in Words : index[w] \subseteq index'[w]
        /\ \A w \in WordsOf(new) : id \in index'[w]
    <2>1. {id} \in SUBSET ArticleIds /\ \A m \in {id} : WordsOf(table[m]) \subseteq Words
      BY <1>2, <1>3
    <2> QED BY <1>3, <1>4, <2>1, IndexGrows
  <1>6. torn' \in SUBSET ArticleIds
    BY <1>4 DEF KBInv, KBTypeOK
  <1> QED BY <1>2, <1>4, <1>5, <1>6, ChangeKeepsBase DEF table

LEMMA RaiseKeepsBase ==
  ASSUME KBInv, NEW id \in ArticleIds, NEW change \in Changes, NEW published \in BOOLEAN,
         UpdateRaises(id, change, published)
  PROVE  KBInv'
  <1> DEFINE new == Set(articles[id], change, published)
  <1>1. articles[id] \in Article
    BY DEF UpdateRaises, Stored, KBInv, KBTypeOK
  <1>2. new \in Article
    BY <1>1, SetIsArticle
  <1>3. articles' = [articles EXCEPT ![id] = new] /\ index' = index
        /\ torn' = IF DOMAIN change = {} THEN torn ELSE torn \cup {id}
    BY DEF UpdateRaises
  <1>4. index' \in [Words -> SUBSET ArticleIds] /\ torn' \in SUBSET ArticleIds
    BY <1>3 DEF KBInv, KBTypeOK
  <1>5. id \in torn' \/ \A w \in WordsOf(new) : id \in index'[w]
    <2>1. CASE DOMAIN change = {}
      <3>1. new.text = articles[id].text
        BY <1>1, <2>1 DEF Set, Article
      <3> QED BY <1>3, <2>1, <3>1 DEF KBInv, IndexKnows, WordsOf
    <2>2. CASE DOMAIN change # {}
      BY <1>3, <2>2
    <2> QED BY <2>1, <2>2
  <1> HIDE DEF new
  <1> QED BY <1>2, <1>3, <1>4, <1>5, ChangeKeepsBase

LEMMA DeleteKeepsBase ==
  ASSUME KBInv, NEW id \in ArticleIds, DeleteArticle(id)
  PROVE  KBInv'
  <1> DEFINE new == [articles[id] EXCEPT !.published = FALSE]
  <1>1. articles[id] \in Article
    BY DEF DeleteArticle, Stored, KBInv, KBTypeOK
  <1>2. new \in Article /\ new.text = articles[id].text
    BY <1>1 DEF Article
  <1>3. articles' = [articles EXCEPT ![id] = new] /\ UNCHANGED <<index, torn>>
    BY DEF DeleteArticle
  <1>4. index' \in [Words -> SUBSET ArticleIds] /\ torn' \in SUBSET ArticleIds
    BY <1>3 DEF KBInv, KBTypeOK
  <1>5. id \in torn' \/ \A w \in WordsOf(new) : id \in index'[w]
    BY <1>2, <1>3 DEF KBInv, IndexKnows, WordsOf
  <1> HIDE DEF new
  <1> QED BY <1>2, <1>3, <1>4, <1>5, ChangeKeepsBase

LEMMA BaseIsInvariant == KBSpec => []KBInv
  <1>1. KBInit => KBInv
    BY DEF KBInit, KBInv, KBTypeOK, IndexKnows, WordsOf, NoArticle
  <1>2. KBInv /\ [KBNext]_kbVars => KBInv'
    <2> SUFFICES ASSUME KBInv, [KBNext]_kbVars PROVE KBInv'
      OBVIOUS
    <2>1. CASE KBNext
      BY <2>1, CreateKeepsBase, UpdateKeepsBase, RaiseKeepsBase, DeleteKeepsBase DEF KBNext
    <2>2. CASE UNCHANGED kbVars
      BY <2>2 DEF kbVars, KBInv, KBTypeOK, IndexKnows
    <2> QED BY <2>1, <2>2
  <1> QED BY <1>1, <1>2, PTL DEF KBSpec

\* For any words and articles: what is published, and not torn, matches every
\* indexed word it has.
THEOREM PublishedIsFound == KBSpec => []FoundByItsWords
  <1>1. KBInv => FoundByItsWords
    BY DEF KBInv, IndexKnows, FoundByItsWords, Found
  <1> QED BY BaseIsInvariant, <1>1, PTL
=============================================================================
