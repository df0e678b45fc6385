---------------------------- MODULE KnowledgeBase ----------------------------
(***************************************************************************)
(* The articles the agent answers from, and the index of their words       *)
(* (src/src/knowledge_base/kb_manager.py).  An article is told by the      *)
(* words of its fields that are indexed: of three letters or more and not  *)
(* stop words; a query is one of them.  Views, votes, versions, and the    *)
(* ranking of what a search matches and its limit, are left out.           *)
(***************************************************************************)

CONSTANTS
    ArticleIds,
    Words

VARIABLES
    articles,           \* _articles
    index,              \* _index
    torn                \* auxiliary: updated half-way, and not successfully since

kbVars == <<articles, index, torn>>

\* text: a word for the title, and one for the content and the tags.
TextFields == {"title", "body"}
Article == [text : [TextFields -> Words], published : BOOLEAN]
NoArticle == [text |-> <<>>, published |-> FALSE]
Stored(id) == articles[id] # NoArticle

KBTypeOK ==
    /\ DOMAIN articles = ArticleIds
    /\ \A id \in ArticleIds : articles[id] \in Article \/ articles[id] = NoArticle
    /\ index \in [Words -> SUBSET ArticleIds]
    /\ torn \subseteq ArticleIds

\* The default articles are created like any other.
KBInit ==
    /\ articles = [id \in ArticleIds |-> NoArticle]
    /\ index = [w \in Words |-> {}]
    /\ torn = {}

WordsOf(article) == {article.text[field] : field \in DOMAIN article.text}

\* _index_article, for each of ids: words are added and never taken away.
Indexed(table, ids) ==
    [w \in Words |-> index[w] \cup {id \in ids : w \in WordsOf(table[id])}]

\* create_article of each of ids, one from a caller and more from
\* import_from_json.  One with an unknown category leaves nothing.
CreateArticles(ids, table) ==
    /\ \A id \in ids : ~Stored(id)
    /\ articles' = [id \in ArticleIds |-> IF id \in ids THEN table[id] ELSE articles[id]]
    /\ index' = Indexed(table, ids)
    /\ UNCHANGED torn

\* An article after setattr of the fields of change.
Set(article, change, published) ==
    [text |-> [field \in TextFields |->
                  IF field \in DOMAIN change THEN change[field] ELSE article.text[field]],
     published |-> published]

\* MUTANT: an update that touches no text does not index the article again.
MutantUpdateArticle(id, change, published) ==
    LET table == [articles EXCEPT ![id] = Set(@, change, published)] IN
    /\ Stored(id)
    /\ articles' = table
    /\ index' = IF DOMAIN change = {} THEN index ELSE Indexed(table, {id})
    /\ torn' = torn \ {id}

UpdateArticle(id, change, published) ==
    LET table == [articles EXCEPT ![id] = Set(@, change, published)] IN
    /\ Stored(id)
    /\ articles' = table
    /\ index' = Indexed(table, {id})
    /\ torn' = torn \ {id}

\* update_article raises at an unknown category, the fields named before it set.
UpdateRaises(id, change, published) ==
    /\ Stored(id)
    /\ articles' = [articles EXCEPT ![id] = Set(@, change, published)]
    /\ torn' = IF DOMAIN change = {} THEN torn ELSE torn \cup {id}
    /\ UNCHANGED index

DeleteArticle(id) ==
    /\ Stored(id)
    /\ articles' = [articles EXCEPT ![id].published = FALSE]
    /\ UNCHANGED <<index, torn>>

Changes == UNION {[fields -> Words] : fields \in SUBSET TextFields}

KBNext ==
    \/ \E ids \in SUBSET ArticleIds \ {{}} : \E table \in [ids -> Article] :
          CreateArticles(ids, table)
    \/ \E id \in ArticleIds :
          \/ \E change \in Changes, published \in BOOLEAN :
                UpdateArticle(id, change, published) \/ UpdateRaises(id, change, published)
          \/ DeleteArticle(id)

KBSpec == KBInit /\ [][KBNext]_kbVars

-----------------------------------------------------------------------------
(* Properties.                                                             *)

\* What a search for w matches, of any category: what it returns, unless more
\* than limit articles match.
Found(w) == {id \in index[w] : articles[id].published}

\* A published article matches each indexed word it has, however often it was
\* taken back, rewritten and published again, unless its last update raised
\* half-way: then it has words the index does not know.  So a search for the
\* word returns it, unless more than limit articles match.
FoundByItsWords ==
    \A id \in ArticleIds :
        articles[id].published /\ id \notin torn
            => \A w \in WordsOf(articles[id]) : id \in Found(w)
=============================================================================
