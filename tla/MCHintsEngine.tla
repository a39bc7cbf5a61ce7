---------------------------- MODULE MCHintsEngine ----------------------------
EXTENDS HintsEngine

CONSTANTS t, c

WithColumn(name, notNullable, hasServerDefault) ==
    [name |-> name, notNullable |-> notNullable, hasServerDefault |-> hasServerDefault]
On(operation, columns, indexType) ==
    [operation |-> operation, table |-> t, columns |-> columns, indexType |-> indexType]

SomeHints ==
    {On("addColumn", <<WithColumn(NewColumn, TRUE, d)>>, "none") : d \in BOOLEAN}
    \cup {On("createIndex", <<WithColumn(c, FALSE, FALSE)>>, i) :
             i \in {"unique", "index", "fulltext", "none"}}
    \cup {On("createIndex", <<>>, "unique"), On("createTable", <<>>, "none"),
          On("none", <<>>, "none")}
    \cup {On("alterColumn", <<WithColumn(n, nn, FALSE)>>, "none") :
             n \in {c, NewColumn}, nn \in BOOLEAN}
=============================================================================
