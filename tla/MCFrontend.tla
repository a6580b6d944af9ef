----------------------------- MODULE MCFrontend ------------------------------
EXTENDS Frontend

MCDateForm == {<<"2024", "MINUS", "01", "MINUS", "01">>}
MCTooLarge == {<<"99">>, <<"99", "DOT", "1">>}
MCTooWide  == {<<"99">>, <<"2024">>}

MCKeywords == {"SELECT", "FROM", "WHERE", "INSERT", "INTO", "VALUES", "UPDATE", "SET",
               "DELETE", "CREATE", "TABLE", "INDEX", "DROP", "IF", "EXISTS", "PRIMARY", "KEY",
               "INT", "VARCHAR", "JOIN", "ON", "GROUP", "BY", "HAVING", "AND", "OR", "NOT",
               "IS", "NULL_LITERAL", "AS", "COMPACT"}
MCSigns == {"STAR", "DOT", "COMMA", "LPAREN", "RPAREN", "SEMICOLON", "MINUS", "EQ"}

MCAlphabet == {Word(t) : t \in MCKeywords \cup MCSigns}
              \cup {Token("IDENTIFIER", <<"a">>), Token("INT_LITERAL", <<"1">>),
                    Token("INT_LITERAL", <<"2024">>), Token("INT_LITERAL", <<"99">>),
                    Token("FLOAT_LITERAL", <<"99", "DOT", "1">>)}

MCSample == {Word(t) : t \in {"SELECT", "STAR", "DOT", "EQ", "NE", "LT", "GTE", "MINUS"}}
            \cup {Token("IDENTIFIER", <<"a">>), Token("IDENTIFIER", <<"a", "1">>),
                  Token("INT_LITERAL", <<"1">>), Token("FLOAT_LITERAL", <<"1", "DOT", "1">>),
                  Token("STRING_LITERAL", <<"SELECT">>),
                  Token("DATE_LITERAL", <<"2024", "MINUS", "01", "MINUS", "01">>),
                  Token("UNKNOWN", <<"BANG">>), Token("UNKNOWN", <<"OTHER">>)}
=============================================================================
