-------------------------- MODULE MC_SqliteScanner --------------------------
EXTENDS SqliteScanner

\* Quotes around a positional placeholder.
MCQuoteChars == {"squote", "question", "space"}

=============================================================================
