SPECIFICATION Spec
CONSTANTS
    TokenType <- MCTokenType
    Unquoted <- MCUnquoted
    DoubleQuoted <- MCDoubleQuoted
    Queries <- MCQueries
    Layouts <- MCLayouts
    CommandLines <- MCCommandLines
INVARIANT NumbersFindTheirProperty
