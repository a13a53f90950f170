--------------------------- MODULE CypherGrammar ----------------------------
(***************************************************************************)
(* The openCypher parser of the compiler, one definition for each of its   *)
(* rule functions.  A rule function recognises the tokens of its rule and  *)
(* calls the functions of the rules in it; its definition is the EBNF of   *)
(* what it accepts, alternatives in the order it tries them.  Punctuation  *)
(* stands for the token type the lexer gives it.                           *)
(*                                                                         *)
(* Not modelled: what a rule function does at a token it does not expect   *)
(* (report and recover).                                                   *)
(***************************************************************************)
EXTENDS Ebnf

SP == T("SP")
SP0 == Opt(SP)   \* SP?

(* e, separated by commas with optional spacing around them *)
List(e) == e & Star(SP0 & T(",") & SP0 & e)

oC_Cypher == SP0 & R("oC_Statement") & Opt(SP0 & T(";")) & SP0 & T("EOF")

oC_Statement == R("oC_Query")

oC_Query == R("oC_RegularQuery") | R("oC_StandaloneCall")

oC_RegularQuery == R("oC_SingleQuery") & Star(SP0 & R("oC_Union"))

oC_Union == T("UNION") & SP & T("ALL") & SP0 & R("oC_SingleQuery")
          | T("UNION") & SP0 & R("oC_SingleQuery")

oC_SingleQuery == R("oC_SinglePartQuery") | R("oC_MultiPartQuery")

Reading  == Star(R("oC_ReadingClause") & SP0)

oC_SinglePartQuery ==
      Reading & R("oC_Return")
    | Reading & R("oC_UpdatingClause") & Star(SP0 & R("oC_UpdatingClause"))
        & Opt(SP0 & R("oC_Return"))

oC_MultiPartQuery ==
    Plus(Reading & Star(R("oC_UpdatingClause") & SP0) & R("oC_With") & SP0)
        & R("oC_SinglePartQuery")

oC_UpdatingClause ==
    R("oC_Create") | R("oC_Merge") | R("oC_Delete") | R("oC_Set") | R("oC_Remove")

oC_ReadingClause == R("oC_Match") | R("oC_Unwind") | R("oC_InQueryCall")

oC_Match == Opt(T("OPTIONAL") & SP) & T("MATCH") & SP0 & R("oC_Pattern")
            & Opt(SP0 & R("oC_Where"))

oC_Unwind == T("UNWIND") & SP0 & R("oC_Expression") & SP & T("AS") & SP
             & R("oC_Variable")

oC_Merge == T("MERGE") & SP0 & R("oC_PatternPart") & Star(SP & R("oC_MergeAction"))

oC_MergeAction == T("ON") & SP & T("MATCH") & SP & R("oC_Set")
                | T("ON") & SP & T("CREATE") & SP & R("oC_Set")

oC_Create == T("CREATE") & SP0 & R("oC_Pattern")

oC_Set == T("SET") & SP0 & R("oC_SetItem") & Star(T(",") & R("oC_SetItem"))

oC_SetItem ==
      R("oC_PropertyExpression") & SP0 & T("=") & SP0 & R("oC_Expression")
    | R("oC_Variable") & SP0 & T("=") & SP0 & R("oC_Expression")
    | R("oC_Variable") & SP0 & T("+=") & SP0 & R("oC_Expression")
    | R("oC_Variable") & SP0 & R("oC_NodeLabels")

oC_Delete == Opt(T("DETACH") & SP) & T("DELETE") & SP0 & List(R("oC_Expression"))

oC_Remove == T("REMOVE") & SP & List(R("oC_RemoveItem"))

oC_RemoveItem == R("oC_Variable") & R("oC_NodeLabels") | R("oC_PropertyExpression")

oC_InQueryCall == T("CALL") & SP & R("oC_ExplicitProcedureInvocation")
                  & Opt(SP0 & T("YIELD") & SP & R("oC_YieldItems"))

oC_StandaloneCall ==
    T("CALL") & SP
    & (R("oC_ExplicitProcedureInvocation") | R("oC_ImplicitProcedureInvocation"))
    & Opt(SP & T("YIELD") & SP & R("oC_YieldItems"))

oC_YieldItems == (T("*") | List(R("oC_YieldItem"))) & Opt(SP0 & R("oC_Where"))

oC_YieldItem == Opt(R("oC_ProcedureResultField") & SP & T("AS") & SP)
                & R("oC_Variable")

oC_With == T("WITH") & R("oC_ProjectionBody") & Opt(SP0 & R("oC_Where"))

oC_Return == T("RETURN") & R("oC_ProjectionBody")

oC_ProjectionBody ==
    Opt(SP0 & T("DISTINCT")) & SP & R("oC_ProjectionItems")
    & Opt(SP & R("oC_Order")) & Opt(SP & R("oC_Skip")) & Opt(SP & R("oC_Limit"))

oC_ProjectionItems == T("*") & Star(SP0 & T(",") & SP0 & R("oC_ProjectionItem"))
                    | List(R("oC_ProjectionItem"))

oC_ProjectionItem == R("oC_Expression") & SP & T("AS") & SP & R("oC_Variable")
                   | R("oC_Expression")

oC_Order == T("ORDER") & SP & T("BY") & SP & R("oC_SortItem")
            & Star(T(",") & SP0 & R("oC_SortItem"))

oC_Skip == T("L_SKIP") & SP & R("oC_Expression")

oC_Limit == T("LIMIT") & SP & R("oC_Expression")

oC_SortItem == R("oC_Expression")
               & Opt(SP0 & OneOf({"ASCENDING", "ASC", "DESCENDING", "DESC"}))

oC_Where == T("WHERE") & SP & R("oC_Expression")

-----------------------------------------------------------------------------
oC_Pattern == List(R("oC_PatternPart"))

oC_PatternPart ==
      R("oC_Variable") & SP0 & T("=") & SP0 & R("oC_AnonymousPatternPart")
    | R("oC_AnonymousPatternPart")

oC_AnonymousPatternPart == R("oC_PatternElement")

oC_PatternElement ==
      R("oC_NodePattern") & Star(SP0 & R("oC_PatternElementChain"))
    | T("(") & R("oC_PatternElement") & T(")")

oC_NodePattern ==
    T("(") & SP0 & Opt(R("oC_Variable") & SP0) & Opt(R("oC_NodeLabels") & SP0)
    & Opt(R("oC_Properties") & SP0) & T(")")

oC_PatternElementChain == R("oC_RelationshipPattern") & SP0 & R("oC_NodePattern")

LeftArrow   == R("oC_LeftArrowHead") & SP0
DashToDash  == R("oC_Dash") & SP0 & Opt(R("oC_RelationshipDetail")) & SP0 & R("oC_Dash")
RightArrow  == SP0 & R("oC_RightArrowHead")

oC_RelationshipPattern == LeftArrow & DashToDash & RightArrow
                        | LeftArrow & DashToDash
                        | DashToDash & RightArrow
                        | DashToDash

oC_RelationshipDetail ==
    T("[") & SP0 & Opt(R("oC_Variable") & SP0) & Opt(R("oC_RelationshipTypes") & SP0)
    & Opt(R("oC_RangeLiteral")) & Opt(R("oC_Properties") & SP0) & T("]")

oC_Properties == R("oC_MapLiteral") | R("oC_Parameter")

oC_RelationshipTypes ==
    T(":") & SP0 & R("oC_RelTypeName")
    & Star(SP0 & T("|") & Opt(T(":")) & SP0 & R("oC_RelTypeName"))

oC_NodeLabels == R("oC_NodeLabel") & Star(SP0 & R("oC_NodeLabel"))

oC_NodeLabel == T(":") & SP0 & R("oC_LabelName")

oC_RangeLiteral == T("*") & SP0 & Opt(R("oC_IntegerLiteral") & SP0)
                   & Opt(T("..") & SP0 & Opt(R("oC_IntegerLiteral") & SP0))

oC_LabelName == R("oC_SchemaName")

oC_RelTypeName == R("oC_SchemaName")

-----------------------------------------------------------------------------
oC_Expression == R("oC_OrExpression")

oC_OrExpression == R("oC_XorExpression") & Star(SP & T("OR") & SP & R("oC_XorExpression"))

oC_XorExpression == R("oC_AndExpression") & Star(SP & T("XOR") & SP & R("oC_AndExpression"))

oC_AndExpression == R("oC_NotExpression") & Star(SP & T("AND") & SP & R("oC_NotExpression"))

oC_NotExpression == Star(T("NOT") & SP0) & R("oC_ComparisonExpression")

oC_ComparisonExpression ==
    R("oC_AddOrSubtractExpression") & Star(SP0 & R("oC_PartialComparisonExpression"))

oC_AddOrSubtractExpression ==
    R("oC_MultiplyDivideModuloExpression")
    & Star(SP0 & T("+") & SP0 & R("oC_MultiplyDivideModuloExpression")
         | SP0 & T("-") & SP0 & R("oC_MultiplyDivideModuloExpression"))

oC_MultiplyDivideModuloExpression ==
    R("oC_PowerOfExpression")
    & Star(SP0 & T("*") & SP0 & R("oC_PowerOfExpression")
         | SP0 & T("/") & SP0 & R("oC_PowerOfExpression")
         | SP0 & T("%") & SP0 & R("oC_PowerOfExpression"))

oC_PowerOfExpression ==
    R("oC_UnaryAddOrSubtractExpression")
    & Star(SP0 & T("^") & SP0 & R("oC_UnaryAddOrSubtractExpression"))

oC_UnaryAddOrSubtractExpression ==
    Star(OneOf({"+", "-"}) & SP0) & R("oC_StringListNullOperatorExpression")

oC_StringListNullOperatorExpression ==
    R("oC_PropertyOrLabelsExpression")
    & Star(R("oC_StringOperatorExpression") | R("oC_ListOperatorExpression")
         | R("oC_NullOperatorExpression"))

oC_ListOperatorExpression ==
      SP & T("IN") & SP0 & R("oC_PropertyOrLabelsExpression")
    | SP0 & T("[") & R("oC_Expression") & T("]")
    | SP0 & T("[") & Opt(R("oC_Expression")) & T("..") & Opt(R("oC_Expression")) & T("]")

oC_StringOperatorExpression ==
    (SP & T("STARTS") & SP & T("WITH") | SP & T("ENDS") & SP & T("WITH")
     | SP & T("CONTAINS"))
    & SP0 & R("oC_PropertyOrLabelsExpression")

oC_NullOperatorExpression == SP & T("IS") & SP & T("NULL")
                           | SP & T("IS") & SP & T("NOT") & SP & T("NULL")

oC_PropertyOrLabelsExpression ==
    R("oC_Atom") & Star(SP0 & R("oC_PropertyLookup")) & Opt(SP0 & R("oC_NodeLabels"))

Quantified(word) ==
    T(word) & SP0 & T("(") & SP0 & R("oC_FilterExpression") & SP0 & T(")")

oC_Atom ==
      R("oC_Literal") | R("oC_Parameter") | R("oC_CaseExpression")
    | T("COUNT") & SP0 & T("(") & SP0 & T("*") & SP0 & T(")")
    | R("oC_ListComprehension") | R("oC_PatternComprehension")
    | Quantified("ALL") | Quantified("ANY") | Quantified("NONE") | Quantified("SINGLE")
    | R("oC_RelationshipsPattern") | R("oC_ParenthesizedExpression")
    | R("oC_FunctionInvocation") | R("oC_Variable")

oC_Literal == R("oC_NumberLiteral") | T("StringLiteral") | R("oC_BooleanLiteral")
            | T("NULL") | R("oC_MapLiteral") | R("oC_ListLiteral")

oC_BooleanLiteral == OneOf({"TRUE", "FALSE"})

(* e, followed by more of them after commas; each may be followed by space *)
Listed(e) == Opt(e & SP0 & Star(T(",") & SP0 & e & SP0))

oC_ListLiteral == T("[") & SP0 & Listed(R("oC_Expression")) & T("]")

oC_PartialComparisonExpression ==
      T("=") & SP0 & R("oC_AddOrSubtractExpression")
    | T("<>") & SP0 & R("oC_AddOrSubtractExpression")
    | T("<") & SP0 & R("oC_AddOrSubtractExpression")
    | T(">") & SP0 & R("oC_AddOrSubtractExpression")
    | T("<=") & SP0 & R("oC_AddOrSubtractExpression")
    | T(">=") & SP0 & R("oC_AddOrSubtractExpression")

oC_ParenthesizedExpression == T("(") & SP0 & R("oC_Expression") & SP0 & T(")")

oC_RelationshipsPattern == R("oC_NodePattern") & Plus(SP0 & R("oC_PatternElementChain"))

oC_FilterExpression == R("oC_IdInColl") & Opt(SP0 & R("oC_Where"))

oC_IdInColl == R("oC_Variable") & SP & T("IN") & SP & R("oC_Expression")

oC_FunctionInvocation ==
    R("oC_FunctionName") & SP0 & T("(") & SP0 & Opt(T("DISTINCT") & SP0)
    & Listed(R("oC_Expression")) & T(")")

oC_FunctionName == R("oC_Namespace") & R("oC_SymbolicName") | T("EXISTS")

oC_ExplicitProcedureInvocation ==
    R("oC_ProcedureName") & SP0 & T("(") & SP0 & Listed(R("oC_Expression")) & T(")")

oC_ImplicitProcedureInvocation == R("oC_ProcedureName")

oC_ProcedureResultField == R("oC_SymbolicName")

oC_ProcedureName == R("oC_Namespace") & R("oC_SymbolicName")

oC_Namespace == Star(R("oC_SymbolicName") & T("."))

oC_ListComprehension ==
    T("[") & SP0 & R("oC_FilterExpression")
    & Opt(SP0 & T("|") & SP0 & R("oC_Expression")) & SP0 & T("]")

oC_PatternComprehension ==
    T("[") & SP0 & Opt(R("oC_Variable") & SP0 & T("=") & SP0)
    & R("oC_RelationshipsPattern") & SP0
    & Opt(T("WHERE") & SP0 & R("oC_Expression") & SP0)
    & T("|") & SP0 & R("oC_Expression") & SP0 & T("]")

oC_PropertyLookup == T(".") & SP0 & R("oC_PropertyKeyName")

oC_CaseExpression ==
    (T("CASE") & Plus(SP0 & R("oC_CaseAlternatives"))
     | T("CASE") & SP0 & R("oC_Expression") & Plus(SP0 & R("oC_CaseAlternatives")))
    & Opt(SP0 & T("ELSE") & SP0 & R("oC_Expression")) & SP0 & T("END")

oC_CaseAlternatives ==
    T("WHEN") & SP0 & R("oC_Expression") & SP0 & T("THEN") & SP0 & R("oC_Expression")

oC_Variable == R("oC_SymbolicName")

oC_NumberLiteral == R("oC_DoubleLiteral") | R("oC_IntegerLiteral")

oC_MapLiteral ==
    T("{") & SP0
    & Listed(R("oC_PropertyKeyName") & SP0 & T(":") & SP0 & R("oC_Expression"))
    & T("}")

oC_Parameter == T("$") & (R("oC_SymbolicName") | T("DecimalInteger"))

oC_PropertyExpression == R("oC_Atom") & Plus(SP0 & R("oC_PropertyLookup"))

oC_PropertyKeyName == R("oC_SchemaName")

oC_IntegerLiteral == OneOf({"HexInteger", "OctalInteger", "DecimalInteger"})

oC_DoubleLiteral == OneOf({"ExponentDecimalReal", "RegularDecimalReal"})

oC_SchemaName == R("oC_SymbolicName") | R("oC_ReservedWord")

oC_ReservedWord == OneOf(
    {"ALL", "ASC", "ASCENDING", "BY", "CREATE", "DELETE", "DESC", "DESCENDING",
     "DETACH", "EXISTS", "LIMIT", "MATCH", "MERGE", "ON", "OPTIONAL", "ORDER",
     "REMOVE", "RETURN", "SET", "L_SKIP", "WHERE", "WITH", "UNION", "UNWIND",
     "AND", "AS", "CONTAINS", "DISTINCT", "ENDS", "IN", "IS", "NOT", "OR",
     "STARTS", "XOR", "FALSE", "TRUE", "NULL", "CONSTRAINT", "DO", "FOR",
     "REQUIRE", "UNIQUE", "CASE", "WHEN", "THEN", "ELSE", "END", "MANDATORY",
     "SCALAR", "OF", "ADD", "DROP"})

oC_SymbolicName == OneOf(
    {"UnescapedSymbolicName", "EscapedSymbolicName", "HexLetter", "COUNT",
     "FILTER", "EXTRACT", "ANY", "NONE", "SINGLE"})

oC_LeftArrowHead == OneOf({"<", "U+27E8", "U+3008", "U+FE64", "U+FF1C"})

oC_RightArrowHead == OneOf({">", "U+27E9", "U+3009", "U+FE65", "U+FF1E"})

oC_Dash == OneOf({"-", "U+00AD", "U+2010", "U+2011", "U+2012", "U+2013",
                  "U+2014", "U+2015", "U+2212", "U+FE58", "U+FE63", "U+FF0D"})

-----------------------------------------------------------------------------
(* The rules by name. *)
Cypher == [
    oC_Cypher |-> oC_Cypher, oC_Statement |-> oC_Statement,
    oC_Query |-> oC_Query, oC_RegularQuery |-> oC_RegularQuery,
    oC_Union |-> oC_Union, oC_SingleQuery |-> oC_SingleQuery,
    oC_SinglePartQuery |-> oC_SinglePartQuery,
    oC_MultiPartQuery |-> oC_MultiPartQuery,
    oC_UpdatingClause |-> oC_UpdatingClause,
    oC_ReadingClause |-> oC_ReadingClause, oC_Match |-> oC_Match,
    oC_Unwind |-> oC_Unwind, oC_Merge |-> oC_Merge,
    oC_MergeAction |-> oC_MergeAction, oC_Create |-> oC_Create,
    oC_Set |-> oC_Set, oC_SetItem |-> oC_SetItem, oC_Delete |-> oC_Delete,
    oC_Remove |-> oC_Remove, oC_RemoveItem |-> oC_RemoveItem,
    oC_InQueryCall |-> oC_InQueryCall, oC_StandaloneCall |-> oC_StandaloneCall,
    oC_YieldItems |-> oC_YieldItems, oC_YieldItem |-> oC_YieldItem,
    oC_With |-> oC_With, oC_Return |-> oC_Return,
    oC_ProjectionBody |-> oC_ProjectionBody,
    oC_ProjectionItems |-> oC_ProjectionItems,
    oC_ProjectionItem |-> oC_ProjectionItem, oC_Order |-> oC_Order,
    oC_Skip |-> oC_Skip, oC_Limit |-> oC_Limit, oC_SortItem |-> oC_SortItem,
    oC_Where |-> oC_Where, oC_Pattern |-> oC_Pattern,
    oC_PatternPart |-> oC_PatternPart,
    oC_AnonymousPatternPart |-> oC_AnonymousPatternPart,
    oC_PatternElement |-> oC_PatternElement, oC_NodePattern |-> oC_NodePattern,
    oC_PatternElementChain |-> oC_PatternElementChain,
    oC_RelationshipPattern |-> oC_RelationshipPattern,
    oC_RelationshipDetail |-> oC_RelationshipDetail,
    oC_Properties |-> oC_Properties,
    oC_RelationshipTypes |-> oC_RelationshipTypes,
    oC_NodeLabels |-> oC_NodeLabels, oC_NodeLabel |-> oC_NodeLabel,
    oC_RangeLiteral |-> oC_RangeLiteral, oC_LabelName |-> oC_LabelName,
    oC_RelTypeName |-> oC_RelTypeName, oC_Expression |-> oC_Expression,
    oC_OrExpression |-> oC_OrExpression, oC_XorExpression |-> oC_XorExpression,
    oC_AndExpression |-> oC_AndExpression,
    oC_NotExpression |-> oC_NotExpression,
    oC_ComparisonExpression |-> oC_ComparisonExpression,
    oC_AddOrSubtractExpression |-> oC_AddOrSubtractExpression,
    oC_MultiplyDivideModuloExpression |-> oC_MultiplyDivideModuloExpression,
    oC_PowerOfExpression |-> oC_PowerOfExpression,
    oC_UnaryAddOrSubtractExpression |-> oC_UnaryAddOrSubtractExpression,
    oC_StringListNullOperatorExpression |-> oC_StringListNullOperatorExpression,
    oC_ListOperatorExpression |-> oC_ListOperatorExpression,
    oC_StringOperatorExpression |-> oC_StringOperatorExpression,
    oC_NullOperatorExpression |-> oC_NullOperatorExpression,
    oC_PropertyOrLabelsExpression |-> oC_PropertyOrLabelsExpression,
    oC_Atom |-> oC_Atom, oC_Literal |-> oC_Literal,
    oC_BooleanLiteral |-> oC_BooleanLiteral, oC_ListLiteral |-> oC_ListLiteral,
    oC_PartialComparisonExpression |-> oC_PartialComparisonExpression,
    oC_ParenthesizedExpression |-> oC_ParenthesizedExpression,
    oC_RelationshipsPattern |-> oC_RelationshipsPattern,
    oC_FilterExpression |-> oC_FilterExpression, oC_IdInColl |-> oC_IdInColl,
    oC_FunctionInvocation |-> oC_FunctionInvocation,
    oC_FunctionName |-> oC_FunctionName,
    oC_ExplicitProcedureInvocation |-> oC_ExplicitProcedureInvocation,
    oC_ImplicitProcedureInvocation |-> oC_ImplicitProcedureInvocation,
    oC_ProcedureResultField |-> oC_ProcedureResultField,
    oC_ProcedureName |-> oC_ProcedureName, oC_Namespace |-> oC_Namespace,
    oC_ListComprehension |-> oC_ListComprehension,
    oC_PatternComprehension |-> oC_PatternComprehension,
    oC_PropertyLookup |-> oC_PropertyLookup,
    oC_CaseExpression |-> oC_CaseExpression,
    oC_CaseAlternatives |-> oC_CaseAlternatives, oC_Variable |-> oC_Variable,
    oC_NumberLiteral |-> oC_NumberLiteral, oC_MapLiteral |-> oC_MapLiteral,
    oC_Parameter |-> oC_Parameter,
    oC_PropertyExpression |-> oC_PropertyExpression,
    oC_PropertyKeyName |-> oC_PropertyKeyName,
    oC_IntegerLiteral |-> oC_IntegerLiteral,
    oC_DoubleLiteral |-> oC_DoubleLiteral, oC_SchemaName |-> oC_SchemaName,
    oC_ReservedWord |-> oC_ReservedWord, oC_SymbolicName |-> oC_SymbolicName,
    oC_LeftArrowHead |-> oC_LeftArrowHead,
    oC_RightArrowHead |-> oC_RightArrowHead, oC_Dash |-> oC_Dash]
=============================================================================
