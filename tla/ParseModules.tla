---------------------------- MODULE ParseModules ----------------------------
(***************************************************************************)
(* The parser's rules for functions, type classes, imports and modules:    *)
(* function.c, typeclass.c and module.c of src/parser/recursive_descent,   *)
(* and the choice of a statement by parser_acc_stmt() in core.c.           *)
(***************************************************************************)
EXTENDS ParseExpressions

\* A function declaration. Behind an import there is no 'fn'.
AccFndecl(s, position) ==
  LET isForeign == position = "foreign import"
      m     == PushMark(s)
      name  == AccIdentifier(IF isForeign THEN m ELSE NextToken(m))
      genr  == IF Lookahead(name, 1) = "<" THEN AccGenrdecl(name)
               ELSE Null(name)
      open  == NextToken(genr)
      args  == AccTypedesc(open)
      close == NextToken(args)
      hasRet == Lookahead(close, 1) = "->"
      ret   == IF hasRet THEN AccTypedesc(NextToken(close)) ELSE Null(close)
  IN  IF ~isForeign /\ Lookahead(m, 1) # "fn" THEN GiveUp(m)
      ELSE IF Failed(name) THEN GiveUp(SyntaxError(name))
      ELSE IF Lookahead(name, 1) = "<" /\ Failed(genr) THEN GiveUp(genr)
      ELSE IF Lookahead(genr, 1) # "(" THEN GiveUp(SyntaxError(open))
      ELSE IF Failed(args) /\ args.err THEN GiveUp(SyntaxError(args))
      ELSE IF Lookahead(args, 1) # ")" THEN GiveUp(SyntaxError(close))
      ELSE IF hasRet /\ Failed(ret) THEN GiveUp(SyntaxError(ret))
      ELSE PopMark(Give(ret,
             Node("fndecl", s.pos + 1,
                  IF hasRet THEN ret.node.last ELSE close.pos,
                  <<name.node>> \o Optional(genr) \o Optional(args)
                    \o Optional(ret))))

\* A declaration without anything behind it fails without a message, and stays
\* consumed; so does one whose body fails.
AccFnimpl(s) ==
  LET decl == AccFndecl(s, "implementation")
      body == IF Lookahead(decl, 1) = "{" THEN AccBlock(decl, TRUE)
              ELSE AccMatchexpr(decl, FALSE, TRUE)
  IN  IF Failed(decl) \/ Lookahead(decl, 1) = Eof THEN Null(decl)
      ELSE IF Failed(body) THEN SyntaxError(body)
      ELSE Give(body, Node("fnimpl", decl.node.first, body.node.last,
                           <<decl.node, body.node>>))

\* parser_acc_fndecl_list() and parser_acc_fnimpl_list()
RECURSIVE AccFunctions(_, _, _)
AccFunctions(s, n, isImpl) ==
  LET f == IF isImpl THEN AccFnimpl(s) ELSE AccFndecl(s, "typeclass")
  IN  IF Lookahead(s, 1) # "fn" THEN Give(s, n)
      ELSE IF Failed(f) THEN f
      ELSE AccFunctions(f, AddChild(n, f.node), isImpl)
-----------------------------------------------------------------------------
\* What a type class and an instance have between their braces.
AccTypeBody(s, n, isImpl) ==
  LET open  == NextToken(s)
      all   == AccFunctions(open, n, isImpl)
      close == NextToken(all)
  IN  IF Lookahead(s, 1) # "{" \/ Lookahead(open, 1) # "fn"
      THEN Null(SyntaxError(open))
      ELSE IF Failed(all) THEN SyntaxError(all)
      ELSE IF Lookahead(all, 1) # "}" THEN Null(SyntaxError(close))
      ELSE Give(close, [all.node EXCEPT !.last = close.pos])

\* Faulty: a class whose body fails keeps its mark.
AccTypeclass_KeepsMark(s) ==
  LET m    == NextToken(PushMark(s))
      name == AccIdentifier(m)
      genr == AccGenrdecl(name)
      body == AccTypeBody(genr, Node("typeclass", m.pos, 0,
                                     <<name.node>> \o Optional(genr)), FALSE)
  IN  IF Lookahead(s, 1) # "class" THEN Null(s)
      ELSE IF Failed(name) \/ (Failed(genr) /\ genr.err)
      THEN GiveUp(SyntaxError(genr))
      ELSE IF Failed(body) THEN body ELSE PopMark(body)

AccTypeclass(s) ==
  LET m    == NextToken(PushMark(s))
      name == AccIdentifier(m)
      genr == AccGenrdecl(name)
      body == AccTypeBody(genr, Node("typeclass", m.pos, 0,
                                     <<name.node>> \o Optional(genr)), FALSE)
  IN  IF Lookahead(s, 1) # "class" THEN Null(s)
      ELSE IF Failed(name) THEN GiveUp(SyntaxError(name))
      ELSE IF Failed(genr) /\ genr.err THEN GiveUp(SyntaxError(genr))
      ELSE IF Failed(body) THEN GiveUp(body)
      ELSE PopMark(body)

\* An instance that fails gives nothing back.
AccTypeinstance(s) ==
  LET class == AccIdentifier(NextToken(s))
      type  == AccIdentifier(class)
      genr  == AccGenrdecl(type)
  IN  IF Lookahead(s, 1) # "instance" THEN Null(s)
      ELSE IF Failed(class) THEN SyntaxError(class)
      ELSE IF Failed(type) THEN SyntaxError(type)
      ELSE IF Failed(genr) /\ genr.err THEN SyntaxError(genr)
      ELSE AccTypeBody(genr, Node("typeinstance", s.pos + 1, 0,
                                  <<class.node, type.node>> \o Optional(genr)),
                       TRUE)
-----------------------------------------------------------------------------
\* Faulty: the messages of the declaration that was tried first stay.
AccImported_KeepsMessages(s) ==
  LET decl == AccFndecl(PushMessages(s), "foreign import")
      id   == AccIdentifier(PopMessages(decl))
  IN  IF ~Failed(decl) THEN PopMessages(decl)
      ELSE Complain(id, Failed(id))

\* What is imported may be declared; else it is a name, and nothing is said of
\* why it is not a declaration.
AccImported(s) ==
  LET decl == AccFndecl(PushMessages(s), "foreign import")
      id   == AccIdentifier(RollbackInfo(decl))
  IN  IF ~Failed(decl) THEN PopMessages(decl)
      ELSE Complain(id, Failed(id))

RECURSIVE AccImportList(_, _)
AccImportList(s, n) ==
  LET item == AccImported(s)
      all  == [AddChild(n, item.node) EXCEPT !.last = item.node.last]
  IN  IF Failed(item) THEN item
      ELSE IF Lookahead(item, 1) = "," THEN AccImportList(NextToken(item), all)
      ELSE Give(item, all)

AccImport(s) ==
  LET m   == NextToken(PushMark(s))
      all == AccImportList(m, Node("import", m.pos, 0, << >>))
  IN  IF Failed(all) THEN GiveUp(all) ELSE PopMark(all)

AccModuleStatement(s) ==
  CASE Lookahead(s, 1) = "type" -> AccTypedecl(s)
    [] Lookahead(s, 1) \in {"import", "foreign_import"} -> AccImport(s)
    [] Lookahead(s, 1) = "fn" /\ Lookahead(s, 2) = "identifier" -> AccFnimpl(s)
    [] OTHER -> Null(s)

RECURSIVE AccModuleStatements(_, _)
AccModuleStatements(s, n) ==
  LET stmt == AccModuleStatement(s)
  IN  IF Failed(stmt) THEN Give(stmt, n)
      ELSE AccModuleStatements(stmt, AddChild(n, stmt.node))

\* The mark lies behind 'module', and a statement that has failed has had its
\* message: the flag is taken back.
AccModule(s) ==
  LET name    == AccIdentifier(PushMark(NextToken(s)))
      hasArgs == Lookahead(name, 1) = "("
      args    == IF hasArgs THEN AccTypedesc(NextToken(name)) ELSE Null(name)
      closed  == IF hasArgs THEN NextToken(args) ELSE args
      stmts   == AccModuleStatements(NextToken(closed),
                   Node("module", s.pos + 1, 0,
                        <<name.node>> \o Optional(args)))
      close   == NextToken(stmts)
  IN  IF Lookahead(s, 1) # "module" THEN Null(s)
      ELSE IF Failed(name) THEN GiveUp(SyntaxError(name))
      ELSE IF Lookahead(name, 1) \notin {"(", "{"} THEN GiveUp(SyntaxError(name))
      ELSE IF hasArgs /\ Failed(args) /\ args.err
           THEN GiveUp(SyntaxError(args))
      ELSE IF hasArgs /\ Lookahead(args, 1) # ")" THEN GiveUp(SyntaxError(args))
      ELSE IF Lookahead(closed, 1) # "{" THEN GiveUp(SyntaxError(closed))
      ELSE IF stmts.err THEN GiveUp(ResetError(stmts))
      ELSE IF Lookahead(stmts, 1) # "}" THEN GiveUp(SyntaxError(stmts))
      ELSE PopMark(Give(close, [stmts.node EXCEPT !.last = close.pos]))
-----------------------------------------------------------------------------
\* Faulty: a declaration is looked at and given back.
AccStmt_GivesBack(s) ==
  LET decl == AccVardecl(PushMark(s))
  IN  IF Failed(decl) THEN PopMark(decl) ELSE Rollback(decl)

\* parser_acc_stmt(). That module_create() registers a module is not modelled
\* here: see Compiler.
AccStmt(s) ==
  LET tok  == Lookahead(s, 1)
      tok2 == Lookahead(s, 2)
  IN  CASE tok = "module" -> AccModule(s)
        [] tok = "{" -> AccBlock(s, TRUE)
        [] tok = "identifier" /\ tok2 = ":" -> AccVardecl(s)
        [] tok = "type" -> AccTypedecl(s)
        [] tok = "fn" /\ tok2 = "identifier" -> AccFnimpl(s)
        [] tok \in {"import", "foreign_import"} -> AccImport(s)
        [] OTHER -> Null(s)
-----------------------------------------------------------------------------
\* What can be parsed by itself, and by which call: a block with its braces or
\* bare, a call that must be one or that may be.
AccRule(rule, s) ==
  LET expectBraces == rule # "bare"
      expectIt     == rule # "maybe_fncall"
  IN  CASE rule = "statement" -> AccStmt(s)
        [] rule = "typedesc" -> AccTypedesc(s)
        [] rule = "genrdecl" -> AccGenrdecl(s)
        [] rule = "expression" -> AccExpression(s)
        [] rule \in {"block", "bare"} -> AccBlock(s, expectBraces)
        [] rule = "ifexpr" -> AccIfexpr(s, "if")
        [] rule = "matchexpr" -> AccMatchexpr(s, TRUE, TRUE)
        [] rule \in {"fncall", "maybe_fncall"} -> AccFncall(s, expectIt)
        [] rule = "fndecl" -> AccFndecl(s, "standalone")
        [] rule = "fnimpl" -> AccFnimpl(s)
        [] rule = "typedecl" -> AccTypedecl(s)
        [] rule = "typeclass" -> AccTypeclass(s)
        [] rule = "typeinstance" -> AccTypeinstance(s)
        [] rule = "import" -> AccImport(s)
        [] rule = "module" -> AccModule(s)
=============================================================================
