----------------------------- MODULE AdtGenTable -----------------------------
(***************************************************************************)
(* The tables adt-gen.py carries itself: stored_types (storage kind ->     *)
(* C++ representation; only which kinds it has matters to the model, and  *)
(* which of them are references), attr_types (attribute -> storage kind),  *)
(* the attribute-list abbreviations, and dwarf3_tags, whose base lists     *)
(* name categories that are not entries of the table.                      *)
(***************************************************************************)
EXTENDS SchemaTables

\* stored_types, abstracted to its kinds (the keys of stored_type_map).
AdtStoredTypes == {
  "string", "flag", "unsigned", "signed", "base", "offset", "address",
  "half", "ref", "refdie", "refdie_is_type", "loclist", "rangelist", "FIXME"}

\* Mutant: the copy edited on its own, "type" stored as a plain "refdie"
\* (the narrowing getter dropped; line 284 already folds refdie_is_type
\* into refdie for the get_ call).
AdtAttrTypesTypeAsRefdie == <<
  <<"sibling", "refdie">>, <<"location", "loclist">>, <<"name", "string">>,
  <<"ordering", "FIXME">>, <<"byte_size", "unsigned">>,
  <<"bit_offset", "unsigned">>, <<"bit_size", "unsigned">>,
  <<"stmt_list", "FIXME">>, <<"low_pc", "address">>,
  <<"high_pc", "address">>, <<"language", "unsigned">>,
  <<"discr", "refdie">>, <<"discr_value", "signed">>,
  <<"visibility", "unsigned">>, <<"import", "refdie">>,
  <<"string_length", "loclist">>, <<"common_reference", "refdie">>,
  <<"comp_dir", "string">>, <<"const_value", "signed">>,
  <<"containing_type", "refdie">>, <<"default_value", "refdie">>,
  <<"inline", "signed">>, <<"is_optional", "flag">>,
  <<"lower_bound", "unsigned">>, <<"producer", "string">>,
  <<"prototyped", "flag">>, <<"return_addr", "loclist">>,
  <<"start_scope", "FIXME">>, <<"bit_stride", "signed">>,
  <<"upper_bound", "unsigned">>, <<"abstract_origin", "refdie">>,
  <<"accessibility", "unsigned">>, <<"address_class", "unsigned">>,
  <<"artificial", "flag">>, <<"base_types", "refdie">>,
  <<"calling_convention", "unsigned">>, <<"count", "unsigned">>,
  <<"data_member_location", "loclist">>, <<"decl_column", "unsigned">>,
  <<"decl_file", "unsigned">>, <<"decl_line", "unsigned">>,
  <<"declaration", "flag">>, <<"discr_list", "FIXME">>,
  <<"encoding", "unsigned">>, <<"external", "flag">>,
  <<"frame_base", "loclist">>, <<"friend", "refdie">>,
  <<"identifier_case", "unsigned">>, <<"macro_info", "offset">>,
  <<"namelist_item", "refdie">>, <<"priority", "refdie">>,
  <<"segment", "loclist">>, <<"specification", "refdie">>,
  <<"static_link", "loclist">>, <<"type", "refdie">>,
  <<"use_location", "loclist">>, <<"variable_parameter", "flat">>,
  <<"virtuality", "unsigned">>, <<"vtable_elem_location", "loclist">>,
  <<"allocated", "refdie">>, <<"associated", "refdie">>,
  <<"data_location", "loclist">>, <<"byte_stride", "unsigned">>,
  <<"entry_pc", "address">>, <<"use_UTF8", "flag">>,
  <<"extension", "refdie">>, <<"ranges", "rangelist">>,
  <<"trampoline", "FIXME">>, <<"call_column", "unsigned">>,
  <<"call_file", "unsigned">>, <<"call_line", "unsigned">>,
  <<"description", "string">>, <<"binary_scale", "FIXME">>,
  <<"decimal_scale", "FIXME">>, <<"small", "refdie">>,
  <<"decimal_sign", "FIXME">>, <<"digit_count", "FIXME">>,
  <<"picture_string", "FIXME">>, <<"mutable", "flag">>,
  <<"threads_scaled", "flag">>, <<"explicit", "flag">>,
  <<"object_pointer", "refdie">>, <<"endianity", "unsigned">>,
  <<"elemental", "flag">>, <<"pure", "flag">>>>

\* attr_types: (attribute, storage kind) pairs; note "flat", a kind
\* stored_types does not have.
AdtAttrTypes == <<
  <<"sibling", "refdie">>, <<"location", "loclist">>, <<"name", "string">>,
  <<"ordering", "FIXME">>, <<"byte_size", "unsigned">>,
  <<"bit_offset", "unsigned">>, <<"bit_size", "unsigned">>,
  <<"stmt_list", "FIXME">>, <<"low_pc", "address">>,
  <<"high_pc", "address">>, <<"language", "unsigned">>,
  <<"discr", "refdie">>, <<"discr_value", "signed">>,
  <<"visibility", "unsigned">>, <<"import", "refdie">>,
  <<"string_length", "loclist">>, <<"common_reference", "refdie">>,
  <<"comp_dir", "string">>, <<"const_value", "signed">>,
  <<"containing_type", "refdie">>, <<"default_value", "refdie">>,
  <<"inline", "signed">>, <<"is_optional", "flag">>,
  <<"lower_bound", "unsigned">>, <<"producer", "string">>,
  <<"prototyped", "flag">>, <<"return_addr", "loclist">>,
  <<"start_scope", "FIXME">>, <<"bit_stride", "signed">>,
  <<"upper_bound", "unsigned">>, <<"abstract_origin", "refdie">>,
  <<"accessibility", "unsigned">>, <<"address_class", "unsigned">>,
  <<"artificial", "flag">>, <<"base_types", "refdie">>,
  <<"calling_convention", "unsigned">>, <<"count", "unsigned">>,
  <<"data_member_location", "loclist">>, <<"decl_column", "unsigned">>,
  <<"decl_file", "unsigned">>, <<"decl_line", "unsigned">>,
  <<"declaration", "flag">>, <<"discr_list", "FIXME">>,
  <<"encoding", "unsigned">>, <<"external", "flag">>,
  <<"frame_base", "loclist">>, <<"friend", "refdie">>,
  <<"identifier_case", "unsigned">>, <<"macro_info", "offset">>,
  <<"namelist_item", "refdie">>, <<"priority", "refdie">>,
  <<"segment", "loclist">>, <<"specification", "refdie">>,
  <<"static_link", "loclist">>, <<"type", "refdie_is_type">>,
  <<"use_location", "loclist">>, <<"variable_parameter", "flat">>,
  <<"virtuality", "unsigned">>, <<"vtable_elem_location", "loclist">>,
  <<"allocated", "refdie">>, <<"associated", "refdie">>,
  <<"data_location", "loclist">>, <<"byte_stride", "unsigned">>,
  <<"entry_pc", "address">>, <<"use_UTF8", "flag">>,
  <<"extension", "refdie">>, <<"ranges", "rangelist">>,
  <<"trampoline", "FIXME">>, <<"call_column", "unsigned">>,
  <<"call_file", "unsigned">>, <<"call_line", "unsigned">>,
  <<"description", "string">>, <<"binary_scale", "FIXME">>,
  <<"decimal_scale", "FIXME">>, <<"small", "refdie">>,
  <<"decimal_sign", "FIXME">>, <<"digit_count", "FIXME">>,
  <<"picture_string", "FIXME">>, <<"mutable", "flag">>,
  <<"threads_scaled", "flag">>, <<"explicit", "flag">>,
  <<"object_pointer", "refdie">>, <<"endianity", "unsigned">>,
  <<"elemental", "flag">>, <<"pure", "flag">>>>

\* attr_type_map = dict(attr_types)
AdtAttrTypeMap == PairDict(AdtAttrTypes)

\* decl_attrs, member_types, prog_el_attrs, type_attrs, type_chain_attrs
AdtDeclAttrs == <<O("decl_column"), O("decl_file"), O("decl_line"), O("name")>>
AdtMemberTypes == <<"class_type", "typedef", "structure_type", "enumeration_type", "union_type">>
AdtProgElAttrs == AdtDeclAttrs \o <<O("prototyped"), O("declaration"), O("external"), O("visibility")>>
AdtTypeAttrs == AdtProgElAttrs \o <<O("byte_size")>>
AdtTypeChainAttrs == AdtTypeAttrs \o <<O("type")>>

\* dwarf3_tags, in table order.
AdtTags == <<
  E("array_type", AdtTypeAttrs \o <<O("type")>>, <<"subrange_type">>, <<"is_type">>),
  E("class_type", AdtTypeAttrs, <<"member", "access_declaration">> \o AdtMemberTypes, <<"is_type", "has_named_children">>),
  E("entry_point", <<>>, <<>>, <<"base">>),
  E("enumeration_type", AdtTypeAttrs \o <<O("type")>>, <<"enumerator">>, <<"is_type", "has_named_children">>),
  E("formal_parameter", AdtProgElAttrs \o <<O("type"), O("location")>>, <<>>, <<"is_program_element">>),
  E("imported_declaration", AdtDeclAttrs, <<>>, <<"base">>),
  E("label", AdtDeclAttrs, <<>>, <<"base">>),
  E("lexical_block", <<O("low_pc"), O("high_pc"), O("ranges")>>, <<"variable">>, <<"base">>),
  E("member", AdtProgElAttrs \o <<O("type"), O("data_member_location")>>, <<>>, <<"is_program_element">>),
  E("pointer_type", AdtTypeChainAttrs, <<>>, <<"is_type_chain">>),
  E("reference_type", AdtTypeChainAttrs, <<>>, <<"is_type_chain">>),
  E("compile_unit", <<M("language"), O("comp_dir"), O("low_pc"), O("high_pc"), O("ranges"), O("name")>>, <<"subprogram", "variable", "base_type", "pointer_type", "reference_type">> \o AdtMemberTypes, <<"has_named_children">>),
  E("string_type", AdtTypeAttrs, <<>>, <<"is_type">>),
  E("structure_type", AdtProgElAttrs \o <<O("byte_size")>>, <<"member", "access_declaration">> \o AdtMemberTypes, <<"is_type", "has_named_children">>),
  E("subroutine_type", AdtTypeAttrs \o <<O("type")>>, <<>>, <<"is_type">>),
  E("typedef", AdtTypeChainAttrs, <<>>, <<"is_type_chain">>),
  E("union_type", AdtTypeAttrs, <<"member">>, <<"is_type", "has_named_children">>),
  E("unspecified_parameters", AdtProgElAttrs, <<>>, <<"is_program_element">>),
  E("variant", AdtDeclAttrs, <<>>, <<"base">>),
  E("common_block", AdtDeclAttrs, <<>>, <<"base">>),
  E("common_inclusion", AdtDeclAttrs, <<>>, <<"base">>),
  E("inheritance", AdtProgElAttrs \o <<O("type"), O("data_member_location")>>, <<>>, <<"is_program_element">>),
  E("inlined_subroutine", <<O("high_pc"), O("low_pc"), O("ranges")>>, <<>>, <<"base">>),
  E("module", AdtDeclAttrs, <<>>, <<"has_named_children">>),
  E("ptr_to_member_type", AdtTypeAttrs, <<>>, <<"is_type">>),
  E("set_type", AdtTypeAttrs, <<>>, <<"is_type">>),
  E("subrange_type", AdtTypeAttrs \o <<M("type"), O("upper_bound"), O("lower_bound"), O("count")>>, <<>>, <<"is_type">>),
  E("with_stmt", <<>>, <<>>, <<"base">>),
  E("access_declaration", AdtDeclAttrs, <<>>, <<"base">>),
  E("base_type", AdtTypeAttrs \o <<M("encoding"), O("bit_size"), O("bit_offset")>>, <<>>, <<"is_type">>),
  E("catch_block", <<>>, <<>>, <<"base">>),
  E("const_type", AdtTypeChainAttrs, <<>>, <<"is_type_chain">>),
  E("constant", AdtProgElAttrs, <<>>, <<"is_program_element">>),
  E("enumerator", AdtDeclAttrs, <<>>, <<"base">>),
  E("file_type", AdtTypeAttrs, <<>>, <<"is_type">>),
  E("friend", AdtDeclAttrs, <<>>, <<"base">>),
  E("namelist", AdtDeclAttrs, <<>>, <<"base">>),
  E("namelist_item", AdtDeclAttrs, <<>>, <<"base">>),
  E("packed_type", AdtTypeChainAttrs, <<>>, <<"is_type_chain">>),
  E("subprogram", AdtProgElAttrs \o <<O("type"), O("calling_convention"), O("low_pc"), O("high_pc"), O("ranges"), O("frame_base")>>, <<"formal_parameter", "unspecified_parameters", "variable", "lexical_block">>, <<"is_program_element", "has_named_children">>),
  E("template_type_parameter", AdtDeclAttrs, <<>>, <<"base">>),
  E("template_value_parameter", AdtDeclAttrs, <<>>, <<"base">>),
  E("thrown_type", AdtTypeChainAttrs, <<>>, <<"is_type_chain">>),
  E("try_block", <<>>, <<>>, <<"base">>),
  E("variant_part", AdtDeclAttrs, <<>>, <<"base">>),
  E("variable", AdtProgElAttrs \o <<O("type"), O("location")>>, <<>>, <<"is_program_element">>),
  E("volatile_type", AdtTypeChainAttrs, <<>>, <<"is_type_chain">>),
  E("dwarf_procedure", <<>>, <<>>, <<"base">>),
  E("restrict_type", AdtTypeChainAttrs, <<>>, <<"is_type_chain">>),
  E("interface_type", AdtTypeAttrs, <<"member">>, <<"is_type">>),
  E("namespace", AdtDeclAttrs, <<>>, <<"base">>),
  E("imported_module", AdtDeclAttrs, <<>>, <<"base">>),
  E("unspecified_type", AdtTypeAttrs, <<>>, <<"is_type">>),
  E("partial_unit", <<>>, <<>>, <<"base">>),
  E("imported_unit", <<>>, <<>>, <<"base">>),
  E("condition", AdtDeclAttrs, <<>>, <<"base">>),
  E("shared_type", AdtTypeAttrs, <<>>, <<"is_type">>)>>
=============================================================================
