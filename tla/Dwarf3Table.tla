----------------------------- MODULE Dwarf3Table -----------------------------
(***************************************************************************)
(* The DWARF 3 schema of spec/dwarf3.py, the input of gen-adt-cpp.py and   *)
(* gen-tagpreds-cpp.py (both `from dwarf3 import *`): the attribute table  *)
(* (attribute -> storage kind; a name outside it is a KeyError), the       *)
(* artificial categories, and the tags in table order.                     *)
(***************************************************************************)
EXTENDS SchemaTables

\* attr_types: (attribute, storage kind) pairs.
Dwarf3AttrTypeList == <<
  <<"sibling", "refdie">>, <<"location", "loclist">>, <<"name", "string">>,
  <<"ordering", "FIXME">>, <<"byte_size", "unsigned">>,
  <<"bit_offset", "unsigned">>, <<"bit_size", "unsigned">>,
  <<"stmt_list", "FIXME">>, <<"low_pc", "address">>,
  <<"high_pc", "address">>, <<"language", "unsigned">>,
  <<"discr", "refdie">>, <<"discr_value", "signed">>,
  <<"visibility", "unsigned">>, <<"import", "refdie">>,
  <<"string_length", "loclist">>, <<"common_reference", "refdie">>,
  <<"comp_dir", "string">>, <<"const_value", "signed">>,
  <<"containing_type", "refdie">>, <<"default_value", "refdie">>,
  <<"inline", "signed">>, <<"is_optional", "flag">>,
  <<"lower_bound", "unsigned">>, <<"producer", "string">>,
  <<"prototyped", "flag">>, <<"return_addr", "loclist">>,
  <<"start_scope", "FIXME">>, <<"bit_stride", "signed">>,
  <<"upper_bound", "unsigned">>, <<"abstract_origin", "refdie">>,
  <<"accessibility", "unsigned">>, <<"address_class", "unsigned">>,
  <<"artificial", "flag">>, <<"base_types", "refdie">>,
  <<"calling_convention", "unsigned">>, <<"count", "unsigned">>,
  <<"data_member_location", "loclist">>, <<"decl_column", "unsigned">>,
  <<"decl_file", "unsigned">>, <<"decl_line", "unsigned">>,
  <<"declaration", "flag">>, <<"discr_list", "FIXME">>,
  <<"encoding", "unsigned">>, <<"external", "flag">>,
  <<"frame_base", "loclist">>, <<"friend", "refdie">>,
  <<"identifier_case", "unsigned">>, <<"macro_info", "offset">>,
  <<"namelist_item", "refdie">>, <<"priority", "refdie">>,
  <<"segment", "loclist">>, <<"specification", "refdie">>,
  <<"static_link", "loclist">>, <<"type", "refdie_is_type">>,
  <<"use_location", "loclist">>, <<"variable_parameter", "flat">>,
  <<"virtuality", "unsigned">>, <<"vtable_elem_location", "loclist">>,
  <<"allocated", "refdie">>, <<"associated", "refdie">>,
  <<"data_location", "loclist">>, <<"byte_stride", "unsigned">>,
  <<"entry_pc", "address">>, <<"use_UTF8", "flag">>,
  <<"extension", "refdie">>, <<"ranges", "rangelist">>,
  <<"trampoline", "FIXME">>, <<"call_column", "unsigned">>,
  <<"call_file", "unsigned">>, <<"call_line", "unsigned">>,
  <<"description", "string">>, <<"binary_scale", "FIXME">>,
  <<"decimal_scale", "FIXME">>, <<"small", "refdie">>,
  <<"decimal_sign", "FIXME">>, <<"digit_count", "FIXME">>,
  <<"picture_string", "FIXME">>, <<"mutable", "flag">>,
  <<"threads_scaled", "flag">>, <<"explicit", "flag">>,
  <<"object_pointer", "refdie">>, <<"endianity", "unsigned">>,
  <<"elemental", "flag">>, <<"pure", "flag">>>>

\* attr_type_map = dict(attr_types); its keys are the attribute names.
Dwarf3AttrTypeMap == PairDict(Dwarf3AttrTypeList)
Dwarf3AttrTypes == DOMAIN Dwarf3AttrTypeMap

\* artificial_tags: the categories.
Dwarf3ArtificialTags == <<
  E("basic", <<>>, <<>>, <<>>),
  E("program_element", <<O("decl_column"), O("decl_file"), O("decl_line"), O("prototyped"), O("declaration"), O("external"), O("visibility")>>, <<>>, <<"basic">>),
  E("type", <<O("byte_size")>>, <<>>, <<"program_element">>),
  E("type_chain", <<O("type")>>, <<>>, <<"type">>),
  E("with_named_children", <<>>, <<>>, <<"basic">>),
  E("with_runtime_location", <<>>, <<>>, <<"basic">>),
  E("with_stack_location", <<>>, <<>>, <<"basic">>)>>

\* member_types, the abbreviation the table uses.
Dwarf3MemberTypes == <<"class_type", "typedef", "structure_type", "enumeration_type", "union_type">>

\* tags: the kinds, in table order.
Dwarf3Tags == <<
  E("array_type", <<O("type")>>, <<"subrange_type">>, <<"type">>),
  E("class_type", <<>>, <<"member", "access_declaration">> \o Dwarf3MemberTypes, <<"type", "with_named_children">>),
  E("entry_point", <<>>, <<>>, <<"basic">>),
  E("enumeration_type", <<O("type")>>, <<"enumerator">>, <<"type", "with_named_children">>),
  E("formal_parameter", <<O("type"), O("location")>>, <<>>, <<"program_element", "with_stack_location">>),
  E("imported_declaration", <<>>, <<>>, <<"basic">>),
  E("label", <<>>, <<>>, <<"basic">>),
  E("lexical_block", <<O("low_pc"), O("high_pc"), O("ranges")>>, <<"variable">>, <<"with_runtime_location">>),
  E("member", <<O("type"), O("data_member_location")>>, <<>>, <<"basic">>),
  E("pointer_type", <<>>, <<>>, <<"type_chain">>),
  E("reference_type", <<>>, <<>>, <<"type_chain">>),
  E("compile_unit", <<M("language"), O("comp_dir"), O("low_pc"), O("high_pc"), O("ranges")>>, <<"subprogram", "variable", "base_type", "pointer_type", "reference_type">> \o Dwarf3MemberTypes, <<"with_named_children", "with_runtime_location">>),
  E("string_type", <<>>, <<>>, <<"type">>),
  E("structure_type", <<>>, <<"member", "access_declaration">> \o Dwarf3MemberTypes, <<"type", "with_named_children">>),
  E("subroutine_type", <<O("type")>>, <<>>, <<"type">>),
  E("typedef", <<>>, <<>>, <<"type_chain">>),
  E("union_type", <<>>, <<"member">>, <<"type", "with_named_children">>),
  E("unspecified_parameters", <<>>, <<>>, <<"program_element">>),
  E("variant", <<>>, <<>>, <<"basic">>),
  E("common_block", <<>>, <<>>, <<"basic">>),
  E("common_inclusion", <<>>, <<>>, <<"basic">>),
  E("inheritance", <<O("type"), O("data_member_location")>>, <<>>, <<"basic">>),
  E("inlined_subroutine", <<O("high_pc"), O("low_pc"), O("ranges")>>, <<>>, <<"with_runtime_location">>),
  E("module", <<>>, <<>>, <<"with_named_children">>),
  E("ptr_to_member_type", <<>>, <<>>, <<"type">>),
  E("set_type", <<>>, <<>>, <<"type">>),
  E("subrange_type", <<M("type"), O("upper_bound"), O("lower_bound"), O("count")>>, <<>>, <<"type">>),
  E("with_stmt", <<>>, <<>>, <<"basic">>),
  E("access_declaration", <<>>, <<>>, <<"basic">>),
  E("base_type", <<M("encoding"), O("bit_size"), O("bit_offset")>>, <<>>, <<"type">>),
  E("catch_block", <<>>, <<>>, <<"basic">>),
  E("const_type", <<>>, <<>>, <<"type_chain">>),
  E("constant", <<>>, <<>>, <<"program_element">>),
  E("enumerator", <<>>, <<>>, <<"basic">>),
  E("file_type", <<>>, <<>>, <<"type">>),
  E("friend", <<>>, <<>>, <<"basic">>),
  E("namelist", <<>>, <<>>, <<"basic">>),
  E("namelist_item", <<>>, <<>>, <<"basic">>),
  E("packed_type", <<>>, <<>>, <<"type_chain">>),
  E("subprogram", <<O("type"), O("calling_convention"), O("low_pc"), O("high_pc"), O("frame_base")>>, <<"formal_parameter", "unspecified_parameters", "variable", "lexical_block">>, <<"program_element", "with_runtime_location">>),
  E("template_type_parameter", <<>>, <<>>, <<"basic">>),
  E("template_value_parameter", <<>>, <<>>, <<"basic">>),
  E("thrown_type", <<>>, <<>>, <<"type_chain">>),
  E("try_block", <<>>, <<>>, <<"basic">>),
  E("variant_part", <<>>, <<>>, <<"basic">>),
  E("variable", <<O("type"), O("location")>>, <<>>, <<"program_element", "with_runtime_location", "with_stack_location">>),
  E("volatile_type", <<>>, <<>>, <<"type_chain">>),
  E("dwarf_procedure", <<>>, <<>>, <<"basic">>),
  E("restrict_type", <<>>, <<>>, <<"type_chain">>),
  E("interface_type", <<>>, <<"member">>, <<"type">>),
  E("namespace", <<>>, <<>>, <<"basic">>),
  E("imported_module", <<>>, <<>>, <<"basic">>),
  E("unspecified_type", <<>>, <<>>, <<"type">>),
  E("partial_unit", <<>>, <<>>, <<"basic">>),
  E("imported_unit", <<>>, <<>>, <<"basic">>),
  E("condition", <<>>, <<>>, <<"basic">>),
  E("shared_type", <<>>, <<>>, <<"type">>)>>

Dwarf3Schema == [tags |-> Dwarf3Tags, art |-> Dwarf3ArtificialTags]
=============================================================================
